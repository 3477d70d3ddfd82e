# Verification of Incoding Framework Core

TLA+ modules that model the framework where it keeps state, on the server and in the browser,
the TLC configurations that check them on small instances, and theorems proved with TLAPS.
Paths are relative to the repository; `Core` stands for `src/Incoding.Core`.

## 1. The system

| Component | State it keeps | Operations | Talks to |
|---|---|---|---|
| `DefaultDispatcher` (`Core/CQRS`) | `unitOfWorkCollection`: setting -> lazy unit of work | `Push`, `PushAsync`, `Query`, `QueryAsync`, `New` | executes messages, which push on the same dispatcher again; units of work |
| Unit of work (`Incoding.Data`, `.EF`, `.NHibernate`, `.Raven`, `.Mongo`) | session, transaction, `disposed` | create, `Flush`, `Commit`, `Dispose` | the database |
| `CachingFactory` (`Core/Block/Caching`) | provider's dictionary, `MiniLocks` | `Get`, `Set`, `Delete`, `DeleteAll`, `Retrieve` | provider, the caller's callback |
| `FileCaching` | a file | `Evaluate` | file system |
| Background executors (`Core/Tasks`) | `_timer`, `_executing`, `StopImmediately` | `Start`, `Stop`, the `Elapsed` handler | dispatcher, hooks of the application |
| `BackgroundTaskFactory` | dictionary of executors | `Initialize`, `StopAll`, `Add...Executor` | executors |
| Scheduler (`Core/Block/Scheduler`) | rows of `DelayToScheduler`, static `LastDate`, `FirstRun` | `ScheduleCommand`, `GetSchedulersQuery`, `RunSchedulerCommand`, `ProcessMessage`, `ChangeSchedulerStatusCommand` | runs in a sequential executor, pushes on dispatchers of its own |
| `ActionPolicy`, `ExceptionHandlingFactory` | retry counter, policies | `Do`, `Handler` | callers |
| Logging | file, "clear at once" flag | `Log`, `LogAsync` | files, console |
| IoC | container | `TryResolve...` | libraries |
| Model View Dispatcher (`Incoding.Web`) | none of its own | `Push`, `Query`, `Render`, `Validate`, `QueryToFile` | a new dispatcher for each request |
| MetaLanguage, HTML helpers, Grid | none | builders of markup | |
| Client runtime (`js/incoding.framework.js`) | handlers, runner and executables of each element, named intervals, requests in flight, local storage, the hash | `parse`, `bind`, `invoke`, `DoIt`, `execute`, `complete`, the executables, `AjaxAdapter`, `purl` | DOM events, browser navigation, server |

How they interact: a controller or an executor pushes a composite of messages on a
dispatcher. A message runs with the dispatcher and a lazy repository and may push further
messages on either that dispatcher (nested, sharing its units of work) or on
`Dispatcher.New()` (independent). The scheduler is a sequential executor whose query fetches
the rows that are due and whose command runs each of them by pushes on new dispatchers; a
command that recurs schedules its successor in the push that writes its success. In the
browser, markup made by the MetaLanguage carries the attribute `incoding`, a list of
executables; the client runtime binds the element to the events it names, and an event runs the
executables before the action, the action (often a request), and those on success or error, on
complete and on break; they insert content with attributes of its own, trigger further events
on the element or on others, and store parameters in the hash, whose change is an event too.

What is hard, and what makes each component correct:

* **Dispatcher.** Pushes nest and share units of work; whether one is outermost is *derived*
  from the collection being empty; exceptions may be thrown and caught at every depth; several
  units of work commit one after the other. Correct means: nothing is durable before the
  outermost push commits, a push that returns has made its commands durable, a cycle that
  failed leaves nothing behind, every transaction is closed.
* **CachingFactory.** Threads interleave inside double-checked locking whose lock object is
  removed while others wait for it. Correct means: the callback runs once, readers do not throw,
  no stale value survives an update, no deadlock.
* **Executors.** A timer whose handlers overlap, a flag tested without its lock, a timer
  started by another task, stops in between. Correct means: one execution at a time, a stop
  that stops, a flag that is always reset.
* **Scheduler.** Rows outlive the process, tasks outlive the wait for them, commands and
  status changes fail separately. Correct means: every row is executed in the end, its command
  commits once unless its success is lost, its recurrence neither forks nor goes on for ever.
* **Client runtime.** One executable object serves every occurrence of its event, nested ones
  included; exceptions serve as breaks and are caught at two places; events bubble; an element
  may be gone when its answer arrives; two announcements of one navigation; answers overtake
  each other. Correct means: an element is initialised once and runs its executables once for
  an event, a break keeps the action from running, what runs sees its own event, the content
  belongs to the hash, a loading indicator goes off, storing a parameter keeps the others.

PROJECT.json lists the hazards with their lines, and which property covers each.

## 2. Modules

| Module | Models | EXTENDS / role |
|---|---|---|
| `UnitOfWork` | one entry of `UnitOfWorkCollection`, as operators on a record | used by `Dispatcher` |
| `Dispatcher` | `DefaultDispatcher.Push` and its variants, arbitrary messages | composes `UnitOfWork` |
| `TransactionalCycle` | nothing of the code: the abstract promise of a dispatch cycle | implemented by `Dispatcher` |
| `DispatcherProof` | theorems about `Dispatcher`: its discipline, what is durable when a cycle ends, and that it implements `TransactionalCycle` | |
| `CachingFactory` | `CachingFactory` over `MemoryListCachedProvider` | |
| `CachingProof` | theorems about `CachingFactory` | |
| `TaskExecutor` | `TaskExecutorBase`, `TaskSequentialExecutor`, `TaskSimpleExecutor` | |
| `TaskExecutorProof` | theorems about `TaskExecutor` | |
| `Scheduler` | everything under `Core/Block/Scheduler` that changes a row or a static field | |
| `SchedulerProof` | theorems about `Scheduler` | |
| `ClientUrl` | the operators of `purl` on the hash, over pieces of texts | used by `ClientRuntime` |
| `ClientRuntime` | `IncodingMetaElement`, `IncodingRunner`, the executables, `AjaxAdapter`, `LocalStorageFactory`, `IncodingEngine`, the announcement of hash changes | composes `ClientUrl` |
| `ClientProof` | theorems about the types and the intervals of `ClientRuntime`, lemmas about sequences and hashes | |
| `ClientEventProof` | theorems about the events executables see, and about breaks | |
| `ClientOnceProof` | theorems about what is handled and initialised once | |
| `ClientHashProof` | theorems about storing in the hash, that `ClientRuntime` implements the safety part of `HashNavigation`, and about the indicator of requests | |
| `HashNavigation` | nothing of the code: the abstract promise of an element driven by the hash | implemented by `ClientRuntime` |
| `MC...` | small instances | |

### Dispatcher and UnitOfWork

`frame[1..depth]` is the stack of nested pushes, each with the composite, the parts it has
not executed, `isOuterCycle`, `isFlush` and where it is; `frame[0]` is the caller outside.
`uows` is `unitOfWorkCollection`. `Push` is the head of the method (lines 107-108),
`StartPart` the head of the loop with `AddOrGet` (111-121; `First` and `Precedes` are the
`GroupBy`), `EndPart` the flush behind a message (130-132), `EndLoop` the decision to commit
(135), `CommitUnit`/`CommitFails` one round of `Commit`, `DisposeUnit`/`DisposeFails` one round
of `Dispose`, `EndPush` the end of `finally`. Between `StartPart` and `EndPart` a message is any
program: it creates the unit of work, writes, flushes, pushes, returns or throws; an interception
that throws is a message that throws at its first or last statement. `Leave` chooses whether
the calling message catches the exception of a nested push.

A unit of work is `lazy` until the repository is first used, `faulted` when the factory threw
(a `Lazy` without thread safety caches that exception when it is made from a delegate), then
`open`, `committed`, `disposed`; `broken` is one whose `Dispose` threw. A *tracked* write is one
the session sends at a flush: all of them when the unit of work was created for flushing, only
added and removed entities otherwise.

### CachingFactory

`stack[t]` is the stack of calls of thread `t`, because a callback may retrieve another name.
Every access to a concurrent dictionary, to `MiniLocks` or to a monitor is a step. A lock
object is a number; `miniLock[k]` is the one `MiniLocks` holds. `source` is the data the
callbacks read and `Update` changes before it deletes the key. Monitors are re-entrant.

### TaskExecutor

`tick[t]` is a run of the `Elapsed` handler, `timers` the state of every timer object, `timer`
the field, `starting` the tasks of `Task.Factory.StartNew` that have not run (the
`Task.Delay` in them is not awaited and delays nothing). `CheckExecuting`, `Conditional`,
`Enter`/`Query`, `PushItem`, `After`, `OnError`, `Reset` are the parts of the handler between
its awaits. `Stop` disposes the timer (lines 124-129), `ForgetTimer` sets the field to null
(130). `LastRunning` is left out.

### Scheduler

`delays` are the rows, `lastDate` the static `LastDate` of the scheduler in question (`async`
tells which of the two is looked at: they share nothing but code), `exec`, `batch` and `waits` the
execution of the sequential executor, `jobs` the `ProcessMessage` tasks. A change of a status is
a push on a new dispatcher, so by the dispatcher's theorem it is one atomic step that may fail; the
success of a recurring row and the row that follows it are one such push (`MarkSuccess`).
`TimeOut` is `task.Wait` returning false, after which the task runs on by itself. `Crash` loses
tasks and static fields; `lost` recalls that a command had committed whose success was not recorded
before a crash or after a push that failed. `AfterExecutionFails` is the hook whose query throws. `Pages` are the pages the store may return under `Sort.Default`: new
rows first, errors last, of equal ones the later date first. Priorities are equal, there is no
EndDate, and the two second slack is the constant `Slack`.

### ClientRuntime and ClientUrl

JavaScript runs a task to its end, so the state between two statements matters only through
the calls that are still open. `todo` is what the running task has left to do: a call is
replaced by the operations of its body (`Fire` by one `invoke` for each handler it meets on its way up,
`Invoke` by the executables before the action and the actions, `Completed` by the callbacks), a
`try` leaves the operation of its `catch` behind its body, and an exception drops what lies before the
operation that catches it (`Uncaught`, `BreakBefore`, `BreakCallback`, `RethrowCallback`). A
page has one task at a time; `User`, `Navigate`, `Announce`, `Respond`, `TimeOut` and `Tick`
begin one when none runs, which gives every order of events, answers, time-outs and announcements.

`page` is a record that says what an application has written: the attributes of its elements
(`metas`: type, `onBind`, status, condition, delay and target of each executable), the elements in the
markup, what the user may do, how the server may answer. An executable is named by its element, the
number of the runner it belongs to and its position; `runs` keeps a runner after its element was parsed
again or removed, since requests and timers still refer to it. `node[e]` is the
incarnation of an element: what is inserted is new, and a handler or an event of an
old incarnation reaches nothing. `Path[e]` is `e` and the elements around it.

`ClientUrl` has the hash as a sequence of segments (prefix, route, keys in their order, values). A text is
a sequence of pieces (`reserved`, `plus`, `percent`, `doubled`, `bang`, ...): escaping and unescaping are
maps of pieces, so that what is escaped twice or read without being escaped differs from what it
should be. `Fparams` is the object `parseUri` makes, with the order of its properties, because
`toHref` writes them in that order and looks at the character it wrote last: a parameter after a value that
ends in `!` gets no separator and runs on from that value (`SegmentOf`). A segment without a parameter
has the parameter without a name (`NoKey`), which is never written but keeps its prefix and with it the route.

`history` is what properties recall: which runner has handled which event, what was
dropped by an exception, requests by hash and the answer of the newest, the count of a loading
indicator that listens on `document`.

## 3. What TLC checks

| Run | Bounds | Shows |
|---|---|---|
| `dispatcher_nested` | one setting, commands and queries, nesting 2, 2 writes, nested exceptions may be caught | types, nothing durable before the commit, completed commands durable after it, nothing left behind; every cycle ends, every transaction closes; `Dispatcher` implements `TransactionalCycle` |
| `dispatcher_settings` | two settings, one composite that `GroupBy` reorders, nesting 2, 2 writes, `Dispose` may throw | a message that threw leaves nothing durable; the discipline of the stack holds until a `Dispose` throws, and from then on no push is an outer cycle |
| `dispatcher_query_root` (violation) | one setting, nesting 2 | a command pushed inside an outermost query returns normally and is rolled back |
| `dispatcher_readonly` (violation) | two settings, nesting 2 | a nested command under a setting a query named first flushes nothing |
| `caching` | 2 threads; one name with every operation but a bare delete, 2 versions and null callbacks, or two names retrieved, where the callback of one retrieves the other | callback once, no exception before an entry was lost, stale only after an overlap, every call ends |
| `caching_set` (violation) | 3 threads, 1 key | `Set` throws when two generations of a lock are in use |
| `executor` | 2 handlers, 1 caller, 2 timers, 2 items, both kinds, hooks and failures | one execution unless raced, immediate stop, no lost timer; the flag is reset, a stopped executor becomes quiet |
| `scheduler` | 3 rows, once or recurring, the synchronous scheduler, 2 tasks, 1 crash, 1 time-out, failures | command once, one successor, the wait is for the only task, a success is final |
| `scheduler_live` | 2 rows, a page of 1, both schedulers, rows deleted after success, 1 crash, 1 time-out, any number of failures | every row succeeds in the end |
| `scheduler_repeat` (violation) | 3 rows | a recurrence goes on after its count is used up |
| `client` | 3 elements, one nested; the pages below; 1 to 3 events of the user, 1 tick of an interval | initialised once, handled once, break prevents actions, never an earlier event, indicator balanced and cleared, content belongs to the hash, a cleared interval stops, the hash keeps its parameters; implements `HashNavigation` (`ReloadSafe`, `ReloadNoticed`) |
| `client_routes` (violation) | 1 page, a hash with two prefixes | `furl` does not find the routes of a hash with two prefixes |

The pages of `client` (`MCClient`): an element driven by the hash with failures and two
announcements of each navigation, and another with a local cache that may be full (`Reloading`); a child
whose answer replaces its parent's content, itself included, leaves the page or redirects
(`Replacing`); a parent emptied while its child waits for a time-out (`Removing`); breaks at every
place, nested events and a template that throws (`Breaking`); intervals, `Attach` and `Detach`
(`Repeating`); 36 pages that store one parameter (`Stores`), with one and two prefixes with and without a
route, one and two parameters, and values with each kind of piece, a `!` at the end included, in the hash and
in what is stored; each stores twice, so that what the first wrote is read by the second. Every page has its own number of
events: three where an interval is started twice and cleared, two where a second event meets what the
first left, one where navigation, two announcements, two answers and their failures interleave already.

Why the bounds are enough to be interesting. Two levels of nesting give an outer and an inner
cycle, and a third level would repeat the second. Two settings give a partial commit and
`GroupBy` a group to move. Two writes give one that failed and one that did not. Two threads
meet in the unlocked part of `Retrieve`, and three are needed for a waiter, a holder and a
newcomer, i.e. for two generations of a lock. Two handlers race for a flag, two timers are one
in use and one lost. Two rows compete for a page of one, and a row and its successor are two;
a third row is used where a chain of successors matters, and where a row could be followed twice: after a
time-out that happens in `scheduler`, so that the property is not true for want of rows. `MaxLocks` is never exhausted:
`FreshLock` takes a number nobody refers to. The clock, the writes, the crashes and
the time-outs are bounded by the guards of their actions. Symmetry is used in one run without
liveness only (`scheduler`).

Weakened properties and why they have the form they have. Some promises do not hold
unconditionally and the condition names exactly when: `OneExecutionUnlessRaced` (the lock around
the flag is commented out), `ThrowsOnlyAfterLoss` (test and access of the dictionary are two
steps), `StaleOnlyAfterOverlap` (`Delete` takes no lock), `OrphanOnlyByOverlap`,
`LeakOnlyAfterFailedDispose`, `CommandOnceUnlessLost` and those with `Detached` (a wait timed
out, or the scheduler does not wait). In the client, `HandledOnceUnlessBoundTwice` (`bind` is
called for each distinct string of events), `NeverAnEarlierEvent` (what waits for a time-out or an answer
shares one field for the event with later ones and is left out), `IndicatorBalanced` (an event triggered on a
removed element reaches no listener, an exception drops it), `ContentBelongsToHash` (the answer
of an older request may arrive last, the newest may fail), `ClearedIntervalStops` (starting a named
interval again loses the first) and `StoreKeepsTheRest` (`Odd`: neither `%` nor `+` is escaped, so a value that
looks like an escape, or one with a plus, is read back changed; `RunsOn`: nor is `!`, and of a prefix with a value
that ends in it parameters run together; a prefix other than root that keeps
no parameter loses its route with its segment; `furl` finds no route in a hash with two prefixes). The history variables record these conditions.

Fairness.

* `Dispatcher`: weak fairness of the loop, straight-line code; strong fairness of the end of each
  message, since a message is suspended by its nested pushes and is a program that ends.
* `CachingFactory`: strong fairness of each thread, as monitors are handed to every waiter in the
  end and callbacks return. Callbacks that retrieve each other's names in a cycle would deadlock
  two threads; `Inner` is an order in the run, which the code leaves to its callers.
* `TaskExecutor`: weak fairness of the tasks of the thread pool, of a `Stop` on its way and of
  every handler. No fairness of `Start`, `Stop` or the timer.
* `Scheduler`: weak fairness of the clock, the execution and every task; strong fairness of the hook, of
  starting a row, of committing a command and of marking a success, each as a whole: of what is tried
  again and again some attempt does not fail. It says nothing of a row alone, so a page that never
  reached a row would still be found. With time-outs without bound a row that always times out fills a page of one
  row for ever and starves the others, so their number is bounded.
* `ClientRuntime`: weak fairness of the running task, of the browser's announcements, of every
  answer (`Respond` is an answer or a failure; the browser gives up at last) and of time-outs.
  No fairness of the user or of intervals.

## 4. What is proved

All proofs are for every value of the constants that satisfies the named assumptions
(`WritesAssumption`, `DispatcherAssumption`, `CachingAssumption`, `ExecutorAssumption`,
`SchedulerAssumption`, `PrefixAssumption`, `PathAssumption`, `PageAssumption`, `TicksAssumption`). `PathAssumption`
says that the way up from an element meets no element twice. `PageAssumption` says what a page is:
elements with an attribute, each once in the order of the document, hashes that are sequences of segments, and, of the element that is driven by the hash if
there is one, that what is inserted into it answers an Ajax that reads the hash (`ShowsHash`): an application
that inserts the answer of something else there has not made such an element.

`DispatcherProof`
* `TypeCorrect`: `TypeOK` is inductive as it stands.
* `DisciplineTheorem`: `DisciplineUnlessPoisoned`. `NothingDurableBeforeCommit` is not
  inductive, because a nested push could be outermost or a unit of work committed in the middle of a
  cycle. The strengthening `CycleDiscipline` says that the pushes are a stack with one outer
  cycle at its bottom (`StackDiscipline`), that the collection is empty between cycles and no unit
  of work is further than the outer cycle (`UnitsDiscipline`), and that a write is numbered
  before it is anywhere (`SerialBoundsWrites`). A `Dispose` that throws ends this; the other
  disjunct, `Poisoned`, is inductive by itself: the broken entry is never removed, so the
  collection is never empty.
* `NoLeak`: `LeakOnlyAfterFailedDispose`, from the discipline.
* `AtomicCycle`: when `Dispose` never throws, nothing written since the outermost push was entered is
  durable while it still executes messages.

`DispatcherProof`, second part, which uses the cycle discipline. Its invariant `Durability` follows every write
from the message that made it to the database, until a `Dispose` throws (`Poisoned`):
* `Messages`: a frame remembers writes only while its message runs, a command whose unit of work is
  open and holds them. `Completed`: what a completed command wrote and the session tracks is sent in an open
  transaction while the outer cycle works, is that or durable while it commits, and is durable
  once it closes without an exception. `CommittedCycle` follows when the outermost push returns.
* `Fails`, unless messages swallow exceptions: an exception ends one frame after the other, so while one is on
  its way the frame that runs is ending with it, and until there is one no unit of work holds a
  failed message's write; a commit never meets one. `FailedMessage` follows. It is here that the nested
  push could go wrong: its writes are in the unit of work its caller commits.
* `Fresh`: each unit of work holds writes of its own setting, either still to be sent or sent, and
  what is to be sent is not durable. With it each step maps to a step of `TransactionalCycle` or to a
  stutter (`StepRefines`), and `ImplementsCycle` follows: a flush is `Add` because what it sends is new, the
  end of the outer push is `End` because everything created was disposed.

`TaskExecutorProof`, for any number of handlers and *callers* (the run has one caller)
* `TypeCorrect`, with the extra conjunct that a handler about to push has an item left.
* `OneExecution`: the invariant relates the flag to the handlers between setting and resetting it and
  to those that passed the test but have not set it.
* `StopIsImmediate`: an execution that begins after the stop never gets to push; one that was
  running has pushed at most the item it had chosen.
* `NoOrphan`: a timer other than the field's is not enabled unless an overlap was recorded.

`CachingProof`, for any number of threads, names, versions and lock objects and any mix of calls
* The invariant `Inv` is about the calls on the stacks, the running ones and those that wait for
  them. `CallOK` says that a call still may rely on what it saw: the entry it found is there or was lost,
  the one it missed has not been added by another call, and until a name is *settled* (an entry is there,
  or one was lost) every call that refers to a lock of it refers to the one `MiniLocks`
  holds. This is why removing the lock while others wait on it does no harm by itself: it is removed
  when the name is settled. `Shape` says how the calls of a thread are nested, and
  `Exclusive` that a lock object has one owner.
* `TypeCorrect`, `StaleAfterOverlap` follow from it; `ThrowsAfterLoss` because a call that is about
  to throw relied on an entry that is gone, or on a gap that is filled.
* `OnceEach` assumes a rank of the names that rises from a name to those its callback retrieves (a
  callback that retrieves its own name runs again inside itself). `Once`: a callback that ran and
  left nothing is still running, by a thread inside the lock; a second thread inside it would
  have to be the same one, which `Rising` excludes.

`SchedulerProof`, for any number of rows, tasks, crashes and time-outs, any page size and recurrence
* `TypeCorrect`, with the invariant `Control`: what the execution waits for is the task of
  the first fetched row. That the date chosen by `LastDateQuery` exists is the well-foundedness of the order
  of numbers.
* `TheOnlyTask`, `CommandOnce`, `OneSuccessor` and `SuccessForGood` hold until a time-out
  detaches a task or the record of a success is lost. None is inductive: a page is fetched once and run row by
  row, so what is needed is that the rows still to come are unfinished and distinct
  (`RowsToCome`), that the only task is the one waited for (`OneTask`), and that a commit is remembered
  either by the status of its row or by the one task that has done it (`RanOnce`, `OneHeir`).
  A detached task stays so, and with it the excuse (`DetachedForGood`).

`ClientProof`, for any page, i.e. any elements, markup, executables, answers and numbers of events
* `TypeCorrect`, with the invariant `TypeInv` that goes into the lists of runners, handlers and operations:
  whatever is left to be done or waits refers to an executable that exists, however often its element was parsed again
  since, every loop over callbacks ends at its own `breakes` (`LoopsEnd`), and runners are made but never dropped or renamed
  (`Grown`). The executables of an event are those of a set of positions in their order (`InOrder`): that
  every finite sequence of positions has such an order is shown by the least counterexample
  (`SomeIsLeast`), as the theorems on induction take an operator as a parameter.
* `ClearedIntervalStopsAlways`: `ClearedIntervalStops`. An interval that runs has the number under which its name
  is known, or the name is recalled as started again.

`ClientEventProof`
* `NeverAnEarlierEventAlways`: `NeverAnEarlierEvent`. An executable does not get its event as a parameter, it reads a field
  that the runner wrote for a whole list before the first of the list ran. What is left to be done turns out to be
  ordered by its events, the latest first (`Ordered`), because a nested event is begun at the head of the
  list and has a number no other has; and a field is only overwritten with the event of the operation at the
  head (`Advanced`). So what runs sees its own event or a later one. An executable is *late* if it, or
  the action it is a callback of, waits for a time-out or an answer; those are outside the property,
  and `WaitingEv` says that nothing else is in a timer or a request. `EventInv` conjoins these.

* `BreakPreventsActionsAlways`: `BreakPreventsActions`. The actions of an event that must not run have a Break ahead of
  them in the list, and between it and the `catch` of their own event there is no other handler of
  exceptions (`Guarded`), although the executables before the action run nested events with handlers of their own:
  those are complete, or gone with the exception, before the Break runs. An event may reach a runner twice, when
  its element is bound to it twice; then the first may act where the second breaks only if what the
  conditions see differs, and it does not: no executable before the action ever gets a result (`ResultsOK`), so its condition
  is that of an executable without one (`ValidFresh`). `BrokenOK` and `ActedOK` carry this from the first
  to the second, and `Agree` says that events with one number have one type.

`ClientOnceProof`
* `HandledOnceAlways`: `HandledOnceUnlessBoundTwice`, on every page where no user and no ExecutableTrigger names
  `initincoding` (`NotByHand`: a page that triggers it by hand has its elements initialised by the engine and by hand).
  An event is at one place only: the calls it has still to make at one element and where it goes from there have
  places that differ (`Apart`), because the elements on the way up differ and each runner binds a type once, unless
  two strings `onBind` name it. Handlers that were bound and not unbound are the ones of
  one runner, since parse takes the attribute away (`BindsOnce`), unless an attach came between; and an incarnation
  that is gone does not come back (`SitesStay`), so that a call to it stays without effect. `OnceInv` conjoins these,
  what is said of operations under that hypothesis.
* `InitialisedAlways`: `Initialised`, on every page: when a task ends, what is in the document was parsed and, if it has
  something to be initialised, its initialisation ran or one was ended by an exception. What is to be parsed is parsed next,
  before anything else can meet it (`ParsedNext`), and an initialisation stays to be done until it is done (`Started`).
* `InitialisedOnceAlways`: `InitialisedOnce`, the same and once for each parsing. That needs `NotByHand` again, and that an
  ExecutableBind that is not delayed attaches nothing that is to be initialised (`AttachesLate`): one that runs in the
  middle of an initialisation may attach to an element whose own is still to come, which then meets the new
  handlers. The pages of the run satisfy both.

`ClientHashProof`
* `StoreKeepsTheRestAlways`: `StoreKeepsTheRest`, for every hash, set of prefixes, change of a parameter and texts of
  any length, with the exemptions named in section 3 (`Odd`, `RunsOn`, `NoKey`). By lemmas about the operators of `ClientUrl`, in `ClientProof`: what
  `toHref` makes has one segment for each prefix of a parameter and one for root (`MadeIs`), is read
  back as the parameters it was made of, escaped once and unescaped once (`MadeParses`), and two hashes
  that `RedirectTo` takes for the same are read as the same parameters (`SameParse`), although it compares them
  unescaped in another way than `purl` does. Where no value ends in `!` every parameter is written by itself
  (`QuietParts`). The hash is not made at all only when nothing was left (`HrefParse`).
* `ReloadSafeAlways`: `ReloadSafe`, the refinement of `HashNavigation` but for what that promises of the future. The invariant
  `HashInv` says of every operation that is left to be done what it carries (`Carries`), and the same of
  requests, timers, intervals and the local cache (`WaitingCarry`): a result that an Insert into the element
  will show answers a question that was asked. The result is a field that the executables of a runner share
  over many answers, so the proof needs that it is only ever replaced by another such answer (`Refreshed`); and that
  the cache, which knows a question only by its key, gives back what was asked for under that key (`KeptFor`).
  Proving it showed what the property has to assume of a page, which `ShowsHash` names.
* `IndicatorAlways`: `IndicatorBalanced`, on every page where neither a user nor an ExecutableTrigger names
  `incajaxbefore` or `incajaxcomplete` and no handler that cancels all keeps them from document
  (`CountsItself`; the pages of the run satisfy it). `Balance` says of every state what the
  count is: the requests under way and the ends that are still to come, less the beginnings that are still to
  come. An event is to come while it is to be triggered or has a part of its path ahead, and the number of such
  operations is kept through every way a step moves the list (`MovedBy`, `CountsMove`): pushes at its head, what an
  exception drops, answers. Two things are needed beside it. A request has a number of its own (`Numbered`), so that
  the set of requests has one more when one is sent; and it is sent right after its `incajaxbefore`
  (`Paired`), so that one which begins at an element that is gone, where nobody counts it, ends there, too: the
  balance is then given up (`Doomed`) until the end is not heard, which the property excuses (`unheard`).

Only model-checked: of the client, `ContentBelongsToHash`, which rests on the whole of a page's markup (whatever
throws, removes or unbinds on the way from the hash to the element may keep it from the reload, so that what the theorem would have
to assume of a page is nearly what it concludes; `ReloadSafeAlways` is the part that holds whatever else the
page has); the dates of a recurrence, which are not computed; and everything that is
a liveness property, `ReloadNoticed`, the other part of `HashNavigation`, included. Fairness, ENABLED and induction over data (what a recursive definition computes for every input)
are out of the prover's reach.

## 5. What the code does other than it says

The five violation runs; the texts are in PROJECT.json: commands in an outer query are rolled
back (`README.md` line 273), the flush mode of a unit of work is decided by whoever named its
setting first (line 276), `Set` can throw (`ICachedProvider.cs` line 22), `RepeatCount`
does not end a recurrence (`When_get_recurrency_date.cs` line 42), and `furl` finds a
route only in a hash with one prefix (`inc-specifications.js` lines 537-545).

One more disagreement has no run of its own: the test "Should be parse with empty hash"
(`inc-specifications.js` lines 590-602) expects `toHref` to keep an empty hash `#!`, and line 993 of the
framework drops it. `ToHref` does what line 993 does, and `StoreKeepsTheRest` therefore permits that the
page is left when nothing is left in its hash: it agrees with the code there, not with the test.

What the code does and nothing forbids, so that no run states the contrary: a nested push that failed and
was caught leaves changes the outer cycle commits; a commit over several settings that fails in the middle leaves
the earlier ones committed; a parameter written after a value that ends in `!` is lost; under a load
that never ends the order of a page passes over old rows and rows in error, which `EveryRowSucceeds`,
with finitely many rows, does not show. PROJECT.json lists them as hazards without a property.

## 6. Not modelled

* Dispatchers shared by threads, and pushes that are not awaited (planned): the hazards are listed.
* `ChangeSchedulerStatusByUIDCommand` (only its test calls it), and the calendar arithmetic of
  `GetRecurrencyDateQuery` (days of the week, EndDate, interval 0): dates are ordered, never computed.
* `FileCaching`, `ActionPolicy`, `FileLogger`: file and console I/O around a few lines of control.
* NHibernate, Raven and Mongo: alternatives with the interface of the modelled provider.
* Model View Dispatcher, MetaLanguage, Grid: no state that outlives a request.
* Of the client: forms and validation (`ExecutableForm`, `ExecutableValidationParse`,
  `ExecutableValidationRefresh`), `ExecutableStoreFetch`, the executables that only call a jQuery function,
  templates and selectors (a template is there or throws; a selector names an element),
  ways of insertion other than replacing the content, `filterResult`, requests with `global: false`,
  cookies, prefixes that end with one another, and the timer and frame that `jquery.history` uses in
  browsers without `hashchange`. jQuery is external: its events, `$.extend` and `$.ajax` are modelled by how
  they are used.
* IoC, other cache providers, test helpers, demos, tools: adapters, third-party or support code.
* More than 200 000 of the repository's lines of JavaScript are vendored (jQuery in several versions
  and copies, jQuery UI, Handlebars, Underscore, Jasmine) or tests. The framework's own JavaScript is
  `js/incoding.framework.js` and copies of it beside the demos, so that the share of JavaScript lines the
  models stand for is small however much of the framework they cover; the server side is C#.

## 7. Plan

1. (done) `UnitOfWork`, `Dispatcher`, `TransactionalCycle`; `CachingFactory`; `TaskExecutor`;
   `Scheduler`; the proofs about these four.
2. (done) `ClientUrl`, `ClientRuntime`, `HashNavigation`; the proofs of the client's types, intervals, events, breaks and
   stores in the hash, and of the safety part of `HashNavigation`.
3. `Dispatcher` with pushes that are not awaited, as `ProcessMessage` is by `RunSchedulerCommand`:
   a message that runs on after its outer cycle was disposed.
4. `Scheduler`: `ChangeSchedulerStatusByUIDCommand`, priorities; `Recurrency`: the dates of
   `GetRecurrencyDateQuery` against a reference definition over bounded inputs.
5. `FileCaching`, with two processes and a crash, and `ActionPolicy`'s bounded retry.
6. (done) Proofs that committed cycles are durable, that failed messages are not, and that the
   dispatcher implements the transactional cycle.
7. (done) Proofs that an event is handled once unless bound twice, that elements are initialised once, and
   that the indicator is balanced.
8. With what `HashNavigation` has proved, that the content belongs to the hash, for a class of pages that is wide
   enough to say something.

The number of runs is kept small: new properties join an existing run where its bounds suit them.
