# Formal models of skplat

skplat is a C++ platform library for mobile clients: threads, locks and message
queues (`src/utils`), TCP and UDP clients and servers over a non-blocking poll loop
(`src/network`), a file logger (`src/log`), JNI bindings (`src/jni`) and platform
queries (`src/devices`). `src/vendors` holds third-party code (curl, jsoncpp,
sqlite, mbedtls, copies of Android utility classes) and `sknet`, an HTTP engine of the
same author: tasks on a pool of threads, transfers, downloads in parallel ranges.

This directory holds TLA+ models of the concurrent core of the library and of `sknet`,
the TLC configurations that check them on small instances, and proofs, checked by TLAPS,
for every value of the constants: every invariant that a run checks, the refinement of an
abstract queue by the message queue, and the division of a content into ranges. The liveness
properties are checked by TLC only. `PROJECT.json` maps every definition to the lines it models.

1. [The system](#1-the-system)
2. [The modules and how they follow the code](#2-the-modules-and-how-they-follow-the-code)
3. [The runs](#3-the-runs)
4. [Fairness](#4-fairness)
5. [What is proved](#5-what-is-proved)
6. [What the models show about the code](#6-what-the-models-show-about-the-code)
7. [What is not modelled](#7-what-is-not-modelled)
8. [Plan](#8-plan)

## 1. The system

| Component | State | Operations | Meets | What is hard | What makes it correct |
|---|---|---|---|---|---|
| `MsgQueue` (`utils/msgqueue.h`) | list of messages (number, id, handler, delay, `is_handling`), list of handlers, `exit`, `exit_done`, two condition variables | `send_msg` (with a delay, as a broadcast), four `cancel` functions, `add_handler`, `remove_handler`, three waits, `quit`; the worker loop `worker_dispatch_msgs` | handlers run with the mutex released and may call the queue | handlers run while others cancel, remove and quit; sleeping for the right time; unlocked reads | at most once, in due order, never early; a wait or a quit returns when it should; nothing freed is used |
| `MsgQueueWrapper` (`utils/msgqueue.cc`) | pointer to the queue, the worker thread, the counter of handler ids | lazy `init_msg_queue`, `reset_msg_queue`, `add_handler`, every queue call through the pointer | `MsgQueue`, `Thread` | the pointer is read without the lock; a queue can be deleted under its worker | one worker, which runs its own queue; reset returns; ids are new |
| `Thread` (`utils/thread.h`) | `RunnableReference` shared by the object and the pthread: `count`, `isended`, `isjoined`, `isinthread`, `killsig`, `iscanceldelaystart`, `condtime` | `start`, `start_after`, `start_periodic`, `cancel_after`, `cancel_periodic`, `join`, `outside_join`, `kill`, destructor; the start routines and `cleanup` | `Condition` (`anyway_notify_`) | two owners of the reference; cancel against wait; join or detach | one pthread at a time; the reference is freed once and in time; a cancel holds |
| `SocketSelectBreaker`, `SocketSelect` (`utils/socketselect.cc`) | a pipe, `broken_`, descriptors to poll | `Break`, `Clear`, `Close`, `ReCreate`, `Select` with autoclear | every network class | flag and pipe must agree; a break between poll and clear | a break that succeeded makes the pipe readable |
| `TcpClient` (`network/tcpclient.cc`) | `status_`, `socket_`, `lst_buffer_`, `have_read_date_`, `will_disconnect_`, two mutexes | `Connect`, `Read`, `Write`, `WritePostData`, `HaveDataRead`, `HaveDataWrite`, `Disconnect`, `DisconnectAndWait`; the worker and its callbacks | `Thread`, breaker | what is polled for is read before the poll; partial sends; callbacks call back | no change is slept over; `OnWrote` is true; a disconnect ends the worker |
| `TcpServer` (`network/tcpserver.cc`) | `listen_sock_`, the listen thread, breaker, condition variable | `StartAndWait`, `StopAndWait`; the listen thread | `Thread`, breaker | start and stop from several threads, a break left over, a notification that nobody sends | a stop waits for its listener; a starter sleeps only while it can be woken |
| `TcpClientFSM` (`network/tcpclient_fsm.cc`) | status, error, socket, start and connect times, send and receive buffers | `PreSelect`, `AfterSelect`, `Timeout`, `Close` and their callbacks | `ComplexConnect` | timeouts against late answers | as used by `ComplexConnect` |
| `ComplexConnect` (`network/complexconnect.cc`) | one FSM per address, the index of the next, the times of the last start and error | `ConnectImpatient` / `TryConnect` | `TcpClientFSM`, breaker, observer | several connections race; every failure path deletes a machine | no socket lost; the limit and the deadlines hold; the winner is verified; it returns |
| `UdpClient`, `UdpServer` (`network/udp*.cc`) | `event_`, `list_buffer_`, the socket, a thread | `SendAsync`, destructor; the worker and its callbacks | `Thread`, breaker, observer | the destructor takes no lock; one break, drained by autoclear; a thread that has left its loop but not ended | what is queued is sent; the destructor returns |
| `Anr` (`utils/anr.cc`) | a heap of deadlines, a static thread, clocks of two kinds | register, unregister, a round of the checker, exit | `MsgQueue` (every handler call), `Condition` | a timed wait on the front of a heap others change; suspension of the process | no deadline is slept over; every overdue scope is reported; an early alarm has been paid for in cpu time |
| Task engine (`sknet/utils/WorkQueue.*`, `apps/TaskManager.cpp`, `model/TaskInfo.*`) | the queue of units, idle count, threads, the state and the waiting flag of a task | `commitTask`, `cancelTask`, `wait`, destructor; the work threads | HTTP transfer | backlog, dynamic threads, state changed without the lock of the wait | every unit has a thread; a blocked call has somebody to wake it; a wait returns its own result |
| Range download (`sknet/apps/RangeManager.*`, `RangeDownloader.*`) | ranges, part files, counts of completions and failures | divide, start, `onComplete`, `onFailed`, recover, `wait4Complete`, compose; the downloader threads | HTTP transfer, file system | recovery by callbacks under a mutex, partial files after a failure or a crash | the ranges tile the content; nothing is composed before all have reported; complete means whole |
| HTTP transfer (`sknet/apps/HttpTransfer.*`) | socket, buffers, redirects | connect, request, read | tasks, ranges | how each failure is told to the caller | as used by the two rows above |
| `TcpServerFSM`, `block_socket`, log files (`src/log`), `AutoBuffer`, `BufferIO` | as their names say | | | | not modelled, see section 7 |

The pieces call each other like this: `TcpClient`, `TcpServer` and the UDP classes
own a `Thread` and a `SocketSelectBreaker`; their public functions change fields under
a mutex and break the poll of the worker, which reads the fields again. `MsgQueueWrapper`
owns a `Thread` that runs the loop of a `MsgQueue`. `ComplexConnect` is single-threaded
and is broken by others through its breaker. In `sknet` a task is committed to a queue of
work threads, each of which runs a transfer; a range download is one manager and several
downloader threads that report to it under its mutex.

The hazards that follow from this, each at its line, are listed in `PROJECT.json`
together with the properties that would notice them.

## 2. The modules and how they follow the code

One step of a model is one section of the code that no other thread can see the
middle of: a section under a mutex or spin lock, or a single read or write of a shared
field where the code holds no lock. Where a lock is only held over one section, the
section is one action and the lock is no variable; where it is held across a call that
blocks or calls back, it is a variable (`mutex` of the queue in `_wait_exit` and of the wrapper, `readMutex` and
`writeMutex` of `TcpClient`). Program counters are strings named after the code
(`wpc`, `cpc`, `upc`, `tpc`, `lpc`). Logging is left out.

### MsgQueue

Messages are numbered by `msg_seq`; `lst_msg` is the set of numbers in the list, since
`push_back` keeps the list sorted by number, and `msg` keeps every message (id,
handler, delay `after`, broadcast, `rec` for `record_time`). `lst_handler` is the set of
handler ids, in the order they were added. `cur` and `hcur` are the worker's two list
iterators and survive the release of the mutex, as they do in the code. `ub` records the
first use of something freed that went wrong, behind which nothing is modelled: `"traversal"` and
`"dispatch"` are a client's and the worker's use of a kept pointer, `"node"` is the list node that
`erase(it)` frees and the `delete(*it)` behind it reads (lines 347, 375, 400, 430, 491, 511, 783).
The read may find what was there or, when the memory has been used again, anything, so every
cancel, every removal and every end of a dispatch has both outcomes (`FreedNodes`). `cancelled`
is history: the messages the cancel functions took out.

* `send_msg` is three steps (`has_handler` walks the list unlocked, so a removal in
  between tears the walk; then the section under the mutex).
* `Cancel` covers the four cancels (by number, by id, by id and handler, by handler).
* The worker sleeps, scans, dispatches handler by handler and erases, as lines 699-791
  do. `SleepTime` is the closed form of the scan: `wait_time_min` keeps its first
  value, so the time is the smaller of the first and the last message's.
* `quit` sets `exit`, sends the wake message as any client would, and waits.

Abstractions. Time is a clock `now` in whole units up to `MaxNow`; a send with a delay
is only made when its due time is within the bound, and once the clock stands, timed
waits may end, so that no deadline is cut off. `IdleWait` (ten minutes in the code) is
longer than every modelled delay.

### TimerQueue: what the queue promises

`TimerQueue` is the queue as a client should think of it: messages with a due time, one
delivery at a time, of the due messages the oldest first, a clock, handlers that may be
withdrawn with their messages, and nothing about locks, sleeps, notifications or
iterators. `MsgQueue!ImplementsTimerQueue` states that every behaviour of `MsgQueue` is one
of `TimerQueue` under this mapping: `pending` is the list with the due time computed from
`record_time` and the delay (`PendingMsgs`), `running` is the worker's iterator while a
handler runs (`RunningMsg`), `calls` are the handler calls so far without their times
(`Calls`), `closing` is `exit` and `cancelled` the history of the same name. That history is what
gives the refinement its force: `TimerQueue!Cancel` puts what it removes into `cancelled`, and
`MsgQueue` only adds to it in the cancel functions, so a message that the worker, a send or a wait
loses is no step of `TimerQueue`. A message leaves the list by a delivery, a call of a cancel
function that finds it not running, a removed handler, or its turn when its handler is gone or
the queue is quitting.

### MsgQueueWrapper

Queues are numbered; `alive` are those not deleted. The pointer `msg_queue` is read
without the lock, twice in most functions; whether the build reloads it is left open
(`Used`). `handler_seq` has no initial value. `bad` names the first use of a queue that
is not there. The queue itself is reduced to what the wrapper and its worker touch:
`exit`, `exit_done`, the handler list and the message by which quit wakes the worker (`quitmsg`).
The wait of `reset_msg_queue` is `_wait_exit` as in `MsgQueue`: the test of `exit_done`, the sleep
and the wakeup are three steps, and the worker sets `exit_done` and notifies in two without the
mutex. Clients may remove any handler, the default one too, and cancel its messages; `stripped`
records the queues to which that happened.

### Thread

One generation per `pthread_create`, numbered up to `MaxStarts`. The fields of
`RunnableReference` are variables; sections under its spin lock are single actions; what
happens after `lock.unlock()` in `join` and `kill` (reading `tid()`) is a step of its own.
`Condition::wait` is split at the test of `anyway_notify_` and the sleep. Timed waits may
end at any time. `late` counts the `run()` calls that ended since a cancel, up to
`LateCap`.

### SocketSelectBreaker

`broken_`, the bytes in the pipe and whether the pipe exists. `Break` and `Clear` are
atomic under the class's own mutex. A write of one byte to an open pipe that holds at
most one cannot fail; to a pipe that was never made it always does; poll ignores a
descriptor of -1. The module declares the variables and is extended by its users.

### TcpClient

The worker's steps are `__Run` and `__RunThread` between two points where another
thread can act: what it polls for (`want`), what poll reports (`got`), the autoclear,
the checks, the peek under `read_disconnect_mutex_`, the send under `write_mutex_`,
the callbacks. The user `Callback` is an observer that calls the client from within a
callback and therefore only acts while the worker is in one; it does not call
`DisconnectAndWait`, which would join its own thread. The network may close, fail,
deliver, or fill and drain the send buffer; an interrupted poll is a fault. Buffers are
lengths: the order of bytes is the order in which lengths are consumed.

### TcpServer

`TcpServerState` declares the variables and states the two invariants about them, `TcpServer` adds
the steps. Sections under `mutex_` are actions. `waiting` are the users inside `cond_.wait`.
Instances of the listen thread are numbered, so that a stop can be asked which one it
met. `Thread::join` is modelled as it is written: the announcement under the lock (`JoinLock`,
`isjoined`), the read of `tid()` behind it (`JoinTid`), and `pthread_join` (`StopJoin`). The
pthread that `tid()` names is joinable, being joined, or gone; a join of one that is being joined
is refused and returns at once, a join of one that is gone is undefined (`undefined`,
`JoinUndefined`): it may return or hang, and a thread that finds `isjoined` false detaches itself
under a join that has begun. The failing calls are a parameter (`Faults`).

### TcpClientFSM and MultiConnect

`TcpClientFSM` has no state: its operators take and return a machine (a record), as the
methods change `this`. `MultiConnect` is `TryConnect` with one step per phase of a turn:
`Turn` (start attempts, `PreSelect`, the timeout), `Select` (the poll, in which time
passes), `Attempt` (one machine's `AfterSelect`), `EndOfTurn`, `CloseAll`. `fate` follows
every socket (open, closed, closed twice, returned), `until` the time the next attempt
was due when poll was called.

### UdpSocket

The two classes differ in two places, so one module models both and `kind` says which it
is. `SendAsync` is one step under `mutex_`; `poll` and the autoclear behind it are two, and so
are each test of `event_` and the call through it, since the destructor takes no lock.
The history variables `stranded` (datagrams in the queue of a thread that is over) and
`swallowed` (the destructor's break was drained by an autoclear whose poll had reported
something else) name the exceptions of the two properties.

### Anr

All sections hold `sg_mutex`, so registrations, a round up to its wait, and the check
behind the wait are one action each. The heap is a function; its front is any object with the
least `end_time`, as ties are broken by the heap. Two clocks: `now` (monotonic) and `cpu`
(`clock()`, the sum over all threads: up to `Cores` per tick). Suspension is a wait that ends later
than `kTimeDeviation`. `charged_from`, a history field beside the three of the code, is what
`clock()` showed at the beginning of the first round that will be charged to the object: before
its registration when the thread is waiting, because the check charges the whole round.

### TaskDispatch

Sections under the queue's `mLock` are actions, and `mLock` is a state (`kpc = "found"`) only
where `cancel` goes on behind a test that a work thread invalidates without the lock.
`TaskInfo::wait` is three steps (test, flag, sleep) and the end of a unit three more (state,
notify, `mRunningWork = NULL`), because the work threads do not take the mutex of the wait. A
transfer is the step that ends it; it may report its end again (`ReportAgain`), as it does
when the server closes (`HttpTransfer.cpp` 252, then 884 or 904) and on a redirect (785). A commit
that needs a thread may fail to create it: the unit is not queued, and since the status is ignored
the caller waits all the same (`WorkQueue.cpp` 54-57). `dropped`, `missed`, `final` and `again` are
history. `MCTaskDispatch` gives the symmetry of the tasks that are waited for.

### RangeManager

A byte is its position in the content and a part file is the sequence of the bytes in it,
so that a repetition, a gap or a wrong place shows. Callbacks are one step under `mMutex`; a
completion that recovers failed downloaders joins them with the mutex held and is several.
Part files outlive the process: `Again` is the next manager for the same content, after a
failure or a crash at any step. The faults are a file that cannot be opened (by the downloader,
the transfer or the composition), a byte that cannot be written, a thread that cannot be
created, a timeout, a reset (remembered in `mError`, which nobody clears), a close, a redirect
(whose size the outer call takes for an error) and the death of the process. A server that closes
before or within its header (`HeaderCut`) leaves up to `MaxHeader` bytes of the header in the part
file (`HeaderByte`), and the transfer goes on as if they were content. `spoiled` records for a part
what went wrong with it for good, as a pair of the part and the reason.

## 3. The runs

Every run is `tlc -config <cfg> <module>`. Runs that only check invariants and permute the
clients or tasks use symmetry (`mq_dispatch`, `task_use`); runs with liveness properties do not. Deadlock is
not checked: the number of calls the clients may make is bounded, and a system whose
clients have made their last call rightly stops.

| Run | Instance | Properties | What it shows |
|---|---|---|---|
| `mq_dispatch` | two clients; three messages, immediate ones and delayed broadcasts; two handlers; clock to 2; send, the four cancels, add and remove handler | `KeptPointersNeedRemoval`, `HandledOnce`, `DueInOrder`, `NoIdleSleepOnWork`, `ImplementsTimerQueue` | Dispatch is at most once, in due order and never early; pointers kept over an unlock dangle only after a `remove_handler`; the worker is never in its ten-minute sleep with a message in the list; the queue implements `TimerQueue` |
| `mq_live` | two clients; two delayed messages and the wake message of quit; one handler; clock to 1; send, the waits, quit | `QuitStopsHandlers`, `WaitReturnMeansDone`, `CallsReturn` | A wait returns when its message is done and not before; after quit no handler runs; quit returns, but for the one lost wakeup that `LostWakeup` describes and for a freed list node that was used again |
| `wrap` | two clients, two resets, so three queues and three workers; handler ids 0 and 1 | `OneWorker`, `SettledWorkerSafe`, `ResetReturns` | One worker at a time; a worker that had entered its loop before the reset does not meet a deleted queue before its last notify; a reset returns unless a deleted queue was used, the last notification was missed, or a client has taken the default handler's messages |
| `thread_use` | two users, three starts | `FreedIffUnused`, `OneThread`, `CancelWorks`, `JoinReturns` | The shared reference is freed once and in time, restarts never overlap, a cancel lets at most one more `run()` through |
| `tcpclient_calls` | a thread and an observer that calls back; two writes of up to two units; one unit received; peer close, network error, interrupted poll | `NoStaleSleep`, `OnWroteTruthful`, `WaitMeansQuiet` | The worker does not sleep over a change; bytes leave in the order of the calls; `DisconnectAndWait` leaves no worker |
| `tcpclient_live` | one thread; one write, two units received, the send buffer fills once; peer close | `DisconnectEnds`, `WriteServed` | A disconnect ends the worker; accepted buffers are sent and reported |
| `tcpserver_use` | two users, three listeners, two connections, every call may fail | `NoStaleBreak`, `StopMeansOver`, `CallsReturn` | An old break does not end a new listener; a stop waits for its listener unless another stop is in the join of it; both calls return except in the named cases |
| `multiconnect_race` | three addresses, two at a time, one verified; timeout 3, interval 2, error interval 1 | `NoSocketLost`, `WinnerIsGood`, `NoOversleep`, `Returns` | Each socket is closed once or returned; poll sleeps past no deadline and no due attempt; `TryConnect` returns |
| `range_download` | four bytes in ranges of 1, 1 and 2; two faults of eight kinds, one byte of a header; two managers | `WaitedForAll`, `PartsInOrder`, `CompleteIsWhole`, `DownloadReturns` | The parts are composed only when every thread has reported; a part file is a beginning of its range, but for a second resumption, a failed write and a close within the header; complete means whole but for the named cases; the download ends but for a join cycle, a part file that cannot be opened and a thread that cannot be created |
| `task_use` | three tasks, two of them waited for; two threads, room for two units; three commits, one cancel, the destructor, repeated reports, failed creation of a thread | `UnitsServed`, `OwnResult`, `RoomIsAwaited`, `WaitHasCause` | No unit is left without a thread; a commit that waits for room is woken by the next unit taken; a wait returns its own commit's result unless a transfer reported twice; a wait that nobody will wake is for a unit that nobody runs or has missed its signal |
| `udp_use` | client or server; three datagrams out, two in, two failures | `QueuedIsSent`, `DestructorReturns` | A queued datagram is sent unless the thread ends first; the destructor returns but for three named cases |
| `anr_use` | two scopes; timeouts 0, 1 and 3, rounds of 2, deviation 1, two cores, clock to 4 | `SleepCoversAll`, `OverdueIsReported`, `EarlyAlarmIsCharged` | The checker sleeps past no deadline; an overdue scope is reported until a suspension was seen; an alarm before the deadline is covered by cpu time used since the registration or since the wait it fell into |

The type invariants `TypeOK` are in the modules; those of `MsgQueue`, `Thread` and `TcpServer`
are proved.

Why these bounds are enough for the cases that matter:

* *Two clients and a worker.* All races of the code are between a caller and a worker, or
  between two callers and a worker (one that removes or resets, one that uses).
* *Three messages.* An overtaking needs an older message that is not due, a younger one
  that is, and one that arrives while a handler runs. Two handlers give a broadcast a
  middle in which one of them can be removed.
* *Clock to 2, delays 0 and 1.* A message can be due at once, become due while the worker
  sleeps, and become due while another is handled.
* *Three queues.* A worker of the first queue can meet a deletion, the second queue
  shows whether the old worker or the old ids leak into it, and the second reset waits for a worker
  that a client's calls through an old pointer may have met.
* *Three starts.* A restart can overtake a join or a kill of the first pthread, and be
  overtaken itself.
* *Two writes of two units.* A partial send of the first buffer, with the second queued or
  being queued; buffers of length 0 and 1 are included, since `Write` accepts them.
* *Three addresses, two slots, timeout > interval.* The third attempt waits for a slot that
  only a failure or a timeout of the others makes free, which tests every term of the
  timeout that poll is given. `MaxInstant` bounds polls in a row that return within one
  time unit, `MaxAgain` the sends and receives that find nothing to do.
* *Four bytes, three ranges, two faults, two managers.* The last range has two bytes, so that a
  transfer can end in its middle and be resumed; one fault fails a downloader and the
  other the one that is recovered or the composition, or ends the process; the second
  manager finds whatever was left. One byte of a header is enough to displace all that follows.
* *Three tasks, two threads, backlog 1.* The third commit exceeds the idle threads, and with
  both threads busy and two units queued a commit waits for room. Two waiting tasks are the least
  with which a signal can wake the wrong one, and three commits let one of them be used again.
* *Three datagrams out, two in.* One being sent, one queued behind it and one queued when an
  error has ended the loop; a datagram arrives when the destructor breaks. Two failures:
  one ends the first thread, the other the one started after it.
* *Two scopes, timeouts below and above the round.* A later registration can be due earlier; a
  deadline can lie beyond the round; timeout 0 only removes. The clock leaves room for one
  wait that looks like a suspension and another round behind it, and two cores are the least on
  which cpu time outruns the clock.

## 4. Fairness

* **MsgQueue.** Strong fairness for the worker and for each client's step within a call:
  they compete for a mutex that is held for short sections and released again and again,
  and no implementation of it starves a waiting thread for ever. Weak fairness for the
  clock. There is none for spurious wakeups, and none for making a call. In particular
  nothing obliges a timed wait to end before its time.
* **MsgQueueWrapper.** Strong fairness for each worker, but for its loop only while the message
  by which quit wakes the worker is in the list, neither refused for want of the default handler nor
  deleted (`Woken`): that the loop then ends is what `mq_live` checks. Strong fairness for clients
  within a call, which compete for the wrapper's mutex; none for a wakeup without a notification
  (`ResetSpurious`).
* **Thread.** Weak fairness for the pthreads (timed waits end and `run()` returns) and for
  the users within a call.
* **TcpClient.** Strong fairness for the worker and for users within a call (two mutexes),
  weak fairness for a full send buffer to drain. None for the peer: it need not send,
  close or accept a connection.
* **TcpServer.** Weak fairness for the listener and for users within a call. An interrupted
  poll (`Interrupted`) may happen and need not; otherwise a stop could rely on it. A join of a
  thread that is gone (`JoinUndefined`) need not return.
* **MultiConnect.** Weak fairness for the loop. The network need not answer: that it
  returns is due to the deadlines alone.

* **RangeManager.** Strong fairness for the manager and each downloader, which compete for
  one mutex; transfers end because `select` gives up after its timeout. Nobody has to start
  the download again.
* **UdpSocket.** Weak fairness for the worker and for a destructor that has begun. Nothing has to
  arrive, and nobody has to call the destructor.
* **Anr.** Weak fairness for the checker and the clock.
* **TaskDispatch.** No liveness property is checked and no fairness assumed: what a liveness
  property would say holds only with the exceptions that `WaitHasCause` and `RoomIsAwaited`
  name state by state.

## 5. What is proved

TLAPS checks the proofs, for every set of clients or users and every value of the bounds.

| Module | About |
|---|---|
| `MsgQueueProofs` | `MsgQueue`, and that it implements `TimerQueue` |
| `ThreadProofs` | `Thread` |
| `ThreadOwnerProofs` | the two classes that own a thread, tell it to end and join it: `MsgQueueWrapper` and `TcpServer` |
| `TcpClientProofs` | `TcpClient` |
| `MultiConnectProofs` | `MultiConnect` and the machines of `TcpClientFSM` |
| `AnrProofs` | `Anr` |
| `TaskDispatchProofs` | `TaskDispatch` |
| `RangeManagerProofs` | `RangeManager`: the division, the protocol, the part files |

Each component's invariant is shown by the three facts
`Init => Inductive`, `Inductive /\ [Next]_vars => Inductive'` and `Inductive => Inv`,
combined by `PTL`. The step lemmas have one step per action and below it one per conjunct
that the action can disturb. Every inductive invariant was checked by TLC on the instance of the
component's run before it was proved.

**MsgQueue** (assumption `ConstantsAssumption`: the bounds are naturals,
there is at least the default handler, and the messages clients send have the right type).

| Theorem | Establishes |
|---|---|
| `TypeCorrect` | `Spec => []TypeOK` |
| `DanglingNeedsRemoval` | `[]KeptPointersNeedRemoval`: without `remove_handler` no pointer kept over an unlock dangles; the list node read behind its `erase` is the one freed memory used |
| `RunningKept` | no cancel erases the message that is being handled |
| `AtMostOnce` | `[]HandledOnce` |
| `DueOrder` | `[]DueInOrder`: first in, first out among due messages, and none early |
| `NoIdleSleep` | `[]NoIdleSleepOnWork`: no notification of `send_msg` is lost |
| `NoDoneIsLost` | without cancels and removals a blocked waiter has a message to wait for |
| `QuitIsFinal` | `[]QuitStopsHandlers` |
| `WaitMeansDone` | the action property `WaitReturnMeansDone` |

The properties are not inductive on their own. What `Inductive` adds, and why:

* `ArgOK`: a client in the middle of a call has the argument of that call; everything else
  about clients is said in terms of it.
* `HandlersKnown`: a message's handler was once in the list. If it is not there now, it was
  removed, which is what `KeptPointersNeedRemoval` has to conclude. A client that walks a
  torn list owes it to a removal too.
* `RunningMarked`: the running message, and no other, carries `is_handling`, which is what
  the cancels test before they erase.
* `HandledGone`: a message that was handled and is still in the list is the running one.
  Without it `HandledOnce` could be broken by a second pick of the same message.
* `OlderNotDue`: an older message left in the list was not due when a younger one was
  picked. It turns `NoOvertaking`, which speaks of two calls, into a fact about one call and
  the list, which the next scan preserves.
* `DelaysBounded`: `record_time` is never in the future and no computed sleep reaches the
  idle time. It is what `NoIdleSleepOnWork` needs of the scan.
* `ExitOK`: a quit's steps come after `exit` was set, and a worker inside the loop has
  `exit_done` false, so quit does not return to a running handler.

**TimerQueue.** `MsgQueueProofs!Refinement` proves `Spec => ImplementsTimerQueue`. Initial
states map to initial states (`InitMaps`), and each action of `MsgQueue` is shown to be a step of
the abstract queue or a stutter, from `Inductive` and one more invariant, `StillMarked`: a
running message that is still in the list carries `is_handling`. `RunningMarked` says this only
of messages whose handler is present, and a broadcast goes on when its own handler has been
removed, so without `StillMarked` a cancel could take the running message away, which
`TimerQueue!Cancel` does not allow.

**Ranges** (assumption `ConstantsAssumption` of `RangeManager`: the unit `MB` is positive).
`RangesCoverContent`: for every length of the content the ranges of `divdeContentLength` begin
at the first byte, follow each other without gap or overlap and end with the last. The proof
uses that there are 2, 3, 4 or 6 ranges and that a division leaves a remainder smaller than that.

**Thread** (assumption `MaxStartsAssumption`: a natural number).

| Theorem | Establishes |
|---|---|
| `TypeCorrect` | `Spec => []TypeOK` |
| `AtMostOneThread` | `[]OneThread` |
| `FreedWhenUnused` | `[]FreedIffUnused` |
| `CancelCorrect` | `[]CancelWorks`: at most one more `run()`, and a cancel is slept over only in the gap of `Condition::wait` |

`Inductive` adds `Unborn` (a start finds a fresh pthread), `Counted` (`count` is one for the
object plus one for the running pthread, from which the time of the delete follows),
`Stopping` (a cancelled pthread that has ended a `run()` is on its way out), `Noticed` (a
cancel finds the flag still to be tested, or is in the gap and recorded as `missed`) and
`JoinsReal` (what is joined was created).

**MsgQueueWrapper** (assumption `BoundsAssumption`: the bounds are naturals, and
the mark `Nobody` of a free mutex is not a client).

| Theorem | Establishes |
|---|---|
| `WorkerIsAlone` | `[]OneWorker`: at most one worker, the one the wrapper owns |
| `SettledIsSafe` | `[]SettledWorkerSafe`: a worker that was in its loop when the reset came touches no deleted queue before its last notify |

`OneWorker` needs to know where the pointer can be. `Inductive` adds `MutexHeld` (who is where in
`init_msg_queue` and `reset_msg_queue` holds the mutex, so two of them never meet), `Numbered` (as many queues have been made as
resets have cleared the pointer, at most one more; it is why a new queue has a number the old worker does not have),
`Pointer` (it is `NULL` or the last queue, and dangles only between the `delete` and the
assignment behind it), `LoopEntered` (`exit_done` is false only while a worker is in the loop) and
`SettledLeft` (the loop of a settled queue is awaited by the reset, at any of the steps of its wait,
or has been left and no worker can get hold of the queue again). The last is the whole argument for `SettledWorkerSafe`: it
fails for a worker that has not entered its loop, since `exit_done` is then true from the start.

**TcpServer** (assumption `ServerAssumption`: the bounds are naturals, the faults are those the
model knows). The proofs extend `TcpServerState`, where the variables and the two invariants are, and
reach the steps as `Server!Next`, since they stand beside those of the wrapper.

| Theorem | Establishes |
|---|---|
| `ServerTypeCorrect` | `Server!Spec => []Server!TypeOK` |
| `BreaksAreFresh` | `[]NoStaleBreak`: no listener is ended by a break of an earlier stop |
| `StopIsFinal` | `[]StopMeansOver` |

`ServerInductive` adds `PipeHasCause` (a byte in the pipe was written by a stop since the last
start, and the flag is up: it is what a listener that finds the pipe readable concludes),
`TargetsStarted` (a stop knows of no thread that was not started, so one started later is another),
`ClientsArrived`, `JoinHasCaller` (a running pthread that is said to be joined has a caller inside
`pthread_join`, which is the exception of `StopMeansOver`) and `GoneMeansOver` (a pthread is given
back only when it has ended, so that an undefined join is never of the running one).

**TcpClient** (assumption `BoundsAssumption`: the bounds are naturals).

| Theorem | Establishes |
|---|---|
| `SleepIsFresh` | `[]NoStaleSleep`: the worker polls on stale interest only while a break is in the pipe or about to be sent |
| `WaitIsQuiet` | `[]WaitMeansQuiet` |
| `OnWroteIsTruthful` | `[]OnWroteTruthful`: `OnWrote` reports a buffer when exactly its bytes were handed to the socket, in order |

There are two invariants. `Control` says who tells the worker what: `PipeAgrees` (flag and byte
agree, without which a `Break` could write nothing), `ReadTold`, `WriteTold` and `DisconnectTold`
(a change that the worker has not looked at since it last chose what to poll for is announced, or
its author is about to announce it; for a disconnect this reaches from before the start of the
thread to the worker's next look), `StartedOnce`, `Resumes` and `SureStarted`. `Data` says what was
sent: `QueueFollows` (the queue is what `Write` accepted and `OnWrote` has not reported, and only
its first buffer has been started), `StreamSorted`, `StreamBounded`, `StreamCounts` (of a reported
buffer all bytes were sent, of the first one `pos`) and `ReportFollows`. The lemmas under it count the
bytes of a buffer in a stream to which a send appends.

**MultiConnect** (assumptions `RaceAssumption` and `TimeAssumption`: numbers of addresses and times).

| Theorem | Establishes |
|---|---|
| `SocketsKept` | `[]NoSocketLost`: a socket is closed once or returned |
| `WinnerVerified` | `[]WinnerIsGood` |
| `NeverOversleeps` | `[]NoOversleep`: poll sleeps past no deadline and no due attempt |

`Inductive` adds the typing of the machines and of the loop, `NotStarted` (an address whose turn has
not come has no socket), `AliveSound` (what the observer was told agrees with a machine's state),
`DeletedClosed` (a deleted machine has no socket), `WinnerEnds` (the first winner is the only one),
`DeadlinesAhead` (a connect that is past its deadline does not survive `AfterSelect`, so no deadline
lies behind when a turn begins) and `NextAhead`. The lemmas about `TcpClientFSM` say what
each operation does to a machine; `DeadlinesCovered` and `NextCovered` that the timeout given to poll is no
more than what is left of any deadline.

**Anr** (assumption `ConstantsAssumption`: times are numbers and a round is not empty).

| Theorem | Establishes |
|---|---|
| `NeverOversleeps` | `[]SleepCoversAll`: no deadline is slept over |
| `EarlyAlarmsAreCharged` | the action property `EarlyAlarmIsCharged`, for any number of cores |

`SleepCoversAll` needs only types and clocks that do not run backwards. `EarlyAlarmsAreCharged`
rests on `ChargedFairly`: an object has been charged no more cpu time, what the round in progress
will be charged included, than the process has used since `charged_from`.

**TaskDispatch** (assumption `ConstantsAssumption`: at least one thread and one commit).

| Theorem | Establishes |
|---|---|
| `EveryUnitServed` | `[]UnitsServed` |
| `WaitGetsOwnResult` | `[]OwnResult` |
| `RoomAwaited` | `[]RoomIsAwaited` |
| `WaitCaused` | `[]WaitHasCause` |

`Inductive` adds `Serving` (a queued unit has an idle thread, or no more can be created),
`RoomHeld` (the commit that waits for room is the only one, keeps `mMutex` and finds the queue full),
`CanceledLate` (the queue is cancelled only by its destructor), `UnitsOnce`, `UnitsCommitted` and
`WorkHeld` (a unit is at one place, belongs to a commit that was made, and a thread that runs has
one), `ResultsOwn` (without a second report only the last commit of a task is pending, and a final
state is its result) and `Causes` (a wait has a reason to be woken from the test of the state on, not only
when it sleeps; one of the reasons is a unit that the queue refused).

**RangeManager** (the same assumption as the ranges).

| Theorem | Establishes |
|---|---|
| `WaitsForAll` | `[]WaitedForAll` |
| `PartsStayInOrder` | `[]PartsInOrder` |
| `CompleteMeansWhole` | `[]CompleteIsWhole` |

`Control` is about threads and counts: the counts are the sizes of the sets of downloaders that
have reported (`Counted`), and when they add up to the number of parts every part is in one of the
sets (`AllIn`). The hard steps are those of a recovery, in which the counts go back while one
callback holds the mutex and walks over the parts (`OneRecovers`, `JoinsFailed`, `Scanned`). `Data`
is about bytes: `TransfersFollow` (what a transfer will append follows what the file holds, unless
the begin of the range was moved twice, a byte was not written or a header was cut, and in the
first two cases it still lies behind it), `DoneIsWhole` and `ComposedIsWhole`.

**Only model-checked.**

* The liveness properties: `CallsReturn`, `ResetReturns`, `JoinReturns`, `DisconnectEnds`,
  `WriteServed`, the `CallsReturn` of `TcpServer`, `Returns`, `DownloadReturns`, `QueuedIsSent`,
  `DestructorReturns` and `OverdueIsReported`. They rest on fairness and `ENABLED`, about which the prover does
  not reason. Both properties of `UdpSocket` are of this kind, so nothing is proved about it.
* What a recursive definition computes for every input: the induction theorems of the library take
  an operator, which the installed provers cannot instantiate. No proved property depends on one; minima
  and maxima are reached by well-founded sets (`MinOfNats`, `LeastOfBounded`) instead.

## 6. What the models show about the code

Where a property holds only with an exception, the exception is a behaviour of the code that
TLC reaches. These contradict what the code's own assertions and comments say:

* `exit_done` starts as true (`msgqueue.h` 289) and the worker clears it only under its first
  lock. A `reset_msg_queue` that comes before that does not wait, deletes the queue, and
  the worker locks a mutex that is gone, against the assertion of `Mutex::lock`
  (`mutex.h` 33, 151). `SettledWorkerSafe` holds for the workers that had entered their loop.
* `join` reads `tid()` after it has released the lock (`thread.h` 289). If the pthread
  ends and is started again in between, the new one is joined; it finds `isjoined` false
  and detaches itself under the join, which the head of `thread.h` (16) warns of.
  `JoinReturns` makes that exception.
* `TcpClient::Read` tests `status_` and asserts a valid socket (`tcpclient.cc` 76-80) without a
  lock that the worker takes before it closes and resets the socket.
* `TcpClientFSM::Close` passes `remote_close_` where `_OnClose` expects `_userclose`
  (`tcpclient_fsm.cc` 91, `complexconnect.cc` 81), so attempts closed because another one has
  won are reported as failed.
* The assertion of the ANR checker that the cpu time logic is the less strict one ("old logic is
  strict than new logic", `anr.cc` 139-142) fails for a scope registered in the middle of a wait,
  which is charged the cpu time of the whole round, and on several cores, where cpu time runs
  faster than the clock. `EarlyAlarmIsCharged` states what holds instead.
* Two calls of `StopAndWait` at a time join the same thread, against `ASSERT(!isjoined)`
  (`thread.h` 280); the second `pthread_join` is refused and that call returns while the listener
  runs (`StopMeansOver`).

The runs check what holds, so these are exceptions within passing properties; no run is
expected to fail.

Other behaviours that the properties name as exceptions, or that the models contain and no
statement of the repository contradicts:

* `_wait_exit` tests `exit_done` and then waits, and the worker sets it and notifies without
  the mutex: the notification can be missed and quit does not return (`LostWakeup`).
* The cancels do not notify the waiters: a wait for a message that is cancelled ends with the
  next notification, if there is one. Waiters that are blocked when the loop ends stay blocked.
* A wait or a quit called from a handler waits for its own thread. The models do not make
  these calls.
* `wait_time_min` is never updated in the scan, so the worker may sleep for the first or
  last message's delay although one in the middle is due earlier; the next notification or the end of the
  sleep puts it right. Messages are never early, but they can be late.
* `remove_handler` deletes handlers and messages in use: `ub` records it, and
  `DanglingNeedsRemoval` says that nothing else makes a kept pointer dangle.
* `erase(it); delete(*it)` reads a list node that was just freed, on every cancel and at the end of
  every dispatch (`ub = "node"`). No call of the clients avoids it, and what follows when the
  node has been used again is undefined.
* `reset_msg_queue` hangs with the wrapper's mutex held when the worker's last notification falls
  between its test of `exit_done` and its wait, or when a client has removed handler 0 or cancelled
  its messages, so that the message of quit is refused (`msgqueue.h` 302-305) or deleted
  (`ResetReturns`).
* `kill` reads `tid()` after the unlock, with the same consequence for a restarted thread as
  in `join`.
* `start()` reports a new thread even when `pthread_create` failed; `StartAndWait` then waits
  for a notification that nobody sends (`noThread`).
* A breaker that was closed and created again keeps `broken_` true over an empty pipe, so no
  later `Break` writes to it (`recreated` in `StopReturns`).
* `StopAndWait` may join a listener that another thread has started meanwhile, because `join` reads
  `tid()` after its unlock; it then returns when that one ends, or meets a thread that has detached
  itself and is gone (`undefined` in `StopReturns`).


Of the UDP classes:

* A destructor's single break can be drained by the autoclear behind a poll that reported a
  datagram. The worker polls again with `event_` NULL and nobody breaks again: the join
  returns only if an error ends the loop (`swallowed`).
* `event_` is tested and used in two steps while the destructor clears it (`Crashed`).
* After an error the worker has left its loop but `isruning()` still holds: a `SendAsync` then
  queues a datagram and starts nobody (`stranded`).
* `ReadBlock` does not use its timeout (`udpclient.cc` 60), and `SetIpPort` writes the address
  without the lock.

Of the ANR checker: after one late wake-up it judges by cpu time for good, and a deadlock,
which uses none, is no longer reported; the warning at `anr.cc` 127 reads `front()` of a heap
that may have become empty.

Of `sknet`:

* `TaskInfo::wait` tests the state under a mutex that the work threads do not take, so a signal
  can fall between the test and the sleep; and all tasks share one condition that is
  signalled, not broadcast, so the wrong wait can be woken (`missed`).
* A unit cancelled while queued, or cleared by the destructor, never gets a final state, and its
  wait never ends; nor does that of a unit for which no work thread could be created, which is not
  queued at all (`WorkQueue.cpp` 54-57; `dropped`).
* `WorkThread::cancel` tests `mRunningWork` and calls through it (`WorkQueue.h` 105-106) while the
  thread clears it without the lock (`WorkQueue.cpp` 175): a null pointer (`crashed`).
* Cancelling a running unit changes nothing: `HttpTransfer::cancel` sets a flag that no
  transfer reads, and writes to a pipe of which `select` watches the end that is written to
  (`HttpTransfer.h` 210-220, `HttpTransfer.cpp` 206).
* A redirected transfer, and one whose server closes, reports its end twice; the second report may
  fall into the next commit of the task (`again`).
* `recoverFailedTask` joins, under `mMutex`, a downloader that waits for `mMutex` in `onFailed`
  (`RangeManager.cpp` 155): the download never ends (`JoinCycle`). Nor does it when a downloader
  cannot open its part file, since it makes no callback (`RangeDownloader.cpp` 33), or when its
  thread cannot be created (`RangeManager.cpp` 87 and 157 ignore the result of `run`).
* The begin of a range is moved behind the part file at each resumption and never moved back:
  the second one in a process skips bytes. An early close of the server counts as the end of
  the part, and a part file that cannot be opened is left out of the composition. A server that
  closes within its header has the header's bytes appended to the part (`HttpTransfer.cpp`
  744-748, 932), and no write is checked (932, `RangeManager.cpp` 126). All of them end in a
  download reported as complete that is not (`spoiled`).
* A part that one manager resumed twice and that a later manager takes up again may hold bytes
  twice: the file is shorter than the bytes it reached to, and the later manager goes on at its length. The
  exception of `PartsInOrder` for such a part came out of its proof.

Of the log files, read and not modelled: `Flush` tests the file handle before it takes the
mutex under which another thread closes it (`logfilectrl.cc` 240).

## 7. What is not modelled

* `TaskLoop` (`msgqueue.h` 642-696), the nested loop on the calling thread; the wrapper's start
  without a thread of its own; `Thread::unsafe_exit` and a thread that joins itself.
* The wrappers over pthread mutexes, spin locks, condition variables and atomics: their
  effect is in the modules of their users.
* `TcpServerFSM`: no code of the repository drives it, so there is no loop to compose it with.
* `block_socket`, `SendBlock`, `ReadBlock`: sequential loops on one descriptor.
* The log files: what is left of them without formatting is the file system, as a fault of
  every call. `AutoBuffer` and `BufferIO`: sequential buffers with a cursor.
* The SQLite wrapper, addresses and options, strings, clocks and assertions, the JNI
  bindings and the platform queries: thin layers over code that is not in the repository.
* Of `sknet`: requests, headers, filters, TLS, the cache of addresses, the tables in the
  database and the Java callbacks.
* The third-party code in `src/vendors` (curl, mbedtls, sqlite, jsoncpp and others). It is
  nearly all of the repository: of some 358000 lines of implementation about 20000 are the
  authors' own, so the share of all lines that the map covers stays small whatever is
  modelled of the library itself.

Numbers that are not kept at their width: message numbers and handler ids are naturals
(handler ids are 16 bits in the code and would repeat after 65536 calls of `add_handler`).
Deadlines use a clock that does not jump; the code uses the wall clock for some of them.

## 8. Plan

Order of work, the most important behaviour first:

1. Done: `MsgQueue`, `MsgQueueWrapper`, `Thread`, `SocketSelectBreaker`, `TcpClient`,
   `TcpServer`, `TcpClientFSM`, `MultiConnect`, `UdpSocket`, `Anr`, `TaskDispatch`,
   `RangeManager`.
2. Done: the proofs of all invariants that the runs check, the refinement of `TimerQueue` and the
   division into ranges.
3. `LogFileCtrl`: the open file against its day and its directory; nothing is written to a file
   of another day.
4. `TaskLoop`, composed with `MsgQueue`.
5. `AutoBuffer` and `BufferIO`: the operations as functions on a buffer and a cursor, checked
   against sequences of bytes at every boundary.
6. `block_socket`: the result agrees with what was transferred and no call outlives its timeout.
7. An event flag as the abstract specification that `SocketSelectBreaker` implements as its users
   call it.
