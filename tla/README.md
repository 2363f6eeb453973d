# TLA+ verification of liteco

liteco is a C library of stackful coroutines on an event loop: coroutines run
on a *runtime*, pass pointers through *channels*, wait on several with
*select*, and the loop turns descriptors, timers and calls from other threads
into callbacks.  This directory holds TLA+ models of it, the TLC runs that
check them on small instances, and proofs of their main properties for every
instance.

    tlc -config MCAsync.cfg MCAsync               # and so on, see section 4
    tlapm AsyncProofs.tla
    tlapm ChannelProofs.tla                       # then ChannelWakeProofs and
    tlapm ChannelWakeProofs.tla                   # SelectProofs, which use it
    tlapm SelectProofs.tla
    tlapm UdpProofs.tla
    tlapm RbTreeProofs.tla                        # then RbTreeOrderProofs,
    tlapm RbTreeOrderProofs.tla                   # which uses it
    tlapm TimerProofs.tla

`PROJECT.json` lists the components, the runs, the faulty variants of the
definitions that each property is tested against, the source lines each
definition models, the hazards and the theorems.

## 1. Inventory

| part | source | state | operations |
|---|---|---|---|
| asynchronous handlers | `src/lc_async.c`, `platform/linux/lc_eloop.c:57-99` | list of handlers, each with an atomic status `NO_PADDING / WORKING / DONE`; one eventfd, edge-triggered | `liteco_async_init`, `liteco_async_send` (any thread), the walk of `liteco_async_io_cb` |
| coroutines | `src/lc_coroutine.c` | atomic status `STARTING / READY / RUNNING / WAITING / TERMINATE`, stack, context | create, resume, yield, `liteco_set_status` (spins) |
| runtime | `src/lc_runtime.c` | ready queue under a mutex; it *is* an asynchronous handler | `liteco_runtime_join` (any thread), `_pop`, `liteco_runtime_cb` |
| channels | `src/lc_channel.c` | mutex, `closed`, ring buffer, list of waiting writers, list of waiting readers | push, pop, try and unenforceable forms, close, destory |
| select | `src/lc_channel.c:208-331` | waiters registered with several channels at once | `liteco_select`, `liteco_select_choose` |
| timers | `src/lc_timer.c`, `linux/lc_eloop.c:101-175`, `darwin/lc_eloop.c:138-197` | heap of deadlines; one timerfd on Linux | init, start, stop, expiry |
| heap | `src/lc_heap.c` | linked complete binary tree | insert, remove, swap |
| red-black tree | `src/lc_rbt.c` | tree with sentinel, colours, parent pointers | insert, remove, find, Morris iterator |
| I/O registration | `platform/linux/lc_io.c`, `lc_eloop.c:177-236` | epoll set, trees `reg` (numbers in epoll) and `mon` (handlers listened to), a batch of events | `liteco_io_start`, `_stop`, `liteco_eloop_run`, `_close` |
| udp | `src/lc_udp.c` | a descriptor and its I/O handler, callbacks, a channel for what arrives | init, bind, recv, close, sendto; the receive loop |
| streams, pipes | `src/lc_stream.c`, `src/lc_pipe.c` | not built by the Makefile on Linux | |
| context switch | `src/arch/*` | registers | swap, init, cas |

How they interact.  `liteco_eloop_run` polls and calls the callback of a
reported descriptor.  The eventfd's callback walks the list of asynchronous
handlers; one of those is the runtime, whose callback resumes the coroutines of
its ready queue on the loop's thread, one at a time.  A coroutine calls
channels; a channel operation that frees a waiting coroutine makes it READY and
joins it to its runtime, which sends on the runtime's handler, possibly from
another thread.  Timers and sockets run their callbacks between two walks; such
a callback may use channels only through the forms that do not block.

What is hard, and what makes each part correct:

* *Asynchronous handlers.*  Sends coalesce: only the first of several writes
  the eventfd, which is reported once per edge.  The loop must nevertheless run
  the callback after every send, whatever the order of its reads and of the
  three steps of a send; and nobody may wait for a claim whose owner is gone.
* *Runtime.*  A runnable coroutine must stay in a queue for which a callback is
  due.  A coroutine that yields is put back only at the end of the callback,
  outside the loop that empties the queue.
* *Channels.*  Writers and readers must not wait for what is there.  A waiter
  is woken once.  Elements go through the buffer, through a waiter or straight
  into a reader's variable, and must come out once.  The mutex is released
  before the coroutine switches contexts.  `closed` is read without the mutex.
* *Select.*  A coroutine registered with several channels is woken by one of
  them and stays registered with the others for a while; several mutexes are
  held at once.
* *Timers.*  A timer started twice keeps its place in the heap; a callback may
  start and stop any timer, its own included; the wait is computed from an old
  look at the clock.  On Linux starting or stopping a timer expires others.
* *Tree, heap.*  Pointer algorithms; the order of the keys must survive every
  sequence of insertions and removals.
* *I/O.*  Edges are reported once, so a callback must read to the end and the
  loop must know every descriptor.  The kernel gives numbers again, and a batch
  of events outlives what its first callbacks close.
* *Udp.*  A buffer goes from the program through the receive loop to a channel or
  back to the program; what fails on the way must not lose it without a trace.

The hazards, each at its line and with the properties that cover it, are in
`PROJECT.json`.  What they come to in the code as it is:

* `liteco_chan_push` and `_pop` do not look at the result of `wblock`/`rblock`.
* A push that loses a race with close returns 0 and writes nothing.
* A wakeup from another thread during the blocking of a coroutine can queue it
  twice; the loop then resumes a coroutine that sleeps and spins.
* Select waiters outlive the wakeup they were registered for; a push that takes
  one spins with the mutex held.
* A push refused by a select's waiter sleeps although the buffer has room.
* `__min` in `liteco_rbt_remove` takes the least key of the whole subtree.
* A datagram's buffer is gone, unnoticed, when its channel was closed before, or is
  closed while the buffer is in a waiter, or when `malloc` fails for that waiter.
* `epoll_ctl` may fail unnoticed; the descriptor counts as registered.
* Starting a timer that is in the heap, or starting a timer with an interval in
  its own callback, changes a timeout inside the heap, whose order is not
  repaired.
* Linux's loop never initialises the heap: it bears one timer at best.
* `liteco_io_stop` leaves its number in `reg`: the next socket that gets that
  number is never heard.  It does nothing for a socket that never received: the
  descriptor stays open.
* A receive loop that ends for want of a buffer, or by an error, is not resumed
  before more arrives.  An error is pushed to the channel as a datagram of
  `errno` bytes.  A datagram that arrives when the channel is closed takes its
  buffer with it.
* A socket closed by an earlier callback of the same batch is called back once
  more; if its number was given to another, it reads that one's data.

## 2. Plan

| module | what | state |
|---|---|---|
| `AsyncSpec`, `Async`, `AsyncProofs` | asynchronous handlers and their abstract promise | done |
| `Runtime` | coroutines and the runtime | done |
| `Channel`, `ChannelProofs`, `ChannelWakeProofs` | channels, on top of `Runtime`; what waits, who is woken, what is delivered | done |
| `Select`, `SelectProofs` | select and choose, extends `Channel` | done |
| `RbTree`, `RbTreeProofs`, `RbTreeOrderProofs` | tree with links and colours, against a set of keys; links and balance, contents, search and iteration | done |
| `Heap`, `Timer`, `TimerProofs` | the heap's links, the timers and the loops of Darwin and of Linux, with a clock | done |
| `Io` | descriptors, epoll, `reg` and `mon`, batches of events | done |
| `Udp`, `UdpProofs` | udp channels and the program that uses them, extends `Io` | done |

`Runtime` is not checked alone: its loop does nothing until something runs on
it.  `Channel` extends it and says what coroutines do, and `Select` extends
`Channel`.  The runtime's handler is abstracted in `Runtime` to one bit; that is
what `Async` shows to be right (`ImplementsAsyncSpec`).  The abstract
specifications worth stating are `AsyncSpec` (done), a set of keys for the tree
(so far the history `present` of `RbTree`) and a set of deadlines for the
timers (so far `wanted` of `Timer`).

## 3. The models

### Async

One variable per shared word, one action per access to it.  `hstat` are the
statuses; `counter` and `edge` are the eventfd and what epoll has still to say
of it; `spc`/`tgt` are the three steps of `liteco_async_send` of each thread,
`SendClaim`, `SendWrite` and `SendFinish`; `lpc`/`pos` is the loop in
`liteco_async_io_cb`: `EventfdRead`, then for each handler the read and the CAS
of `liteco_async_spin` as two steps, `SpinRead` and `SpinCasTakes` or
`SpinCasFails`, and the callback, during which the loop's own thread may send
and initialise handlers.  `asked` is history: the handlers sent since their
callback last started; it maps to the one variable of `AsyncSpec`.

The only two accesses that are one step are the plain read and the CAS at the
start of a send: both end in the same return when the handler is taken.

### Runtime

`status` of each coroutine, `rq` the ready queue, `yielded` the local list of
`liteco_runtime_cb`, `async` the handler.  The callback's loop is `Callback`,
`Pop`, `Resume` (or `ResumeTerminated`), whatever the coroutine does, `SwapOut`
in it, `Resumed`, and at the end `FlushOne` per entry and `FlushEnd`, during
which the runtime's mutex is held so that `JoinRuntime` has to wait.
`JoinRuntime` is one step: its mutex covers all of it.  The spins of
`liteco_set_status` are guards: a coroutine whose status never allows the step
keeps the loop's thread there for ever, which TLC sees as a deadlock and
`OnlyRunnableQueued` and `WaitersNotResumed` speak of.

### Channel

Actors are coroutines, other callbacks of the loop and threads.  `pc` says where
each is inside a call; the actions follow the code:

    Call          the look at closed, without the mutex
    EnterClosed, EnterRefused, PushToReader, PushToQueue,
    PopFromWriter, PopFromQueue
                  the mutex is taken and liteco_chan_w or _r decides
    GiveUp, LeaveElement, Block + Park + Relock
                  what the caller does with a refusal
    Wake, Join, WakeNobody
                  liteco_chan_join_runtime
    Close, DrainWriter, DrainReader, Drained
                  liteco_chan_close

The critical section is cut only where it touches what the mutex does not
guard, a coroutine's status and the runtime's queue; in between nobody else can
see the channel.  `Block` ends with the release of the mutex, `Park` is the
context switch: other threads act between the two.  Each list has new waiters at
its head and is served there, as `liteco_link_insert_after` of the list's head
and `liteco_link_next` have it.  Waiters of kind `select` are handled by every
action, but only `Select` creates them.  Elements are records of who pushed
them; `accepted` and `received` are history, for the properties about elements.

`malloc` is a parameter of the actions that call it; `Mallocs` says what it may
do.

### Select

`Select` extends `Channel` by what an actor does inside `liteco_select`: `sel`
is where it is, `cases` and `blocked` are its arguments, `at` is the case it is
at.  `liteco_select_choose` is `SelectLock`, once per channel, and then, with all
mutexes held, `Choose`, `SelectNone` or `Register`, which releases them;
`SelectPark` is the context switch, after which the mutexes are taken again and
`Deregister` removes the waiters that are left.  `Try` begins the call of the
chosen case; from there the actor takes the steps of `Channel` as any caller
does, and `SelectActorStep` looks at how the call ends: a call that gave up sends
the select back to choosing.  Releasing the mutexes is one step: nothing happens
between the releases, and an earlier release only lets others in earlier.

### RbTree

The tree is one record `t` of root, links and colours over the nodes and the
sentinel `Nil`, whose fields are kept like any node's, so that the model shows
it when the code would write to it.  The code's loops and its chain `__rm1` to
`__rm6` are steps: `Insert`, `Descend`, `Conflict`, `Attach`, then `FixRecolour`,
`FixInner`, `FixOuter`, `FixDone`; `Remove`, `Min`, `Swap`, `Cut`, then `RmRoot`
(`__rm1`), `RmRedSibling` (`__rm2`), `RmUp`, `RmExchange`, `RmNear`, `RmFar`
(`__rm3` to `__rm6`) and `Replace`.  A rotation is an operator on trees that makes
the assignments of `__lr` or `__rr` in their order.  `Exchange` is what the three
calls of `__assign` come to, also when the two nodes are parent and child.
`IterBegin` to `IterEnd` are the iterator; its two interrupts only remember where
to go on, so a step returns a node and goes on at once.  Nothing else runs in the
meantime: the loop's thread owns its trees.

### Heap and Timer

`Heap` has the operations of `lc_heap.c` as operators on records of links:
`Swap` makes the assignments of `liteco_heap_swap`, `Places` is the way to a place
by the bits of its number, `SiftUp` and `SiftDown` are the loops.

`Timer` is `lc_timer.c` on the loops of both platforms; `platform` is chosen at the
start and says which.  `Start` and `Stop` are calls in user code: before the loop
runs, in callbacks of descriptors, and in timers' own callbacks.
`liteco_eloop_timer_active` is `Expire` and `CallbackReturns` for each timer that is
due; `frames` is the stack of its calls, each with the time it was given and the
timer whose callback it is in.  Only `Tick` advances the clock, between any two
steps.

* On Darwin a pass is `Pass`, which reads the clock, one call of
  `liteco_eloop_timer_active`, and `Sleep`, which computes the wait from that look;
  `Awake` ends it, by its limit or earlier.
* On Linux an insertion is followed by `LookAtClock`, which begins another call,
  inside the one whose callback inserted; `Arm` ends a call and sets the timerfd
  (`wake`).  The loop is `EpollWait`, `Events` and `TimerIoCb`.
  `liteco_eloop_init` calls `liteco_heap_init` only on Darwin.  The model takes the
  loop's memory to be zeroed before, the best case: the heap is empty and has no
  comparison, so a timer that is inserted beside another ends the program
  (`StartCrashes`, `RepeatCrashes`).  In other memory nothing can be said of the
  first timer either.

Two history variables: `wanted`, the timers whose program still expects a
callback, and `displaced`, whether a timeout was changed inside the heap since it
was last empty.

### Io and Udp

`Io` is `lc_io.c` and the loop of `lc_eloop.c` over a model of the kernel: `file` says
for which handler's socket a number stands, `interest` what epoll keeps for it
(`data.ptr`), `ready` the numbers epoll has to report and `data` what waits to be read.
`Socket` gives the lowest free number.  A pass of the loop is `Register`, which adds
to epoll what `mon` has and `reg` has not, `EpollWait`, a `Dispatch` for every event
of the batch, and `BatchDone`; `Interrupted` is `epoll_wait` ending with nothing.
`IoStart` and `IoStop` are the two calls.

`mon` and `reg` are sets.  They are red-black trees in the code, which lose keys
after a removal (run `rbt_order`); trees of up to three nodes do not, and the
instances have no more.

`Udp` adds the program and `lc_udp.c`.  `Open`, `Bind`, `Receive`, `Close`, `CloseChan`,
`CloseLoop` and `Pop` are the program's calls, made where its code runs: before
the loop, in the callback of its own handler (`App`, a timer or the runtime's
eventfd), in `alloc_cb` and in `recovery_cb`.  `UdpCallback` enters
`liteco_udp_io_cb`; then `Alloc` or `AllocFails`, and `Received`, `ReceivedEmpty`,
`NothingLeft` or `ReceiveFails` are the ways a turn of its loop ends, each with what
`liteco_udp_chan_recv_udp_cb` does.  `Source` is the socket that the descriptor
number stands for when `recvmsg` is called, which need not be the one whose
callback it is.

Buffers are counted: the program's (`free`), the receive loop's (`held`), those in
the channel's array (`queued`, up to `Room`), in waiters of its writers (`leftover`)
and in the hands of coroutines that have yet to run (`handed`); and, as history, those
that are gone.  `Push` is `liteco_chan_unenforceable_push` with all its ends: a closed
channel refuses the buffer (`lost`); a coroutine in `chan->r` gets it (`PushToReader`),
or, when it is a select, is only woken and the buffer left with the writers; the array
has room (`PushToQueue`); or it is left with the writers (`LeftToWriters`), for which
`malloc` may fail (`dropped`).  The push returns 0 in all cases but the first, and
`liteco_udp_chan_recv_udp_cb` looks at none of it.  `Pop` takes from the writers first,
as `liteco_chan_r` does, then from the array, or waits; `PopResumes` is the coroutine
that a push has served.  `CloseChan` frees the waiters of the writers with the buffers
in them (`lost`) and lets go of the readers; the array keeps its buffers, which no pop
returns afterwards.  Channel calls are single steps: they are all made on the loop's
thread.  `BuffersAccounted` says that a buffer is in one place, and in which of
these ways it may go: none is lost from an open channel unless `malloc` fails.

The program keeps to what the code needs of it: it calls on the loop's thread,
closes a socket once, does not free it in the batch of its close, and ignores the
address that `recovery_cb` gets when there was no buffer.

Three history variables say why a socket may be deaf: `unheard`, its number was in
`reg` when it got it, or `epoll_ctl` failed, whose result `liteco_eloop_reg_io` ignores
when the mark is in `reg` already; `denied`, `malloc` failed for its mark in the last
pass; `starved`, its last callback left before the end.  `NothingWaitsUnseen` and
`EverythingRead` are about all others, and these are the only exceptions: the
definition of `Deaf` is the list of ways in which the code loses an edge.

## 4. Runs

| run | instance | states | shows |
|---|---|---|---|
| `async` (`MCAsync.cfg`) | 3 handlers, 2 threads and the loop | all | no send lost, one owner per claim, eventfd never full, refinement of `AsyncSpec` with liveness |
| `channel_loop` | 3 coroutines, a callback, buffer of 1, 2 calls each | 1.2 M | nobody stranded, wakeups neither lost nor doubled, elements neither lost nor doubled, the loop never meets a sleeper |
| `channel_live` | 2 coroutines, a callback | all | runnable coroutines run; close releases sleepers |
| `channel_threads` | 2 coroutines, a thread, no buffer | all | what of this survives wakeups from other threads |
| `select` | a selecting coroutine, another, a callback; two channels, one with a buffer; 2 calls each | 1.2 M | no waiter outlives its call, one case is carried out, nothing lost or doubled |
| `rbt` | 11 nodes, two with one key | 3.1 M | links, sentinel, balance, contents, order until the first swap, iteration |
| `timer` | 3 timers, clock to 4, both platforms | 770 k | heap and timers agree, callbacks only when asked and due, the wait ends in time, every due timer runs |
| `udp` | 2 sockets and the program's handler, 3 numbers, batches of 2, 2 buffers, room for 1, a reader, 2 datagrams, failures | 880 k | no edge is lost but for the deaf, the closed stay quiet, descriptors and buffers are accounted for, what arrives is read |
| `channel_nomem` | `malloc` may fail | violation of `SleepersRecorded` | a coroutine asleep in no list |
| `channel_ghost` | 2 coroutines, a thread | violation of `WaitersNotResumed` | the loop spins on a sleeping coroutine |
| `select_spin` | as `select` | violation of `WakesOnlyWaiting` | a push spins on a coroutine that was woken elsewhere |
| `rbt_order` | 5 nodes | violation of `FindsAll` | keys that are in the tree are not found |

Bounds.  Three handlers are the fewest for which a walk has a handler before,
at and after its position; two senders besides the loop are the fewest for a
claim to be met by another sender while the loop looks at it.  Sends are not
bounded: coalescing keeps the counter at most twice the number of handlers,
which is itself a property.  With three coroutines two wait in one list, or one
waits and one is about to, while the third acts; two calls each let every
coroutine be woken and come back into another call.  A buffer of one place is
full and empty with one element; a buffer of none makes every push meet a pop.
`channel_loop` uses the symmetry of the coroutines; no run that checks liveness
does.  `Budget` is the only bound put on behaviours: the number of calls of an
actor.

Coroutines in `channel_loop` use push, pop and close, callbacks the other forms;
in `channel_threads` everybody uses everything allowed.

`select`: the selector pushes on both channels or pops from both, in opposite
orders; the other coroutine pushes and pops, the callback pushes, pops and
closes.  That is one waker for each of its two waiters, and one to close a
channel between its choice and its call.

`rbt`: rebalancing after a removal climbs more than one level only in a tree
that had ten nodes, hence eleven, two of which share a key so that `Conflict` has
its case.  Trees whose order a removal has broken (`swapped`) are explored up to
`SwappedMax` = 4 nodes: their shapes are those of the others, only the nodes in
them are permuted.

`timer`: three timers are the fewest for which a removal chooses between two
children.  With the delays and periods given, timeouts are reached within the
bound `MaxTime` of the clock or lie beyond it, and a callback takes up to all of
that time.  A wait that goes beyond the bound ends at it.  `MCTimer` also asserts,
as assumptions that are evaluated before the run, that the heap's operations keep
links and order in every heap of seven nodes (all orders of different keys, and
all keys of two values), the size at which a removal may let the moved node sink
in one branch or rise in another, and the links also when a key was changed in
place.  On Linux the same instance has one timer in the heap at a time, and calls
nest as deep as three timers and the clock's bound allow.  `SleepsUntilEarliest` and `DueRuns` except heaps that are `displaced`; the
exception is needed: with timers at 1 and 2, starting the first again for 10
leaves it at the root, and the second waits for 10.

`udp`: a batch of two has a second event to meet what the first one's callbacks
did, close and reopen included; with three numbers for three handlers a number is
given again only after a close.  Two datagrams are the fewest of which one may be
read and one left behind, or wait in each socket.  With
room for one of two buffers the channel is full, leaves one to a waiter, and is closed
over it; one reader waits when the array is empty.  `Buffers`, `Readers` and `Load` are
the bounds put on behaviours:
`Load` ends the receive loop, which in the code goes on as long as datagrams come
faster than it reads, and keeps every other handler waiting meanwhile.  Each
socket is opened once.  `alloc_cb`, `malloc` and `recvmsg` may fail at any call.
`epoll_ctl` may too in the model and in the proofs; with it the instance has half as
many states again, holds all the same, and takes too long to be run every time.

Deadlock is checked in `async`, `channel_loop` and `channel_live`, where nothing
may stop while there is something to do, and in `rbt`.  In `channel_threads` and
`select` it is not: the loop can stop for good there, as `channel_ghost` and
`select_spin` show.  Nor in `timer`, where Linux's program ends, and in `udp`, where
a closed loop does.

A push that loses a race with close: one thread looks at `closed`, another closes,
the first gets the mutex, and `liteco_chan_w` answers `true` (`lc_channel.c:365`),
which its callers return as success, having written nothing.  `NothingLost` is
therefore stated for elements of channels that are open.

The violations:

* `channel_nomem`: `liteco_chan_rblock` returns -1, `liteco_chan_pop` goes on to
  WAITING and yields.  No push, pop or close can wake the coroutine.
* `channel_ghost`: coroutine *a* blocks in a pop and releases the mutex; the
  thread pushes, makes *a* READY and joins it to the runtime; *a* switches
  contexts; `liteco_runtime_cb` sees READY and appends *a* to its list as well.
  *a* is popped, gets its element and blocks in another pop; the flush queues it
  again, and `liteco_resume` waits for a coroutine that nobody on this thread
  can make READY.
* `select_spin`: a select sleeps on *k* and *l*; a callback pushes on one and then
  on the other before the coroutine has run.  The second push finds its waiter
  still there, and `liteco_set_status` waits for a READY coroutine to be WAITING,
  with the mutex held and on the thread that would have to run it.
* `rbt_order`: insert 1 to 4, remove 3; 1 is put at the root with 2 on its left.

## 5. Fairness

`Async`: the loop's steps and the steps of a send once begun are weakly fair:
threads run and callbacks return.  Nothing obliges anybody to send.

`Channel`: every thread's steps inside a call, the loop's steps and the end of a
coroutine's or a callback's own code are weakly fair.  The runtime's callback is
strongly fair: epoll reports the ready descriptors in turn, so that a timer that
is always due does not keep the eventfd's edge from being reported.  A
coroutine's calls are not fair, so no liveness property rests on somebody
pushing or closing.  Runs that check liveness have no other thread, because with
one the loop may stop (`channel_ghost`).

`Timer`: the loop's steps and the return of callbacks are weakly fair, time goes
on, kevent keeps its time limit and epoll reports the timerfd.

`Udp`: the loop's steps and the steps of callbacks are weakly fair.  That a wait
reports a socket is strongly fair: epoll's ready list is served in turn, so that a
number that is always ready does not keep another from being reported.  Calls of the
program, datagrams and signals are not: nothing rests on a second datagram that
happens to come.

## 6. Proofs

`AsyncProofs`, for any number of handlers and any set of threads:
`TypeCorrect`, `SendNeverLost`, `ClaimHasOneOwner`, `LoopNeverWaitsForItself`,
`EventfdStaysSmall` and `StepsImplementAsyncSpec`, the safety part of the
refinement.  The inductive invariant is

    IInv == TypeOK /\ Places /\ Claims /\ Asked /\ NoLostSend

`Places` ties the loop's position to what it does and keeps the loop's own sends
to user code; `Claims` says that a WORKING handler has exactly one sender between
its two CASes and no other handler has any, which `NoLostSend` needs to exclude
that somebody else undoes a claim; `Asked` says that a handler is asked for as
soon as it is not NO_PADDING, which makes serving it a step of `AsyncSpec`.
`NoLostSend` alone is not inductive: `SpinCasFails` preserves it only because the
handler it steps over was claimed but not yet written, which is a fact of
`Claims`.  `EventfdStaysSmall` rests on `Counted`: the counter is at most the number of
handlers that the walk has passed since it was read, and of those ahead of it
whose send is written, sets that a step changes by one handler at most.

`ChannelProofs`, for any coroutines, callbacks, threads, channels, capacities,
calls and budget, and whatever `malloc` does: `ChannelTypeCorrect`,
`NobodyStranded` and `RefusalsStand`.  The inductive invariant is

    IInv == TypeOK /\ CallsOK /\ Mutex /\ PlainWaiters /\ PlainTargets
                   /\ Refusals /\ NoStranded

`CallsOK` says what an actor inside a call holds in `op`, `ch`, `ele` and `tgt`;
`Mutex` that an actor in the critical section of a channel is the one recorded in
`lock`; `PlainWaiters` and `PlainTargets` that there are no waiters of a select, of which
this module makes none; `Refusals` that what made `chan_w` or `chan_r` refuse is still so when
the caller registers itself.  The last is the crux: without it `Block` and
`LeaveElement` could add a waiter beside what it waits for, and it holds because
the refusal and the registration are under one hold of the mutex.

`ChannelWakeProofs` follows a coroutine from its block to the ready queue and
back, on top of that invariant, in three layers.

* `WakersFindSleepers` rests on `Sleepers`: who is in a list of waiters is in it
  once, sleeps in a call of that kind on that channel and is WAITING
  (`WaitersSleep`, `ListedOnce`); who has been taken out sleeps on until its waker
  has released the mutex (`WokenSleep`), so that it cannot come back into a list in
  the meantime; the coroutine that runs is RUNNING, or has parked and was woken
  before its context switch (`RunnerRuns`).  `WakesOnlyWaiting` alone says nothing
  of the lists that the next one to be woken comes from.
* `SleepersStayRecorded` and `RunnableNotLost` add that a WAITING coroutine is in a
  list or about to be woken, and that a runnable one is with its waker, with the
  loop, or in a queue for which a callback runs or is due (`LoopOK`,
  `RunnableHeld`).  Both assume `Mallocs \subseteq {"ok"}`: `channel_nomem` shows the
  first false without it, and a `liteco_runtime_join` that fails loses a coroutine
  that is already READY.
* `QueuedCanRun` assumes `Thr = {}`: `channel_ghost` shows it false with one thread.
  Then only the running actor is inside a call, a coroutine is in one queue once
  at most, and no one that waits is in any (`Alone`, `QueuesOK`).

Its second half follows an element in the same way: `ElementsDeliveredOnce` and
`ElementsKept`.  `Delivery` says that the four places of an element (buffer,
waiting writer, hands of a pop, returned) exclude each other, that each has it
once, that no two pops hold the same one, that a push which has not delivered yet
holds an element which is in none of them, and that elements of later calls are
nowhere yet; only then is the element that a step moves away not found a second
time.  `Copies` counts the four places, and the count is at most one because three
of the sets are empty and the fourth has one member.  `ElementsKept` adds
`Kept`, that what a push has handed over is somewhere as long as the channel is
open, and assumes a `malloc` that does not fail, as `unenforceable_push` returns 0
without storing the element otherwise (`lc_channel.c:155-162`).

`SelectProofs`, for any actors, channels and lists of cases: `SelectTypeCorrect`,
`WaitersDoNotDangle`, `OneCaseOnly` and `SelectDeliversOnce`, whatever `malloc` does,
`SelectKeeps` and `SelectSleepersRecorded` while it does not fail.  With selects a
waker may take out a coroutine that does not sleep any more, so `Sleepers` does not
hold there.
The inductive invariant is

    SelectInv == SelectTypeOK /\ CallsOK /\ Orderly /\ SelectorRuns

where `Orderly` says of every actor where its call and its select stand to each
other (`Place_OK`), which mutexes it holds (`Mutexes_OK`: one for a call, those of
the cases before `at` for a select), and of the waiter it has taken out that this
one cannot get on before the mutex is released (`Target_OK`); of every coroutine,
what it does while it is in a list (`Waiter_OK`), which gives `NoDanglingWaiter`;
and that nobody is in a list twice (`ListedOnce`).  The crux is `Target_OK` for
a waiter of a select: its coroutine is at most about to take the mutexes of its
cases again, one of which its waker has, so that it cannot have left the select.
The proof of a step has two halves: what the step does to its own actor, and
`ActorMoves`, that a step which only adds its own actor to lists, only wakes its
own target and only releases its own mutexes leaves everybody else in order.
`CallsOK` is proved for the steps of `Channel` whatever the kinds of the waiters,
so that both modules use it.  `LeastOf`, that a set of numbers has a least one,
says that the first case that is ready exists.

`OneCaseOnly` is about `SelectInv /\ Offering`.  An element is somewhere if it is in
a buffer, with a writer that waits in a call, in the hands of a pop or returned; the
waiter of a select does not count, since what it carries is only an offer.
`Offering` says that every element that is somewhere lies on its own channel and was
made by a call already begun, that of the elements of one call at most one is
somewhere (`Single`), that nothing but what a push pushes is somewhere of that call,
and that nothing at all is while the call still owes its element (`Owes`): before its
turn, when it was refused, when it has met a select's waiter, and all the time that
a select has not made its call.  `OneCase` alone is not inductive: it does not
exclude that the element of the case tried before is somewhere when another case is
chosen.  A step either brings nothing anywhere or brings what its actor pushes
(`NoMore`, `OneMore`), and `StepOffers` says that this is enough.

On top of `Offering` stand the properties that `ChannelWakeProofs` proves of
`Channel`, with other invariants, as a waiter that is taken out may now bring or
receive nothing.  `SelectDeliversOnce`: every place has an element once (`Once`) and
the places exclude each other (`OnePlace`); a step takes the element it brings
somewhere from where it was, or it was nowhere, by `Offering`, since its call still
owed it.  `SelectKeeps`: nothing is overwritten or dropped, as a pop that is not
served yet and a reader that waits have no element, and a close takes elements of
the channel it has closed (`Readiness`); every waiting reader is a coroutine's
(`Named`); and what a push has handed over is somewhere as long as its channel is
open (`Stored`).  That it is there only once is `SelectDeliversOnce`.
`SelectSleepersRecorded`: a select that registers has a case (`Cased`), whose channel
then lists it; a waiter that leaves a list is its taker's target; and a select that
takes back its own waiters runs, so that it is not WAITING (`SelectorRuns`).

`UdpProofs`, for any sockets, descriptor numbers, batch size, buffers, load and
failures: `Seen`, `Quiet`, `Descriptors` and `Buffered`.  The inductive
invariant is

    IInv == types /\ Numbers /\ Registered /\ Served /\ Heard
                  /\ HeldInRecvmsg /\ BuffersAccounted

`Numbers` makes handlers that have a descriptor and numbers that stand for one
correspond one to one, so that a close or a new socket touches no other;
`Registered` that epoll's addresses are of handlers in `mon`; `Served` that whom
the loop serves is in `mon` or was stopped since the last wait; `HeldInRecvmsg`
that the receive loop has a buffer exactly while it reads.  `Heard` carries
`NothingWaitsUnseen` through the batch: a number in `reg` is registered for its
handler unless it was in `reg` before or `epoll_ctl` failed (`unheard`), and what is unread in a
registered socket will be reported, is in the batch, or its callback has not come
to the end.  `NothingWaitsUnseen` speaks of the wait alone and says nothing
of how the loop gets there.  `PushAccounts` goes through the ends of a push, each of
which takes the receive loop's buffer to one place.  That `LowestOf` gives a free
number rests on the library's well-foundedness of `<`.

`RbTreeProofs`, for any set of nodes, any keys and any sequence of calls:
`Invariance`, `TypeCorrect`, `LinkedAlways`, `SentinelSafe` and `BalancedAlways`.  The
inductive invariant is

    IInv == TypeOK /\ TreeAt /\ Places

`TreeAt` says that there are witnesses for what the tree does not store: a depth for
every node, greater than its parent's, so that there are no cycles (`Deep`), and a
black height, the same by either child (`Levels`).  `Shape` is the agreement of the
links.  In the middle of an insertion one red node may have a red parent (`Fixing`); in the
middle of a removal the subtree of `cur` is one black node short, the node to go no
longer counts, and a set of nodes that leads from the root to `cur` says that the
two are on one path (`Removing`).  `Places` says what each
place in an operation knows of its nodes: that a sibling exists, which colour it
has, that the node removed has one child at most.  None of the four properties is
inductive: a rotation of a tree that is only `Linked` may meet the sentinel.  A
rotation is described once, node by node (`Turned`), and its right-hand form is the
left-hand one of the mirror image (`Mirror`).  `Balanced` speaks of the recursive
function `Blacks`, whose equation is shown to have one solution at most by taking
the least node, by depth, at which two would differ, and the heights give one.

`RbTreeOrderProofs` adds what the tree holds: `HoldsAlways`, `FindsAlways` and
`IteratesAlways`.  Its invariant gives every node the set of the nodes below it, which
its links divide and, until `swapped`, divide by the keys (`Holds`, `Sorted`,
`Ordered`); on the way down an insertion keeps to the side of its key (`Fits`).
`Recursion`, an induction on a rank of the nodes,
shows that functions defined along the links exist, and so what `InOrder` and
`Find` compute.  For the iterator, `Guides` says of the tree which sequence
comes below and after each node and where the thread of a node leads; `LinksAre`,
that the threads in place are those of the nodes the iterator has still to come
back by; `At`, that what was returned, followed by what lies ahead, is the order of
the tree.

`TimerProofs`, for any set of timers, delays and periods, on either platform and
whatever the callbacks do: `HeapComplete`, `HeapInOrder`, `WantedStaysActive`,
`WaitEndsInTime` and `CallbacksAreDue`.  The inductive invariant is

    IInv == Types /\ Layout /\ Nested /\ Wants /\ Armed

`Layout` says that the heap has a layout, a map from the numbers of its places to
timers: each active timer in one place, Nil in every other, the links of place k
to 2k, 2k + 1 and back (`Laid`), and the order of the timeouts unless one was changed
in place (`InOrder`).  The links alone are hard to speak of; with a layout, what the
code does to them is an exchange of two places (`SwapLaid`), a place more
(`AttachedLaid`), one less (`CutLaid`), or another timer in a place (`TakesPlaceLaid`).
That the code finds a place by the bits of its number is `PlacesLaid`.  The two sifts
are recursive functions over heaps: that they exist is `Iteration`, which gives a
heap the end that it reaches, and what they compute is an induction on the place of
the timer that moves (`UpLaid`, `DownLaid`).  `Loose` and `Rises` say how far the order
holds meanwhile; the second half of each, that the children of the place are in
order with its parent, is what makes them inductive.  A removal sinks the last
timer from the free place and lets it rise from where it stopped; `RemoveLaid` needs
both, as the last timer may be earlier than the parent of that place.

`Nested` says where the calls of `liteco_eloop_timer_active` are, and that none has
looked at a later time than the clock's.  `Wants` says why a timer that the program
waits for may be outside the heap: it has an interval and its callback runs, so that
it comes back; for this a timer with an interval that was not stopped must be
wanted.  `Armed` holds before the wait begins what `SleepsUntilEarliest` says during
it: Linux's timerfd is armed for the earliest timeout in user code already, except
between its event and the callback that reads it.

Assumptions are those named in the modules: the sets of actors are disjoint, the
capacities are natural numbers, only coroutines make calls that block, an element
is not NULL (`ElemAssumption`); the cases of a select name channels; for `Udp`,
descriptor numbers are a finite set of naturals, `Nil` and `App` differ from all
else, and bounds are natural numbers; for `Timer`, `Nil` is no timer, and delays and
periods are natural numbers.

Model-checked only:

* liveness (`ImplementsAsyncSpec` as a whole, `ReadyRuns`, `CloseReleases`,
  `EverythingRead`, `DueRuns`), which the proof system does not reach; every safety
  property of a passing run is proved.

## 7. Not modelled

* Context switches, stacks, the assembly: atomic steps of the models.
* `liteco_chan_destory`: correct only if nobody uses the channel any more,
  including woken coroutines that have yet to lock it; the code does not say who
  may call it.
* Channels whose coroutines belong to different runtimes: one runtime per model.
* A select of no case at all, which sleeps for good when it may block.
* Selects on several threads, or two selects that meet: the model has them, the
  instances do not.  Two that meet on a channel without a buffer refuse each other
  for ever, and two that take their mutexes in opposite orders can stop each other.
* Two timers in Linux's heap: undefined behaviour, section 3.  A wall clock that is
  set back (`gettimeofday` on Darwin).  Timer channels beyond their callback, which
  is an unenforceable push.
* Io handlers stopped with some of their events, which no caller does; a socket
  closed twice or freed early, which the code does not exclude and the model's
  program does not do; `sendto`, which changes no state of the library, and the
  contents and addresses of datagrams.
* Trees `mon` and `reg` of more than three nodes, whose lost keys `rbt_order` shows.
* Streams and pipes: not built on Linux, and complete only for Darwin.  Darwin but for
  its timers: `lc_io.c` is the same but for a field nobody reads, kqueue's `EV_CLEAR`
  is an edge-triggered report, and a pipe takes the place of the eventfd.
* A failed `malloc` whose result is written through (`lc_runtime.c:100`): the
  program ends there.
