# A verification development for wasip1-threads-skia-webgl

The repository runs a Rust program, with the tokio runtime and the Skia
renderer, as `wasm32-wasip1-threads` in a browser: threads are web workers, GL
calls go to WebGL 2. What is special about it is the seam between the three: a
thread library whose threads are made by a message to the page, and C-style
bindings (object names, arrays in memory, `setjmp`) kept by JavaScript tables.
The models here are about that seam, about the part of tokio that stands on it
(the blocking pool, on whose threads everything else of the runtime runs, the
multi_thread scheduler and the task state machine), and about the part of Skia
that keeps the GL objects alive, its resource cache.

## 1. Inventory

| Component | Source | State | Operations |
|---|---|---|---|
| Blocking pool | `tokio/tokio/src/runtime/blocking/{pool,shutdown}.rs` | `Shared` and the metrics under one mutex, a condition variable, the join handles, a shutdown channel | `spawn_task`, `Inner::run`, `shutdown` |
| Browser host | `on-browser/src/{main,main-worker,thread-worker}.ts`, `importObject.ts:3-62` | a FIFO port per worker, the shared tid counter | `thread-spawn`, the `onmessage` handlers |
| tokio on the host | the two above, `scheduler/multi_thread/worker.rs:444-450` | both | a pool thread is created by `thread-spawn` and runs on a worker |
| `setjmp` emulation | `importObject.ts:65-187` | `setjmpId`, `tempRet0`, a table in wasm memory | `saveSetjmp`, `testSetjmp` |
| GL object names | `envGl.ts:15-46` and the gen/delete/bind calls | a Map and a counter per kind, `memoryView` | `glGen*`, `glDelete*`, `glBind*` |
| GL programs | `envGl.ts:20-48` and the program calls | `programInfos`, `currentProgramInfo` | `glCreateProgram` ... `glUniform*` |
| GL pixel uploads | `getSizePerPixel.ts`, `envGl.ts:179-218, 320-322` | WebGL's pixel store | `glPixelStorei`, `glTexSubImage2D` |
| Run queues | `scheduler/multi_thread/queue.rs` | a ring buffer and two packed indices per worker, the injection queue | push, overflow, pop, steal, refill |
| multi_thread scheduler | `scheduler/multi_thread/{worker,idle,park,handle}.rs`, `task/list.rs` | cores, LIFO slots, idle set, parkers, the driver's lock, the list of tasks | the worker loop, notification, `block_in_place`, spawn, close |
| Task state machine | `runtime/task/{state,harness,join}.rs` | one packed word per task, its output, its join waker | poll, wake, abort, shutdown, join, drop |
| GPU resource cache | Skia's `GrResourceCache.{cpp,h}`, `GrGpuResource.{cpp,h}` | reference counts, a purgeable queue, an array, two maps, counters, two inboxes | register, ref and unref, find, keys, budget types, purges, tear-down |
| GL shaders, queries, strings | `envGl.ts:50-147, 279-470` | `webglShaderMap`, `stringCache` | not modelled |
| Synchronization primitives | `sync/*` | | not modelled |
| Drivers, current_thread, other tokio crates | | | not modelled: not run by this program |
| `namui-runtime-wasm/src/main.rs` | | none | a straight-line demonstration, plus `_malloc`/`_free` over an external allocator |
| The rest of Skia, rust-skia, depot_tools, `convert_wasm.sh` | | | vendored, build scripts |

How they interact. The main worker runs `main` inside `Runtime::block_on`. The
runtime starts one task of the blocking pool per scheduler core; `spawn_task`
creates a thread when none is idle; `thread::Builder::spawn` ends in the import
`wasi.thread-spawn`, which takes a tid and posts a message; the page makes a
worker for the message; the worker instantiates the module on the shared memory
and calls `wasi_thread_start`, which runs the closure the pool passed. Skia, in
the main worker, calls the GL imports; C++ and C code that uses `setjmp` calls
the `setjmp` imports; both read and write the shared memory that every thread
may grow. A scheduler worker is a task of the blocking pool that holds its
thread until the shutdown, unless a task blocks in place: then its core goes to a
new task of the pool. Skia's context asks its resource cache before it makes a GL
object, and the cache deletes GL objects to keep to its budget.

What is hard: the pool's counters are changed by two parties and steer whether
a thread is woken or made; timeouts, spurious wakeups and refused threads race
with notifications and with a shutdown; a thread exists by the pool's books
before anything can run it; calls fail halfway through a loop; two copies of one
state (the binding's and WebGL's) must stay in step; workers look for work,
sleep and are woken without a common lock; a task's word is changed by whoever
polls, wakes, aborts, joins or drops it; in the cache, a purge drops references
whose last one purges again. `PROJECT.json` lists each
hazard at its line under `hazards`.

What makes each correct: no accepted task is stranded, no wakeup lost, no thread
outlives a shutdown that waits (pool); distinct tids and one worker per thread,
running its own start argument (host); a blocking task runs and a shutdown waits
for tasks only (together); a `longjmp` resumes where its `setjmp` was last made
(`setjmp`); tables, WebGL and program agree on the objects and a name is never
reused (names); an upload sets the uniform that was meant (programs); WebGL gets
every byte of an image, and an upload throws only for want of memory (pixels); each task is taken from the queues once and in
order (run queues); a notified task is polled, a finished one is heard of, and a
shutdown ends (scheduler); one actor at a time touches a task's future, output
and waker, and its memory goes with the last reference (task); lists, maps and
counters agree, unreferenced resources stay within the budget and nothing in use
is taken out (cache).

## 2. Modules

| Module | What it is |
|---|---|
| `TaskPool` | the abstract pool: a FIFO of tasks, at most `ThreadCap` running |
| `BlockingPool` | the pool as coded; implements `TaskPool` |
| `BlockingPool_proofs` | its inductive invariant, counters and wakeups; where its tasks and join handles are: complete shutdown, refinement |
| `WasiThreads`, `WasiThreads_proofs` | the browser host, its tids and workers |
| `WasmRuntime`, `WasmRuntime_proofs` | `BlockingPool` and `WasiThreads` composed |
| `SetjmpTable`, `SetjmpTable_proofs` | the `setjmp` table |
| `GlPrograms`, `GlPrograms_proofs` | programs and uniform locations |
| `GlNames` | object names of the GL binding |
| `PixelUpload` | the pixel store and the size of an upload, against what WebGL reads; run beside `GlNames` |
| `GlNames_proofs` | both of these: a context and its pixel store |
| `RunQueues` | the abstract run queues: FIFOs, from which tasks are taken all at once |
| `StealQueue`, `StealQueue_proofs` | the ring buffers as coded, one atomic access at a time; implements `RunQueues` |
| `TaskState` | the transitions of a task's word |
| `Scheduler`, `Scheduler_proofs` | workers, parkers, shutdown and tasks, over `TaskState`, with local queues that are FIFOs as in `RunQueues` |
| `ResourceCache` | Skia's resource cache |
| `MC*` | model values, symmetry for TLC |

`MCX.tla` with `X.cfg` checks module `X`. A definition marked "Mutant of D" in a
module is a plausible bug of D; the property it breaks is in `PROJECT.json`.

### BlockingPool

Every field of `Shared` and every write of the metrics happens under
`Inner::shared`, so one action is one critical section: from a lock to the next
unlock or to the wait. The value of `pc[t]` says where a thread is between
two sections; in particular `woken` and `timedout` are threads that have left
`wait_timeout` and want the lock, `waiting` ones sleep. `LeaveWait` is a timeout
or a spurious wakeup, `NotifyOne` chooses any sleeper. A task that calls
`spawn_blocking` needs no action of its own: `Spawn` is always possible.
`SpawnFails` has the two outcomes the code tells apart. The exit sequence, the
drain loop and the handle chain of timed-out threads (`join_on_thread`) are
modelled as they are, the extra `inc_num_idle_threads` of the shutdown branch
included. The assertion `shutdown_tx.is_some()` (pool.rs:411) is the guard
`shutdown_tx` of `SpawnThread` and `SpawnFails`; it always holds there, since
`shutdown_tx` is cleared together with the flag.
`WaitTimesOut` stands for `shutdown_timeout` and `shutdown_background`.

The relaxed loads of the metrics outside the lock are only made by the metrics
API and are left out. Hooks (`after_start`, `before_stop`) are taken to return.

### WasiThreads and WasmRuntime

One action per event-loop turn or per settled promise. `mainPort` is the port
between the main worker and the page; `unheard` is what thread workers post to
the page, on ports for which `main.ts` sets no handler. In `WasmRuntime`,
`SpawnThread` of the pool happens together with `thread-spawn` of the host, with
the pool thread as start argument, and a pool thread takes a step only when a
worker hosts it. The variable `happens`, fixed in the initial state, says what else
can occur: tasks on pool threads spawn too, workers fail, threads are refused. `Schedulers`
are the tasks that are scheduler workers: they end only at shutdown.

### SetjmpTable

The compiled function owns table and size; `saveSetjmp` calls itself per growth
and one action is one level. Memory from `malloc` holds arbitrary entries, so a
new table is any function from slots to entries. `Uint32Array` drops a write
past its end, which is what `WithNextSlot` says of the last slot. The view a
level makes has the `size` it was given (importObject.ts:132-141). When the new
table of a growth is full of garbage and grows again, the caller hears of the
first growth only (`Answer`), and from then on holds a table longer than its
size: `Free` and `WithNextSlot` look at `size` slots, not at the table.

### GlNames, GlPrograms, PixelUpload

`GlNames` is one machine for five kinds of object, since the code of each has
the same shape; where kinds differ (0 may unbind, `glBindRenderbuffer` is
missing) `ZeroUnbinds` and `CanBind` say so. A thrown exception unwinds out of
the wasm program and ends it: `running`. `memoryView` is made once, on the
initial buffer; after a growth an array may lie in part beyond it: `Reach`.

`GlPrograms` keeps the binding's state beside WebGL's and a client that uses an
id only for the program it believes in use. `PixelUpload` has the pixel store of
the context as its state and asks, in every state of it, for every upload a
program may make, in 8 bit arithmetic instead of 32 (`Half` is 128) so that the sign bit is within
reach; the reference it is compared with (`Stride`, `ImageBytes`) is written
from the rules of OpenGL ES and WebGL 2, not from the table. No request is left
out: a row may be longer than memory, as `UNPACK_ROW_LENGTH` makes it, and longer
than 2^32 bytes. The parameters of the pixel store are the four that say where a
2D image lies in memory: alignment, row length, skipped pixels, skipped rows. WebGL 2
itself refuses skipped pixels that leave a row too short (`PastRow`), so they never
make a view too short; skipped rows do. The two share a context, and a run.

### RunQueues and StealQueue

One step of `StealQueue` is one atomic access of a head or a tail, one access of
a slot, or one critical section of the injection queue. `pc[w]` names the access
that comes next, `at[w]` holds the locals: the head that was loaded, how many
tasks are being moved. Memory is sequentially consistent in the model; the
Acquire and Release orderings are not checked. The abstract queue of a worker is
what lies between `real` and the tail of its buffer; `moving` is what it has in
hand, which for a stealer is in part still in the victim's buffer. The
assertions of the code set `panicked`. `Pushers` are the workers whose tasks
schedule tasks.

Indices wrap at `Indices`. The code's are of 32 bits (16 without 64-bit atomics)
"to increase ABA resilience" (queue.rs:11): a stealer that sleeps between loading
a head and its compare-exchange, while the head goes once round, succeeds with a
stale head. `NotLapped` is the bound that leaves this out: a worker starts
nothing that adds to its queue when that could take the tail a full circle
beyond a head that a stealer holds. Nothing else bounds how often indices wrap.

### TaskState and Scheduler

`TaskState` has the word of a task and one operator per transition of
`state.rs`, with the action it returns to its caller. `Scheduler` has three kinds
of actors: the threads of the blocking pool, the main thread, and a source of
events on a further thread. `th[a].pc` is the place in the code, with what the
actor has in hand (`core`, `task`, the worker it is to unpark, where it goes on).
A step is one access to what actors share: the word, a queue, the idle set's
word, its mutex, a parker's state. A local queue's operations are single steps,
which is what `StealQueue` shows; the header names the other steps that are joined
and why nothing can come between. The driver is a lock and a token: whoever parks
on it is unparked by `Unpark` or by an event that wakes a task.

`Habits` are what a program may do besides spawning tasks that end or wait; each
program of `MCScheduler` has some of them, a number of workers and tasks, and
a budget for waking, registering and blocking. A thread of the pool stands by for
every core handed over.

Left out: deferred wakers (`yield_now`), the cap on LIFO polls, tracing, metrics,
panics in a poll, local queue overflow (few tasks; see `StealQueue`).

### ResourceCache

The cache belongs to one thread, so an action is a whole call, with everything it
causes: `Notify` (the last reference is gone) may release a resource, which drops
its attachment, whose last reference is notified in turn. The handlers are
therefore operators from a cache to a cache, recursive as in the code. Other
threads only post to the two inboxes. `recency`, an auxiliary variable, is the
order of use that the timestamps stand for. What the client may do is fixed per
behaviour: change the limit, make unbudgeted resources, wrap objects, attach, post, and which unique keys it has.

Three calls have a guard that the code does not check but asserts or takes for
granted: `Attach` wants a budgeted attachment without a scratch key, which is
what GrAttachment.cpp:97-107 makes; `SetUniqueKey` is not called for a key whose
holder is an unreferenced scratch resource, since `changeUniqueKey` would take a
reference from zero (GrResourceCache.cpp:264, against the assertion of
GrGpuResource.h:51); and once `releaseAll` or `abandonAll` was called a client
only drops what it holds.

Left out: command-buffer usages, which the GL backend does not take, so that no
resource waits for a flush; the thread-safe cache of recording contexts, taken to
be empty; statistics and dumps.

## 3. Runs

`PROJECT.json` gives every run a sentence. A run checks the safety and the
liveness of its module together, so no symmetry is declared where liveness is.

| Run (distinct states) | Result | Bounds | Shows |
|---|---|---|---|
| `BlockingPool` (33231) | holds | 3 threads, cap 2, 3 tasks, 1 mandatory | accounting, wakeups, cap, complete shutdown, refinement of `TaskPool`, tasks resolved, shutdown returns |
| `WasiThreads` (3366) | holds | 3 spawns, 2 start arguments | tids, one worker per spawn, spawned threads start |
| `WasmRuntime` (224542) | holds | 3 threads, cap 2, a scheduler, a mandatory task and another; three cases, below | no thread runs twice, nothing stranded, tasks run, shutdown waits for tasks only |
| `WasmRuntimeNestedTask` | violated | 2 threads, 2 tasks, nested spawns | finding 1 |
| `SetjmpTable` (4626076) | holds | 3 calls on a table of 3 slots, and of 1 that grows to 4 | a saved `jmp_buf` is found, the size stays within the table |
| `SetjmpTableGrowth` | violated | 2 calls on a table of 1 slot | finding 2 |
| `GlNames` (306672) | holds | 2 kinds, 3 names, arrays of 2; the whole format table, 48 pixel stores, 8 bit | tables, WebGL and program agree, names are final; image sizes |
| `GlPrograms` (72346) | holds | 2 programs, 2 uniforms, 2 links | current program, uniform uploads |
| `StealQueue` (767013) | holds | 3 workers, 1 pusher, buffers of 4, indices modulo 8, 5 tasks | assertions, no racing write, refinement of `RunQueues` |
| `Scheduler` (237677) | holds | 2 workers or 1, 2 tasks or 1, ten programs | references, exclusive access, no wakeup lost, shutdown ends |
| `ResourceCache` (453623) | holds | 2 resources and every habit, 3 with some, 2 with two unique keys; limits 1 and 3; timestamps modulo 4 | accounting, budget, recency, headroom, nothing in use taken |
| `ResourceCachePurgeBytes` | violated | 2 resources | finding 3 |

`WasmRuntime` chooses in its initial state which happenings the behaviour has:
none, refused threads, or nested spawns with failing workers.
`NoThreadRunsTwice` is claimed of all of them; the others are claimed of
the cases their definitions name, since the code does not keep them beyond.

Why the bounds are enough. Pool: with a cap of 2 and a third thread to spare a
thread can time out, be joined by another that times out, and be replaced, while
a task waits at the cap or comes after the shutdown. Three tasks make each of
the three threads; a fourth was tried once (402053 states) and showed nothing
else. The proofs remove the bound for all but liveness. Host: three spawns give two concurrent loads and a third, possibly
nested, spawn. `setjmp`: a table that grows twice in one call is the longest
chain of levels that behaves differently from a longer one. Names: arrays of two
have a first and a last element, duplicates, and a failure between them.
Programs: two share a uniform id, two links make one stale. Pixels: 8 bit
operands put rows on both sides of the sign bit, and a row length of 70 puts some
beyond 2 * `Half`, where they wrap to a length that memory has. Run queues: five pushes on a
buffer of four overflow it, starting at index 6 they wrap the indices, and two
thieves contend for one victim and for each other's loot. Scheduler: the
protocols of parking and searching are between two workers, and between a worker
and one other actor; with three workers two could meet at one victim, which is
left to `StealQueue`. Cache: the second resource of two is the attachment, the
holder of the contended key or the next victim; a limit of 1 makes the resource
of size 2 exceed it alone, and four timestamps wrap
within a few uses. Two keys let a resource go from one to the other, for a client
that also changes limits and posts.
`CHECK_DEADLOCK FALSE` is set where the system may stop: everything resolved and
shut down, or the program ended.

Fairness. Pool: each thread that can take a step eventually does (the operating
system schedules it, the mutex is granted, tasks end, which spawn_blocking asks
of its closures), and the owner goes on when what it waits for has happened. No
fairness on spawning, on shutting down, on timeouts or on failures. Host: event
loops turn and promises settle one way or the other. Nothing is assumed of the
program itself. In `WasmRuntime` a thread is assumed to run only while it is
hosted, and a task that is a scheduler worker does not end before the shutdown.
Scheduler: threads take their steps, a poll returns, and the main thread and the
source finish a call they have begun; nothing is assumed to be begun, no event to
come and no sleeper to wake by itself. `NoWakeupLost` and `ShutdownFinishes` have
the form "always eventually": programs are bounded, so a behaviour in which the
condition fails from some point on is one that has lost something.

## 4. Findings

1. `WasmRuntimeNestedTask`: a blocking task spawned on a pool thread, which is
   where every async task of a multi_thread runtime runs, may never run although
   there is room under the cap (task/blocking.rs:91): the page listens to the
   main worker only (main.ts:17). Such a thread also keeps its shutdown sender,
   so a shutdown without a timeout then waits for it forever.
2. `SetjmpTableGrowth`: `free` and `malloc` in place of the quoted `realloc`
   (importObject.ts:119) lose the saved entries.
3. `ResourceCachePurgeBytes`: `max(0, fBytes - bytesToPurge)` is computed on
   `size_t` (GrResourceCache.cpp:593). A request for more bytes than the cache
   has wraps, and nothing is purged, where the doc promises that everything
   unlocked is (GrResourceCache.h:193).

Observations without a run of their own.

Pool: pool.rs:137 and 433 say there is no thread to take the task, but the arm is
also reached with threads in the pool, on any error but `WouldBlock`; the task
stays queued and may run, and `spawn_mandatory_blocking` then returns `None`,
which its doc (pool.rs:192-194) reserves for a shutdown. Each thread that a
shutdown wakes by `notify_all` leaves `num_idle_threads` one too high, as
pool.rs:564 undoes a decrement that only a notification makes (pool.rs:574 calls
the count exact; the models show only that it does not wrap). After a temporary
error of thread creation the "currently busy thread" of pool.rs:429 may be a
scheduler worker that never returns to the queue, which is why
`BlockingTaskRunsRegularly` leaves that case out. The first tid is 0.

Pixels: `computeUnpackAlignedImageSize` counts neither skipped rows nor skipped
pixels, while `glPixelStorei` passes both on (envGl.ts:320-322). With
`UNPACK_SKIP_ROWS` set every view of an image is too short, and WebGL refuses the
upload: `ShortOnlyForSkippedRows` says that this is the only reason while a row is
shorter than 2^32 bytes. Longer rows are wrapped by `&` (getSizePerPixel.ts:211): with
`UNPACK_ROW_LENGTH` 2^30, RGBA and height 1 the length is 0, whatever the width. The
property says nothing of them.

GL: `glBindBuffer(0)`, `glBindSampler(0)`, `glDelete*` of 0 and `glUniform*` of
-1 throw where GL ignores or unbinds; a relink leaves stale locations cached;
`glGetIntegerv(GL_NUM_EXTENSIONS)` reads the arity of `getSupportedExtensions`
(envGl.ts:77); the upload wants the padding of the last row, which GL does not;
`RG` and the `*_INTEGER` formats are not in the table; `_free` deallocates with a
layout of size 0.

Cache: a purge by bytes lowers `fMaxBytes` for its duration, and compares the
budgeted bytes with a limit made from all bytes, so that unbudgeted resources end
it early; references it takes from the inbox meanwhile are judged by that limit,
which is why `KeptWithinBudget` leaves these steps out. The calls excluded from
the model (above) are ones after which an assertion of a debug build fails.

## 5. Proofs

Every safety invariant and action property of the runs of `BlockingPool`,
`WasiThreads`, `WasmRuntime`, `SetjmpTable`, `GlPrograms`, `StealQueue`,
`Scheduler`, `GlNames` and `PixelUpload` is a theorem, and so are the two
refinements. They hold for every value of the constants, from the named
assumptions of the modules only: `Threads` and `Workers` are finite, the cap is
positive, model values lie outside the sets they complement, there are no more
spawns than tids (`MaxSpawns <= TidSpace`; a page does not live to make 2^32
workers), the capacity of a buffer is even and divides the number of indices,
which is larger (256 and 2^32 in the code), the workers and tasks of a client are
among those of the model. The bounds that a guard states stay
part of the model, `NotLapped` of `StealQueue` among them. In each module
`Invariant` is the theorem that the inductive invariant holds.

**BlockingPool_proofs.** `IInv` is `TypeOK`, `Phase` (shutdown flag, owner and
sender move together), `IdleAccounting`, `NoLostWakeup`, `ThreadAccounting` and
`NoStrandedTask`, each proved preserved by every action, over lemmas on how one
thread's move changes the cardinalities of the sets `In(S)`. The parts need
each other: that `num_threads` does not wrap needs that it counts the live
threads; that `num_idle_threads` does not wrap needs `IdleAccounting` with
`NoLostWakeup`; that a promised wakeup is honoured needs that a thread with
`num_notify # 0` cannot time out.

The second half adds to `IInv` where things are. `TaskInv`: a task
is in the queue, once, and queued; or in the hand of one thread, and running;
or neither, and what its state says. `JoinInv`: the handle of every thread that
is alive or ending is with the owner (in `worker_threads` or in what it still
joins), or is `last_exiting_thread`, or is the one that a thread in turn waits
for before it ends. The last case is what makes `ShutdownComplete` hold: the owner joins
the head of a chain of threads that timed out, each of which joins the one
before it. `Implements` maps a task of the pool to the task of `TaskPool` in the
same state and goes through the steps: all but the taking, ending and dropping
of tasks and the two ways of spawning are stutters.

**WasiThreads_proofs.** `TidsUnique` follows from `Counted`: the n-th call got
tid n - 1, and the counter is the number of calls modulo the space.
`ExactlyOneWorkerPerSpawn` follows from the order of the port: the messages that
the workers were made for, followed by those still on the port, are those of
the main worker's calls, in the order of the calls. A call's place in that
order is its rank among the main worker's.

**WasmRuntime_proofs.** `PoolWithin` and `HostWithin` show that every step of
the composition is, for the pool's variables, a step of the pool or none, and
likewise for the host. So every safety theorem of either holds of the
composition, and what remains is what relates the two. `Hosting`: a
thread the pool has made has one call of `thread-spawn` with it as start
argument, at most one message or worker, and the place of that worker bounds how
far the thread can have come. `NoThreadRunsTwice` is one half of it.
`NoTaskStrandedByHost` needs `Reached` as well: in the regular course only the
main worker spawns, and no worker fails, so every thread that was made is hosted
or will be; with the pool's `NoStrandedTask` the task has a thread that can run.

**SetjmpTable_proofs.** `Sizes` says what the caller and each level of a call know of
the length of the table, and that a view never ends beyond it. `Entries`
holds until a growth: the slots in use come before the first free one, their ids
are distinct and no greater than `setjmpId`, and each saved `jmp_buf` is in one of
them with its label. Whatever the memory held behind the first free slot is never
looked at, as each save that fills a slot frees the next, or the view is full. `testSetjmp`
stops at the first match, which distinct ids make the only one.

**GlNames_proofs.** `TypeOK`, `TablesMatchGl` and `ClientHoldsNames` are
inductive together: that names in use are below the counter makes a new one
fresh, that the program holds what the table has says what a failing call can
strand, and the table loses the names of what WebGL deletes. `NamesAreFinal` is
an action property that follows from `TypeOK`. The image sizes are proved for any
sets of widths, heights, row lengths and skips and any sign bit beyond the memory that
is a multiple of the alignments, as in the code (2^31 against 2^30): each row of
the table has the size that OpenGL ES says; below 2 * `Half` the mask rounds up to the
alignment, and from `Half` on gives a negative length, which no view has; so a view has
all the rows from its first on, which is all of the image unless rows are skipped.
Rows from `Half` on are ones that no memory has, whatever their length came to, so
that an upload of them that throws is due (`ThrowsAreDue`, for every row).

**GlPrograms_proofs.** `InfoOK`: the three Maps of a program agree, with ids 1, 2
and so on, each name under its own id, each location obtained from that program
after a link. `GivenOK`: what the client holds are ids of the table. `InUse`: the
binding's current program is WebGL's and the client's, or the use was of a program
the binding does not know. From these `Landed` is preserved: an upload that went
wrong was refused, for a location cached before the program's last link.

**StealQueue_proofs.** `IInv`: the indices of each queue are in order,
`steal`, `real`, tail, within a capacity of each other (`Ordered`); what a worker
loaded of its own queue is still so but for what thieves took (`OwnKnown`); what a
thief loaded of a victim is behind the victim by less than a circle, and after
its compare-exchange `steal` is where it was (`VictimKnown`); a queue has at most
one reader (`OneReader`); nothing has panicked. `NoRacingWrite` follows, as
owner and thief know disjoint intervals; the slots written are those of a push, of a
steal into the queue and of a refill from the injection queue. The arithmetic modulo `Indices` is in
lemmas at the head of the module, with the quotient obtained as the least
natural that does. `Implements` strengthens it to `RInv`: a task between two
queues is in the hand of one call (`Held`), and a call has done what its place
says: the slot behind the tail is written, the loot is copied (`Progress`). The
argument is that writes go to slots that are free (`Free`), which neither a queue
nor a reader's loot contains, so that they keep both; that the compare-exchange of
a head is the abstract `Take`, and the store of a tail the abstract push, refill
or the keeping of stolen tasks; and that all other accesses stutter. The attempt to prove this with a bound on the pushes
alone failed at the stealer's compare-exchange, and showed that such a bound hides
the stale head that `NotLapped` now speaks of.

**Scheduler_proofs.** `Inv` has four parts. `ActorsFit`: what an actor carries
(core, task, what it does next) is what its place needs. `QueuesTyped`.
`CoresPlaced`: the core of each worker of the program is with one thread, in the
slot that `block_in_place` left it in, or handed in for the shutdown. `TaskInv`,
for each task: the count of its word is the sum of its owner's reference, the
handle, the wakers, the Notifieds in queues and hands, and the references in other
hands, with one Notified at most, and the notified bit set if there is one
(`Balanced`); the place of each actor that has the task agrees with its word
(`Agrees`: who polls finds it running, not complete and without a Notified, who
reads the output finds it complete, who writes the waker finds the waker's bit
clear); one actor runs it; and its output waits for the one who joins (`Waits`).

Every step is a step of one actor that touches at most one task, so the proof has
one lemma for such a step (`Touch`): the actor goes from one place to another,
which changes by so many the references in its hands (`Moves`), the task
becomes another, or is freed (`Becomes`), and the new word is balanced again and suits the
actor's new place and every other actor that has the task (`Suits`). An action then has to show
that its transition of `TaskState` does what the change of places asks for. Steps that
move Notifieds between queues and hands leave their number alone, which the lemmas
on the occurrences of a task in sequences at the head of the module show, for
stealing half a queue as well. The first attempt had in `Waits` only that a
complete task with join interest has its output stored. That is not inductive:
the completing thread and the handle each decide by the join interest who drops the
output, so the invariant has to say that a held handle means join interest, until
`drop_join_handle_slow` has cleared it and only the reference is left to drop.

From `Inv`, `RefsMatch` is `Balanced` with the references counted by the set of
their holders, and `ExclusiveAccess` follows from `Agrees`: of a runner, a
completing thread and the joining main thread, the word lets two be at the
task's cells only where they touch different ones.

### Only model-checked

* Liveness: `AcceptedResolved`, `ShutdownReturns`, `SpawnedByMainStarts`,
  `BlockingTaskRunsRegularly`, `ShutdownWaitsOnlyForTasks`, `NoWakeupLost`,
  `ShutdownFinishes`. They rest on fairness, whose `ENABLED` the prover does not
  handle.
* `ResourceCache` (`Accounting`, `RecencyKept`, `HeadroomAllOrNothing`,
  `KeptWithinBudget`, `InUseStaysCached`): its handlers call each other
  recursively, as in the code, and its counters are sums over sets; the prover
  can do neither recursive operators nor the induction both need.

## 6. Plan

Done: the modules above, and the proofs of all but `ResourceCache`. Next, by
importance:

1. **Composition**: `Scheduler` on `BlockingPool`, in place of the threads that
   stand by; then on the host.
2. **oneshot**: the shutdown channel, in place of the assumed one.

### Not modelled

* GL shaders, queries and strings: conversions of bytes and strings with little
  state. Draw calls and fixed state forward to WebGL and keep none.
* tokio's synchronization primitives: the program uses none but the pool's
  oneshot. Its drivers: no timer is used and WASI gives the build no I/O driver.
  `current_thread` and the companion crates are not linked.
* The rest of Skia, which is nearly all of the lines of this repository:
  rasterizers, shader compilers, codecs, text, back ends this program does not
  build, benches and slides. It is vendored, mostly sequential computation on
  large data, and the program is a client of it.
* `namui-runtime-wasm`: straight-line code. Build scripts.
