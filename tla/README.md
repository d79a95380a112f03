# Idio in TLA+

Idio is a shell-like language: a reader and a compiler to byte code, a virtual
machine, a memory manager, and, written in Idio itself, job control.  This
directory models the parts of it whose correctness depends on the order in
which things happen, checks them with TLC on small instances, and proves some of
what TLC checks for every instance with the TLA+ proof system.

File names without a directory are those of `src/src/`; `job-control.idio` is
`src/lib/job-control.idio`.

## 1. The system

There is one operating system thread.  What makes it concurrent are signals,
which the VM notices after every instruction, child processes, and the collector,
which runs between instructions.  Non-local exits (conditions, escapes, aborts,
continuations) leave work half done.

| Component | State | Operations | What is hard | What makes it correct |
|---|---|---|---|---|
| Memory manager, `gc.c` | the lists `used`, `free`, `weak`, `grey`; colours; roots; weak hash tables; the finalizer table; counters, `pause` | `idio_gc_get`, protect, expose, register and deregister finalizers, pause, resume, collect, final collection | marking through weak tables and substrings; finalizers called from three places; the state left for the next collection | nothing reachable is freed; nothing dangles; every finalizer runs once, and on garbage; the counters agree with the lists |
| Job control, `job-control.idio`, `job-control.c` | `%idio-jobs`, the process and job structs, `%idio-stray-pids` | launch a pipeline or one process, wait, notify, continue, stop, hang up | the SIGCHLD handler runs on top of anything, itself included; `waitpid` is called in two places; a list is read and assigned later | no status is lost; no job is forgotten; failures are raised; waits end |
| Arrays, `array.c` | allocated and used size, slots, default value | set, push, pop, shift, unshift, fill, copy, duplicate | growth at the limit; moves through the bounds check; arrays double as stacks of threads, cut and put back by escapes and continuations | the array is the vector its elements make |
| Virtual machine, `vm.c`, `thread.c`, `continuation.c` | registers, stack, the trap, dynamic and abort chains on it, holes, recorded signals, the C activations of `idio_vm_run` | instructions, raise, abort, prompts, nested `idio_vm_run` | chains of stack positions that survive cuts of the stack; `siglongjmp` past C frames; the pause counter of the collector | wherever control comes from, the stack is the one the next instruction expects |
| Conditions, `condition.c`, `error.c` | the condition types, default handlers | raise, trap, reset | a handler runs with the next trap, on the raiser's stack | handlers are found in order, and none twice |
| Hash tables, `hash.c` | buckets, count, size, comparator and hashing function | put, delete, reference, merge, copy, resize | a put resizes, and a resize puts; a hashing function of the program runs the VM in the middle of either | one pair for a key, none lost, none freed |
| Poller, `libc-poll.c` | registrations, pollfd array, `in_use` | make, register, deregister, poll | EINTR with time left or none; registrations between polls that make the array out of date | a poll reports what is registered and ready; a poll with a time to wait ends; the poller can be used again |
| Handles, `handle.c`, `file-handle.c` | buffer, position, lookahead, flags | get, peek, put, flush, seek, close | lookahead against seek; EMFILE and a collection inside open | bytes come out in order, once |
| Allocator, `malloc.c` | power of two buckets | malloc, realloc, free | sizes at bucket limits | blocks are disjoint |
| Modules and symbols | exports, imports, value indexes | find, set, import | recursion through imports | one index for one binding |
| Reader, evaluator, expander, code generator | none that outlives a call | translate text to byte code | | a language semantics nobody wrote down |
| Numbers, strings, structs, bitsets, C types, libc wrappers, digests, extensions | values | sequential functions | | input against output |

How they interact:

- The VM asks the collector for a collection after an instruction (`vm.c:6640`),
  when whatever a primitive allocated can already be reached.
- The VM looks for recorded signals after every instruction and, for SIGCHLD, calls
  `do-job-notification` through a condition handler; so job control is
  interrupted by itself.
- A primitive that needs a function of the program (a hashing function, a walk, the
  evaluator) runs the VM again on the same stack; an error in it may leave the C
  function for good.
- Threads and continuations keep their stacks in arrays, and the VM its constants,
  symbols and values.
- Handles, processes and extension objects register finalizers; object
  properties live in weak tables.

## 2. The modules

| Module | What it is |
|---|---|
| `GC` | the memory manager |
| `MCGC` | finite instances of it |
| `GCProofs` | theorems about `GC` |
| `JobControl` | job control, with the children and the kernel's view of them |
| `MCJobControl` | finite instances of it |
| `JobControlProofs` | theorems about `JobControl` |
| `Vector` | what an array promises: an abstract specification |
| `Array` | `array.c`, with the refinement mapping to `Vector` |
| `MCArray` | finite instances of it |
| `ArrayProofs` | the inductive invariant of `Array`, what follows from it, and the proof that `Array` implements `Vector` |
| `VMStack` | the VM's stack: calls, traps, conditions, signals, prompts, ABORTs, nested runs |
| `MCVMStack` | finite instances of it |
| `VMStackLemmas` | lemmas about sequences used as stacks and about walks down chains |
| `VMStackProofs` | the inductive invariant of `VMStack` and what follows from it |
| `VMStackNesting` | the nesting invariant: what each piece of code finds on the stack, and what follows from it |
| `Dict` | what a hash table promises: an abstract specification |
| `Hash` | `hash.c`, with the refinement mapping to `Dict` |
| `MCHash` | finite instances of it |
| `HashProofs` | the inductive invariant of `Hash`, what follows from it, and the proof that `Hash` implements `Dict` |
| `Poller` | `libc-poll.c`, with poll(2) and the clock |
| `MCPoller` | a finite instance of it |
| `PollerProofs` | the inductive invariant of `Poller` and what follows from it |

A definition whose comment starts with "Faulty variant" is not part of any
specification.  It is how a plausible bug would look, and serves to see that the
property next to it in `PROJECT.json` can fail.

### 2.1 `GC`

A cell is an `idio_t`.  The lists are sets, since no behaviour depends on their
order; membership of `gc->grey` is the colour `LGREY`, because
`idio_gc_gcc_mark` and `idio_gc_process_grey` change both together.  `kind` keeps
what the marker distinguishes: compound types go on the grey list, others are black
at once, a substring marks its parent in the same call, and a C pointer is what
the finalizer table holds.

The mutator's actions are allocation from the free list or a new pool (`Alloc`,
`AllocSubstring`), stores (`Link`, `Unlink`, `WeakPut`), roots (`Protect`,
`Expose`), finalizers, `Pause` and `Resume`, the two ways to start a
collection, and shutdown.  The collector's actions follow
`idio_gc_collect`: one grey cell at a time (`ProcessGrey`), pass 1 and pass 2 of
`idio_gc_mark_weak` one entry at a time in any order (`WeakPass1`, `WeakPass2Keep`,
`WeakPass2Drop`), the cut of the free list (`Trim`), and the sweep one cell at a time
(`SweepKeep`, `SweepFree`).  The mutator stands still meanwhile; the steps are
separate because their order is free, and because a finalizer is looked up in the
middle of them.

Decisions worth knowing:

- The code scans the weak tables once in pass 1 although its comment speaks of
  a loop: the scan variable is `NULL` when the outer loop repeats.  `StartPass2` has
  what the code does; see finding 1.
- The weak list is not whitened at the start of a collection.  A weak table is white
  until its first collection, in which it is marked as an ordinary table, and black
  afterwards.  `strong` records that, for `OnlyReachableKept`.
- The key of a weak entry may be a fixnum or a constant (`Const`): `%set-property!` takes any value.
  Such an entry is passed over by both passes, so it is never dropped and its value is not marked
  (`WeakPass1`, `WeakPass2Pass`); see the end of section 4.  A program can always name a constant, so `Reachable`
  has the values of all of them.  `HeldOtherwise` says that each such value is also held by something else.
- A collection inside a primitive (`file-handle.c`, on EMFILE) is not in the model.
- A cell registers a finalizer once.  At shutdown the weak tables join the ordinary
  cells before the last collection.

### 2.2 `JobControl`

The shell is a stack of activations, the running one first.  Each has a position,
the lists it works through, and the status it took from `waitpid` and has not yet
marked.  `Interrupt` pushes a run of `do-job-notification` whenever SIGCHLD is
recorded; any other activation steps only when it is not (`Ready`).  The exception is
`waitpid`: the handler is installed with `SA_RESTART` and the primitive repeats on
EINTR, so a signal that comes while it blocks is looked at after it returns.
`news` is the kernel's list of changes not yet reported.

The windows the properties are about are separate steps: `waitpid` and
`mark-process-status`; the read of `%idio-jobs` (`List`, `AddRead`) and its
assignment (`WalkEnds`, `AddWrite`); the `reverse!` of a pipeline's list of processes and
the assignment of its result (`Reverse`, `SetProcs`); the test of `raised` and its assignment
(`Report`/`RaiseFailed`, `WaitDone`/`WaitRaise`); `mark-job-as-running` and the
SIGCONT; each fork of a pipeline.

Decisions worth knowing:

- A forked child that reads from the pgrp-pipe is blocked until the shell closes it
  (`Release`).  With process groups only the first child reads; without, all do.
- `reverse!` works in place.  From then until its result is assigned the job's field has
  the pair that was first in the list and is now last, so the job is `Shown` with its last process only
  to whatever handler runs.
- A condition handler returns or ends the program.  What is printed, terminal
  attributes, process substitution and `%idio-known-pids` are left out.
- `setup` is chosen at the start and stays: the pipelines, which jobs are started in
  the foreground, asynchronously, or raise when they fail, whether the shell is
  interactive, and the bounds.  `continue-job` chooses foreground or background again.

### 2.3 `Vector` and `Array`

`Array` has the two sizes and the slots.  `stack`, chosen at the start, says which use an
array is put to.
As data, or as a table of the VM, an array has every primitive, including the
VM's sets beyond the used size (`vm.c:9169`).  As the stack of a thread it is pushed
one or several values at a time, popped, changed within its used size, cut
by an escape or an abort, copied by `idio_continuation` and put back by
`idio_duplicate_array`.  A shift, an unshift and a push of several values are loops
over smaller steps; `op`, `at` and `arg` say where they are.

The mapping to `Vector` drops the allocation.  In the middle of an unshift, elements
from the index on are one slot further than they were, and in the middle of a shift
those before the index one slot back; `Elem0` undoes that, so a loop is a
stutter until it ends.  Both modules keep the last operation with its arguments and
its result (`call`, `out`), so an array cannot pass for a vector that did something
else.  Array-find and the conversions to lists only read and are left
out; so is a delimited continuation, which is a cut.

### 2.4 `VMStack`

The program counter is the sequence of instructions still to do in the current
activation, so a return frame or a continuation holds such a sequence.  `EXPR` is an
expression nobody has looked at yet; it expands to any of the forms whose code the
evaluator makes (`Value`, `Application`, of a closure or of what is no function, `TrapForm`, `DynamicForm`, `RaiseForm`,
`ReraiseForm`, `CallbackClosure`, `CallbackFails`, `LoadForm`), and the instructions of
that code are the actions that follow.  The cells one C function pushes together are one
frame of `stack`, and the "next" addresses are positions of frames.

Conditions are `Raise`: find the trap frame, push what the handler returns to, and
under it a copy of the next trap to run in the care of.  A signal's handler is the same,
entered by `Signal` between any two instructions, and saves every register.
`runs` are the C activations of `idio_vm_run`, one for each callback and each top-level
expression of a file being loaded, with the pause counter each found.  Restoring a
continuation brings back the run it was made in and leaves the later ones.

Decisions worth knowing:

- Traps name one condition type each.  A trap of several types is one frame per type in the code, so that a handler
  found through one of them runs under another of its own; the instances have no such trap.
- `FRAME` is the number of the activation it belongs to, and `regs` whose values the
  other registers hold and whether `FUNC` can be invoked: enough to see them mixed up.
- Unless interactive, `idio_vm_restore_all_state` refuses a `FUNC` that cannot be invoked (`Restorable`),
  puts back what it popped and raises an error no handler may return from.  `PopFunction` is
  how such a value comes to be in `FUNC`; signals, computed variables, SIGCHLD's own callback and the next
  expression of a file find it there.  The check is behind `RESTORE-ALL-STATE` (`RestoreAllStateFails`) and
  behind the end of every function C calls back (`InvokeCFails`, `CallbackFails`, `Notify`, `EvaluateFails`).
- With `CallbackErrors` an error raised in a C callback may meet a handler that returns a
  value; RETURN then goes back over the frames the C function pushed, and the VM panics.
  What should happen is stated nowhere; the runs leave it `FALSE`, and three theorems have that as their
  hypothesis.  An error after which no handler may return, as that of the check, is not restricted.
- What code will pop is `Wants`, worked out from its end: an instruction that pops adds its marker, one that
  pushes takes the same marker away.  `Nested` compares it with the frames that are there.
- A load inside a load leaves an ABORT of the evaluator's below the new file's.  Nothing looks
  for it: `find_abort_1` and `find_abort_2` start from the outermost.
- A state in which the VM has exited repeats itself (`Ended`).

### 2.5 `Dict` and `Hash`

`Hash` has one table with its buckets as sequences, the put or delete under way (`pc`), and
the merge, copy or alist->hash that puts one entry after another (`op`, `todo`).  A put or
a delete past its threshold goes to `Grow` or `Shrink`, which chooses the size as the loops of
`idio_hash_resize` do, from their exit conditions; `Reinsert` puts one old entry back with
the same `Put` and the same test of the load.  "nested" is where that test would resize
again, and "lost" where the code prints `LOST HASH ENTRIES` and exits; neither is
reachable, and that is a theorem.

A key stands for all keys equal to it; `HashOf` may give different keys the same value.  The order in
which old or merged entries come is left open.  A copy becomes the table of the model, and the
original waits in `orig` for the case that the copy is never finished.

With `UserHash` the table's hashing or comparing function is the program's own.  Then it may
raise a condition and not come back at any put (`Leave`), and the collector may run (`Collect`).
`Dict` allows for the first: pairs disappear, in a step that says so.  The second
is finding 5.

`Dict` is a set of pairs.  The mapping is what is on the new buckets, on the old ones, and
still to be copied.  As with arrays, the last operation and its result are part of both.

### 2.6 `Poller`

`Poller` has the table of registrations (`fd_map`), the array made from it (`fds`, as a set: no
behaviour depends on the order), the slots that were allocated for it, and `valid` and `in_use`.
The program registers, deregisters and polls; while a poll is under way only the kernel acts.  It
lets time pass (`Tick`), finds descriptors ready or the time over (`PollReturns`), interrupts
(`Interrupted`, a poll(2) with no time to wait as well) or fails (`PollFails`); after an interruption `PollAgain` works out what is left,
and time may pass before it does.  Time is counted in half milliseconds, because `tt` is finer
than the milliseconds poll(2) is given: what is left may round to 0.

- `idio_libc_poll_set_pollfds` sets `nfds` to the number of keys and then compares it with the number of
  keys (`libc-poll.c:133`), so the array stays as `make-poller` allocated it.  A descriptor beyond its slots
  is written past its end; what happens then is anything, and the model stops ("overrun").
- The returns at `libc-poll.c:410` and on an error leave `in_use` set.  The primitive cannot be
  entered twice, since one thread runs it and a signal's handler waits for it to end; so `in_use` never
  stops what it was meant for, and refuses only pollers that were left like this.
- A poll without a time to wait goes round for ever however many signals come, and no handler of
  the program runs until a descriptor is ready.  The comment at `libc-poll.c:342` can be read to
  expect otherwise.  `PollEnds` speaks of polls with a time only.

## 3. What TLC checks

Twelve runs; bounds are the constants of each `.cfg`.

| Run | Instance | Shows |
|---|---|---|
| `gc_heap` | three cells and the thread, two references each, all kinds, one more root, a pool of 2, the free list cut at 1, pause up to 1 | `ReachableInUse`, `OnlyReachableKept`, `FreeListCounted`, `TypeOK` through any sequence of collections |
| `gc_weak` | two cells and the thread, a weak table beside the finalizer table, two entries each, one constant that may be a key; behaviours are followed as long as `HeldOtherwise` holds | `NoDangling`, `FinalizerFound`, `FinalizedOnce`, `FinalizersAllRun`, shutdown included, and `CollectionEnds` |
| `gc_chain` | three cells, two weak tables | violation of `FinalizedIsGarbage`: finding 1 |
| `jc_jobs` | an interactive shell with a foreground and a background command, one stop, four nested handlers; and a script with a pipeline of two and an asynchronous command, three nested handlers | `ExitsRecorded`, `StopsRecorded`, `NothingMissed`, `NotForgotten`, `FailureRaised`, `TypeOK`, `WaitReturns` |
| `jc_hang` | interactive, one command each | violation of `WaitsForItsJob`: finding 2 |
| `jc_pipeline` | interactive, a pipeline of two | violation of `ExitsRecorded`: finding 3 |
| `array_ops` | two values; arrays of up to 5, made with 0 to 2, and stacks of up to 3 with two continuations kept; doubling below 2 | `TypeOK`, `SpareIsDefault`, `CopiesFit`, `IsVector` |
| `poller` | three descriptors, one of them under two names, made with up to two, two events and one that is always reported, waiting 0, 1 or 2 ms or for ever | `ReportsReady`, `FitsAsGiven`, `RefusedAfterFailure`, `PollEnds`, `TypeOK` |
| `vm_core` | nine mixes of forms, up to two signals, files of one or two expressions, stacks of 13 to 21 frames when an expression is entered | `WellNested`, `JumpsLive`, `ChainsDescend`, `FrameIsOwn`, `HandlerTransparent`, `InCareOfNext`, `TrapReturnHasPrompt`, `PauseBalanced`, `TypeOK`, `TopLevelEnds` |
| `vm_trapreturn` | traps and raises | violation of `TrapReturnsFromOwnTrap`: finding 4 |
| `hash_table` | five keys, three of which always collide and a fourth at small sizes, two values, tables of 1 and 128 to start with, merges and alists of two pairs, a hashing function of the program | `CountsEntries`, `NeverNested`, `Steady`, `IsDict`, `TypeOK` |
| `hash_freed` | the same | violation of `EntriesLive`: finding 5 |

Why the bounds are enough.  Three cells, the thread and two weak tables hold a chain of
two weak entries whose end has a finalizer, the shortest that tells one scan of pass 1 from two.  A pool of 2 and a
limit of 1 make the free list grow, run dry and be cut.  Two exits, one
stop and one continue are the SIGCHLDs of the interactive shell of `jc_jobs`, as many as handlers may be on top
of each other there, and three exits those of its script: `maxDepth` never
cuts a behaviour short.  The growth step
(1024 in the code) is 2 in `array_ops`, so arrays reach both branches of
`idio_resize_array`.  Two continuations are the fewest of which one can be
put back and make the other too long.  In `vm_core` a stack of 12 frames is inside a trap, 16
inside its handler, and 21 in the handler of a trap within a trap; the mixes put
each form under a trap and a signal into each of them.  A value that is no function takes one frame more
(17), and a second expression in a file is the first that can find the `FUNC` of another.  Five keys take a table of 1 slot to
4 and 16, and one of 128 back to 16, where four times the halved size decides, and to 8,
where the minimum does.  `hash_table` uses symmetry: the three keys that collide are
alike, and so are the values; the hashing function treats them alike, and all its properties are
about single states and steps.  In `poller` three descriptors are one more than
an array can be made for, and 2 ms are interrupted in every way: before and after the first of them
is over, with half of one left, and too late.

`gc_weak` has a `CONSTRAINT`, `HeldOtherwise`: TLC does not go on from a state in which only the entry of
a constant key holds its value, so what it shows, `CollectionEnds` too, is about `Spec /\ []HeldOtherwise`, as the
theorems of `GCProofs` are.  `gc_heap` and `gc_chain` have no constants.

Fairness.  `gc_weak` assumes weak fairness of the collector: `idio_gc_collect` is
one C call that loops until it is done.  `jc_jobs` and `jc_hang` assume weak fairness of the
shell, which keeps executing instructions and looks for signals after each;
`jc_jobs` also that every running child ends, an assumption about the
children, without which no wait can be promised (`WaitReturns` speaks of the setups whose
children are not stopped).  `jc_hang` does without it.  `vm_core` assumes weak
fairness of `Machine`, the VM's loop; signals come or do not.  `poller` assumes that time passes and that the process
gets to run after an interruption, and strong fairness of poll(2) coming back when its time is over: one with no
time to wait may be interrupted too, but not each time for ever.  Interruptions before the time is over need not
stop.

## 4. Findings

1. **`gc_chain`.** `idio_gc_mark_weak` says it repeats its first pass until no more
   values are marked (`gc.c:1180`).  It scans the tables once.  With entries `a -> b` and `b -> c` in a
   table, where only `a` is in use and `c` has a finalizer, a scan that meets
   `b` first leaves `b` to be marked after it.  Pass 2 then finds `b` black and marks `c`, but may have met `c`'s
   own entry before, when `c` was white, or meet it while `c` is grey: it drops that entry and runs `c`'s
   finalizer, while `c` stays in use.  What is in use is not freed by this: `ReachableInUse` and `NoDangling`
   are proved with this order of steps.
2. **`jc_hang`.** `wait-for-job` calls `waitpid` before it looks at its job
   (`job-control.idio:693`).  If the handler has just collected the job's last exit, the
   call waits for another job's child.  With a stopped foreground job that nobody
   continues, the cause and the effect are the same.
3. **`jc_pipeline`.** The template puts a process on the job's own list before the
   fork, so that a signal about it finds an entry, but the job itself on
   `%idio-jobs` only after the last fork (`job-control.idio:1820`).  With
   process groups the second child does not wait for that.  If it exits before, its
   status goes to `%idio-stray-pids`, and the job never completes.
4. **`vm_trapreturn`.** Every `trap` makes its prompt with the one `trap-return-tag`, and
   `trap-return` unwinds to the topmost hole with that tag
   (`lib/bootstrap/delim-control.idio:202`).  If the body of an inner trap raises what only
   the outer trap handles, the inner trap's hole is still there when the outer handler runs, so its
   `trap-return` returns from the inner trap.  The documentation says it returns from
   the trap the handler belongs to.
5. **`hash_freed`.** `idio_hash_resize` (`hash.c:506`) puts the entries of the old buckets back
   one by one; the old buckets are known to a C local only.  With a hashing function of the program
   each of these puts runs the VM, and the VM's loop the collector (`vm.c:6644`), which
   marks the table's new buckets.  Keys and values on the old ones are freed and then
   put back.  A copy takes care to protect its table for the same reason (`hash.c:272`).

Three more places where the code does not do what its texts lead one to expect are in the models, and are the
reason for conditions that properties and theorems carry.  They have no run of their own.

- **Constant keys** (`gc.c:1204`, `gc.c:1278`).  Both passes over the weak tables skip an entry whose key is a
  fixnum or a constant.  The value of such a key is then marked only while the table
  is still white, in its first collection.  In a later one a value nothing else holds is freed, and the entry
  refers to the freed cell.  `%set-property!` puts such entries in `idio_properties_hash`: the type it
  asks for is any value but `#n` (`symbol.c:730`).  So `ReachableInUse` and `NoDangling` hold of behaviours in which
  something else holds these values (`HeldOtherwise`); `gc_weak` without its `CONSTRAINT` shows `NoDangling`
  violated.
- **`reverse!` of a list in use** (`job-control.idio:1824`).  The list of a pipeline's processes is built last process
  first and turned round in place when the job is on `%idio-jobs` already.  Until the result
  is assigned the job's field has the old first pair, and so the last process only.  With
  process groups that process may exit just then.  The handler finds every process it can see completed, says so,
  and takes the job off the list while its first process has not even been let go.  `NotForgotten`, checked with
  the `.cfg` of `jc_pipeline`, shows it; `jc_jobs` and the theorem are about jobs whose children wait.
- **A signal after `POP-FUNCTION`** (`vm.c:1049`).  `#f 10` puts `#f` in `FUNC` one instruction before anything checks
  that it can be invoked.  In a script a signal that comes there runs its handler, and `RESTORE-ALL-STATE` then finds the
  `#f` it saved and raises `^rt-parameter-value-error`, without a way back to what was interrupted.  The
  comment on signals (`vm.c:3041`) wants "the clock back where it was".  So `HandlerTransparent` is about the
  handlers that do go back.  What was popped is put back, so the stack is
  as the handlers of that error expect: `WellNested` holds all the same.

## 5. What is proved

For every value of the constants that satisfies `GCAssumption` (finitely many cells, the
tables are not ordinary cells, constants are no cells, the pool is not empty):

- `IInvInvariant`: the inductive invariant of `GC`, a conjunction of named parts.
  `TypeOK` and `Lists` (disjoint, counted lists).  `Cells` (what a cell of each kind
  and on each list looks like).  `Closed`: until the sweep starts whatever a
  cell or a weak entry refers to is in use.  `TriColour`: while marking, a black cell
  refers to no white one, and roots are not white; that is why what is white when the
  sweep starts cannot be reached.  `Sweeping`: what the sweep has still to visit, and
  that freed cells are only white ones, to which nothing left refers.  `Finalizers`:
  a flag that is set has its entry, and counts the calls.  None of the safety
  properties is inductive alone: `ReachableInUse` speaks of a fixed point, which follows
  from `Closed` until the sweep, and from `TriColour` and `Sweeping` during it.
- `TypeCorrect`, `ReachableSafe`, `DanglingSafe`, `FreeListSafe`, `FinalizersFound`,
  `FinalizersOnce` and `FinalizersRun` follow from it.  All of them are about
  `Spec /\ []HeldOtherwise`: a value that only the entry of a constant key holds is freed, and
  with a freed cell referred to nothing of `Closed` is left.  `CellKeysSafe` says that without constants among the keys
  no condition is needed: `HeldOtherwise` is then true.
- `KeptSafe`: nothing unreachable outlives a collection.  `Keeps(S)` says that a set of cells
  contains the roots and whatever its cells and the entries of weak tables oblige it to
  contain; what the property calls kept is the least such set.  The invariant
  `Justified` says that what is marked is in every such set, so no fixed point has to be computed;
  `TablesRooted` and `StrongFirst` (a weak table in its first collection marks its keys
  before any pass over it) are what the passes need.

For every set of values, indexes and sizes, every growth step and both uses of arrays
(`ArrayAssumption`):

- `IInvInvariant` of `ArrayProofs`: `TypeOK`, the state of the loop under way
  (`LoopOK`), `SpareIsDefault` and `CopiesFit`.  `LoopOK` is what makes it inductive:
  the index of a loop is inside the used size, so each small step is within bounds.
- `TypeCorrect`, `SpareDefault`, `CopiesAlwaysFit`.
- `Refines`: `Spec => IsVector`.  `StoreIsPut` shows that the shared
  code of `idio_array_insert_index` sets one element and makes those before it;
  it needs `SpareIsDefault` for the elements between.  Each loop step leaves the mapped
  elements alone (`ShiftOneSame`, `UnshiftOneSame`, `PushGrowSame`), and each last
  step is the abstract operation.

For every set of keys and values, every hashing function and every size, whether or not the
hashing function is the program's (`HashAssumption`: hash values and sizes are natural numbers,
sizes are not 0):

- `Invariance`: the inductive invariant of `Hash`.  `Sound`: each entry is in the bucket its key
  hashes to at the present size, no key twice, and the count is the number of entries.
  `OnTheMove`: what has still to be put back or copied is not there yet, has no key twice, and
  makes up the count the resize found, which is below the limit of the new size; this
  last part is what rules out a nested resize.  `Loads`: the limits between operations.
- `PutFacts` and `UnlinkFacts` say what `idio_hash_put` and `idio_hash_delete` do to the set of
  entries and to its size; every step that changes the buckets goes through one of them.
- `TypeCorrect`, `AlwaysCounted`, `ResizesOnce`, `SteadyTables` follow.
- `Refines`: `Spec => IsDict`.

For all jobs, processes and setups, any number of stops and any depth of handlers on top of each
other (`JobControlProofs`):

- `Typed`: `TypeOK`, what each activation's fields say, that all activations but the bottom one are
  handlers, and `OneEnd`: an end is in one place only, the kernel, one activation or its job.
- `NothingForgotten`, which says `Spec => [](ChildrenWait => NotForgotten)`, from `KeptOnLists`: a started job with
  processes left is on `%idio-jobs` and on every list an activation will assign to it.  Several handlers
  may walk old copies of the list at once; each copy is still long enough.  Where every child waits, no process
  of a job has completed while it is shown with its last process only; where one does not, `NotForgotten` fails (end of section 4).
- `FailuresRaised`, of all setups, from `FailuresFound`: a
  failure not raised yet has an activation that has it in hand or will come to it.
- `ExitsAreRecorded`, `StopsAreRecorded` and `NoneMissed` say `Spec => [](ChildrenWait => ...)`: where
  every child waits until its job is listed, no status is lost.  `ChildrenWait` holds of all jobs of
  one process, and of all pipelines of shells without process groups; `jc_pipeline` shows the
  rest is false (finding 3).  `Signalled` carries the argument: a change not reported is signalled, or the
  loop of some `update-status` is still going to ask for it.

For all handles, descriptors, times to wait and sizes (`PollerProofs`):

- `IInvInvariant`: a valid array has exactly the registered descriptors with what is asked of them,
  an array is valid during a call, and no round waits longer than the one before.
  `TypeCorrect`, `ReportsAll`, `Fits`, `Refusals` follow.

For all handlers, condition types, trap expressions, variables and bounds, so for stacks of any depth, any
number of signals and any mix of forms, with errors in callbacks as with
none (`VMStackAssumption`: handlers are not the base handlers):

- `IInvInvariant` of `VMStackProofs`.  `Sound` relates the stack, the code that runs, the holes and
  the C runs.  Every hole has its prompt's end on the stack and every prompt's end its hole,
  in the same order; every run has its FINISH address, where it found the stack.  Code at an
  address `Fits`: it ends by leaving, code with a `trap-return` or a `PUSH-TRAP` has a prompt
  below it, and code with a `POP-ABORT` a run.  A continuation is of the stack below the position
  it was made at, with the holes and the runs that are below.  None of
  the properties is inductive alone: that a run's FINISH address is still there when a continuation
  comes back needs to know that the continuation's stack is a lower part of the present one.
- The proof has few ways to change a stack.  `Cut`, `Drop` and `Back` are about what is left of a sound
  stack, `Grow` about one more frame on it, `Restored` about a continuation, `RunEnds` about FINISH, and
  `RaiseSound` about a condition raised on any sound stack.  Each action is one or two of these.
  `main`'s own continuation empties the stack, which is `Leaving`.
- `TypeCorrect`, `PauseSafe`, `TrapReturnSafe`, `ChainsSafe` and `JumpsSafe` follow.
- `InCareSafe` says `InCareOfNext` of programs whose trap expressions name one type each.
  Trap expressions are numbered by where they stand, and along the chain the numbers fall; a copy
  of a trap frame has the number and the next of what it copies.  `Cares` says that, and is preserved by
  cuts and pushes.  With two types the frame after a trap's upper one is its own, and the property fails.
- The walks down the stack (`Match`, `FindAbort1`, `FindAbort2`) are recursive functions.  That they exist
  and end where they may is proved in `VMStackLemmas` (`WalkExists`, `WalkEnds`), by taking the
  least position at which it would fail.

And for the same constants but with `CallbackErrors = FALSE` (`VMStackNesting`):

- `WellNestedSafe`, `FrameIsOwnSafe` and `HandlerTransparentSafe`.  `Sound` says what code may contain;
  these need to know which code stands at each address.  `NInv` adds `Settled`: `Deep`, for every
  frame, and `Runs`, for the code that runs.  Code at a position is of a few kinds.
  - `Activation`: a return frame is below, the frames above it carry the markers the code wants
    (`Takes`), its state frames hold the activation's own FRAME, and code that looks at FRAME either has it or
    restores it first.  The annotation `W` of `Takes` says what is wanted before each instruction, so a
    step moves one marker between code and stack and no recursion has to be unfolded.  `WantsIs` ties it to `Wants`.
  - `HandlerReturn`: above an address a condition was raised at stand what it saved and
    the next trap, and the code is one of the ways back (`Handling`, `Restoring`, `Returning`); the registers saved
    are those the address remembers, which is `HandlerTransparent`.  Where the check of `FUNC` fails there is no
    way back: what was saved stays under the address of the new error, which is then one of the `Doomed`.
  - `AtTop` and `AtFin`: a prompt's end stands where its hole can return, a FINISH on what C does next;
    `Called`, `Main`, `Starts` and `Evaluator` are C's own.
- `Doomed` and `Abandoned` are addresses that nothing may go back to: of an error in C over the frames C pushed,
  of a condition a base handler raises on the way, and of the error that the check of `FUNC` raises.  The invariant says that the handlers above them
  unwind.  That is where `CallbackErrors = FALSE` is used, in `ErrorMeets` alone: with `TRUE` a handler may return there,
  and the panic that follows is what the code does (`vm.c:1838`).
- Why it is kept: each part is about the stack below its position, so frames below a push or a cut stay as
  they are (`AgreeBack`, `DeepFirst`, `DeepAppend`), and each action has a lemma of its own for the code and the frames
  it makes (`ExpandNests` to `InvokeCDoneNests`, collected in `NestsStep`).  `RaiseNests` is the common one for
  conditions and signals.  `HoleContinues` and `AbortContinues` say that what a hole or an ABORT
  restores is an activation of the stack it restores, also for `find_abort_2`.
- `WellNested` also covers the continuations.  `NestedParts` makes a nested stack of its
  parts, for the present one and for each that may be restored.

What proofs found: the time left of a poll was said to be at most the time to wait, and is up to half a
millisecond more when time passes before the subtraction; an instance of the VM's bounds was
typed by its members instead of a set, which is not inductive over signals; `Wants` only counted pushes, so an
activation that pushes one marker and pops another was taken for a nested one.

Only model-checked:

- `TopLevelEnds`, `PollEnds`, `CollectionEnds` and `WaitReturns`, since the prover has no liveness under fairness.
- The findings, which are counterexamples.

Every safety invariant and action property of the passing runs has a theorem.

## 6. What is not modelled

`PROJECT.json` lists every component with the reason.  In short: the reader, the compiler
and the library are translations whose correctness is about a language semantics
the project does not have; numbers, strings and data types are sequential
functions; wrappers and digests are generated or foreign.

Of the virtual machine: arithmetic, variable and arity instructions, the debugger, several threads,
`unwind-protect`, delimited continuations beyond the prompts of `trap` and the REPL, escapers (which nothing
creates), traps of several condition types, `call/cc` kept beyond the C run it
was made in, and the thread of the expander.  Of hash tables: `hash-update!`, `hash-walk` and
`fold-hash`, which are references, calls of the program and puts one after the other; a comparing function
that changes the table it is called for; keys mutated after they were put; weak tables
are in `GC`.  Of pollers: `select`, which keeps nothing between calls, and
what a `make-poller` that raises leaves behind.  `Handles` has hazards of its own, listed in `PROJECT.json`.

## 7. Plan

What would come next, in this order:

1. `VMStack`: several condition types in a trap.
2. `FileHandle`: buffer, lookahead and seek as a refinement of a byte stream.
3. `Shutdown`: hang-up and termination of jobs at exit, processes the program forks
   itself.
