# TLA+ models of the ECEC353 examples

The repository is a teaching corpus of small, independent C programs.
There is no single system.
The programs cover thread synchronisation (barbers, barriers,
producer/consumer, signalling, cancellation) and processes that cooperate
through pipes, shared memory, sockets, signals and the terminal.
`spec.md` describes the synchronisation part as a toolkit:
a mutex+predicate guard (§4.1), a counting semaphore (§4.2), a bounded
queue (§4.3), a cyclic barrier (§4.4) and the sleeping-barber composition
(§4.5).

This directory models the programs that have concurrency, as they are
written, and checks them with TLC.
There is one module per program, or per family of programs that share their
code.
`PROJECT.json` lists every component, modelled or not, with its sources.
For each definition that models code, its "map" gives the source lines.

## 1. Parts of the system and how they interact

* **Threads of one process.**
  Threads share memory and synchronise with:
  * POSIX semaphores (the barbers, the semaphore barrier, the signalling programs);
  * mutexes and condition variables (the CV barrier, producer/consumer, signalling, the countdown homework, the dot product, the counters, lock ordering);
  * cancellation (the cancellation programs);
  * joins, and the lifetime of argument memory (thread creation).
* **Processes.**
  Processes cooperate through:
  * pipes (TELL/WAIT, the pipe barrier, `ls | wc`, the add2 coprocess) and a named pipe (the `ipc` half-duplex server and its clients);
  * System V shared memory with semaphores (the reader/writer transfer, the client/server);
  * POSIX shared memory (a mapping shared over fork; a named object left by one program for another);
  * signals (the SIGCHLD reaper, the foreground-group programs, a sigwait thread, a handler that `siglongjmp`s back into main, an alarm that interrupts a prime search masked around each step);
  * the terminal's foreground process group (`pgroups/`);
  * a job table kept by a shell (`projects/pssh/pssh_v2`);
  * UNIX-domain sockets: an iterative stream server that copies each client's stdin to its stdout, and a datagram server that sends back each datagram in upper case.

  Programs "run from another shell" are separate processes that start at any time.

## 2. Modules

Conventions:

* Every thread or process is a program counter.
* One action is one call that changes shared state, with its guard from the code's conditions and early returns.
* Local computation, `printf` and sleeps are folded into the neighbouring step or left to the interleaving.
* A semaphore is a natural number.
* A mutex is its holder, or `NoThread`.
* `pthread_cond_wait` is split:
  * it releases the mutex and moves the thread to `"wait"`;
  * a signal or broadcast moves the thread to `"relock"`;
  * from `"relock"` it reacquires the mutex.

  A spurious wakeup is a move from `"wait"` to `"relock"` with no signal.
* A `++` on shared memory without a lock is a load and a store.
* A pending signal is a bit: it does not queue.
  A handler runs with its signal masked.

| Module | Source (under `src/`) | State and actions |
|---|---|---|
| `SleepingBarber` | `code_examples/thr/sleeping_barber.c` | The four semaphores, `done_with_all_customers`, one pc per customer, barber and main. There is one action per semaphore call, plus the barber's flag check and main's joins. |
| `BarberShop` | `.../sync/sem/02-sleeping_barber.c` | The shop's semaphores, `empty` and `destroyed`. `barbershop_create` includes its argument checks; `barbershop_destroy` destroys the semaphores while the barber, never joined, may still wait. |
| `CyclicBarrier` | (abstract, spec §4.4) | `iter[t]` and `arrived[t]`. `Cross(t)` is enabled only when all threads have reached round `iter[t]`. |
| `BarrierCV`, `BarrierSem` | `thr/barrier_synchronization_with_*.c` | `barrier_sync` and `my_thread` loops, with one action per lock, semaphore or condition call; `BarrierCV` also has `SpuriousWakeup`. Each refines `CyclicBarrier` under `iter <- i`, with a thread counted as arrived from its `counter++` until it leaves. |
| `ProducerConsumerCV`, `PCSpin` | `.../mutex/05-pc_cv.c`, `04-pc_bad.c` | The non-blocking pipe is a bounded sequence of capacity `PipeCap`, with `avail`, `producers` and the mutex. A failed write on a full pipe changes nothing. The consumer drains in a loop; in `05-pc_cv.c` it waits on the condition, and in `04-pc_bad.c` it polls. |
| `SignallingSem`, `SignallingCV` | `thr/signalling_using_*.c`, `.../sem/01-signaling_semaphore.c`, `.../mutex/03-simple_cv.c` | The value, semaphore or condition, and the mutex. Versions differ in an `if` or a `while` around the wait, in signal or broadcast, and in the chained signal. |
| `VectorDot` | `thr/vector_dot_product_v2.c` | `compute_gold` is a `RECURSIVE` operator. `Chunk(num, nt, k)` is a thread's index range, and `Product(i) = (MaxThreads+1)^i` makes a sum tell how often each index was added. |
| `SharedCounter`, `LockOrder`, `Countdown` | `.../mutex/01-*`, `example.c`, `pthread_add.c`, `02-deadlock.c`, `homework/solution.c` | Counters are updated under a mutex, as a load and a store, or atomically. `02-deadlock.c` has two lock orders. In the countdown, detached workers write results and signal, while main waits, frees `threads` and sums. |
| `Cancellation` | `.../threads/3-cancel_deferred.c`, `4-cancel-async.c`, `5-cancel_cleanup.c`, `thr/deferred_cancellation_v1.c` | Cancel state and type, the pending request, cancellation points, the cleanup stack, `malloc` failure, and main's cancel and join. |
| `ThreadCreate` | `.../threads/1-simple.c`, `thr/simple_thread.c`, `custom_thread.c`, `thr/multiple_threads.c` | The argument memory each thread reads (stack frame, clone stack, heap) and when it is freed. It covers creation failure, joins and waits, the shared increments, `pthread_exit` of main and the end of the process. |
| `TellWait`, `PipeBarrier`, `CharAtATime` | `pipes/sync_with_pipes.c`, `pipes/barrier_sync_with_pipes.c`, `thr_sync/race.c`, `no_race.c` | A pipe is the bytes in it, and a read blocks until a byte arrives or no write end is open. Also modelled: `message.txt`'s three states, the set of write-end holders, and `putc` to one unbuffered stdout. |
| `ShmTransfer` | `shm/reader_writer_systemV/*` | The segment and the two binary semaphores. A zero-length block is end of file. A `semop` on a removed set fails, and the reader may start at any time. |
| `ShmClientServer` | `shm/SystemV/sv_xfr.c`, `sem_ops.c`, `src/shm/SystemV/cl_xfr.c` (`server_code.c` and `client_code.c` are copies) | The server and concurrent clients of one segment and one semaphore. A client's two stores are separate steps, and the segment an earlier run left behind is modelled. `semaphore_id` holds `create_semaphore`'s TRUE, so the `IPC_RMID` of line 97 removes SEM_KEY's semaphore only if the kernel gave it id 1. `ServerExit` takes either outcome, and `Init` may start with a left-over semaphore holding a V. |
| `PosixShm` | `src/shm/posix/sv_xfr.c`, `shm/posix/cl_xfr.c` | The named object: `name`, each object's size and the two fields of `struct msg`. Any number of server and client runs may overlap. The server's steps are `shm_open` with `O_EXCL`, `ftruncate`, and the two stores; the client's are open, read (SIGBUS on a zero-length object) and `shm_unlink` by name. |
| `ForkShm` | `.../ipc/4-shared_memory.c`, `src/shm/posix/simple_shm_example.c`, `ipc/shared_memory.c` | The mapping is unchecked: a failed map faults at the first store. Then come the parent's writes, the fork and its failure, the child's loop, `wait`, and the parent's prints. Only `4-shared_memory.c`'s child prints the items (`ChildPrints`). |
| `PipeDup` | `.../ipc/2-pipes-dup.c` | Each process's descriptors 0, 1, 3 and 4. `close` and `dup2` can fail with EBADF; `execlp` can fail, and the child then falls through into the parent's code. ls can die of SIGPIPE, and wc reads until end of file. |
| `CoProcess` | `pipes/simple_co_process.c`, `add2.c` | Two pipes, the child's `dup2`s, `execl` and its failure, add2's single read and single write, and the parent's write of `strlen` bytes. An empty argument writes nothing. |
| `SigChld` | `signals/5-sigchld.c` | The fork loop, and children exiting in any order. SIGCHLD is pending without queueing, masked during the handler, and the handler loops on `waitpid(WNOHANG)`. |
| `Foreground` | `.../pgroups/1-foreground.c`, `2-sigttou.c`, `3-pause.c` | The terminal's foreground group `fg`, its `tostop` mode, and both `setpgid` calls. `set_fg_pgid` fails for a group that is gone. Also modelled: the `child_dead` pause loop, the handler's `waitpid` loop over stop, continue and exit, and `safe_print`'s two hand-overs of the terminal. Main's "HI MOM!" comes from the background: under `tostop` it stops main in `2-sigttou.c` and enters `handler_sigttou` in `3-pause.c`. The user sends up to two stop, continue or kill signals. |
| `SignalThread` | `thr/signal_handler_thread.c`, `.../signals/7-thread.c` | Main blocks every signal and creates the sigwait thread, which inherits the mask. A signal is fatal while some thread does not block it, and pending otherwise. |
| `PsshJobs` | `.../pssh/pssh_v2/jobs.c`, `builtin.c` | The table `J` of `MAX_JOBS` records (name, pids, npids, pgrp, status), beside the kernel's processes (`pstate`, `pgid`). The `jobs.c` functions are operators on a table, so that a step can compose them as the caller does. The actions are the builtins `bg`, `fg`, `kill %n` and `kill pid`, and three actions of the environment (see below). |

| `SigJmp` | `.../signals/6-sigsetjmp.c` | Main's position `pc` through `malloc`, `memset`, `signal`, `sigsetjmp`, each step of `do_calculation`, the `siglongjmp` to NORMAL, the sum loop, the print, `free` and `exit`; the buffer and whether it is live or freed; the totals printed. A Ctrl-C (up to `MaxSigs`) can come between any two steps: it kills the process before `signal`, crashes it through the zeroed `env` before `sigsetjmp`, and after that jumps to the CTRLC case, which restarts the sum. Fresh and freed memory may hold `Junk`; a second `free` aborts. |
| `StreamXfr` | `sockets/us_xfr_server.c`, `code_examples/sockets/us_xfr_client.c` | The name `/tmp/us_xfr` (`path`: the socket of the server run that bound it, or none; it outlives a killed server), each server's listen queue, accepted connection and stdout, and each client's position, the bytes it has read from stdin and the bytes its connection holds. Server: `remove`, `bind` (exit if the name exists again), `listen`, `accept`, the read loop to EOF writing to stdout, `close`. Client: `connect` (fails with no listening socket at the name, waits while the queue holds more than `BACKLOG`), reads of stdin of any size up to `BUF_SIZE`, `write` (SIGPIPE once the server has closed its end), exit at EOF. A Ctrl-C can end any started process. `acc`, the clients each server accepted in order, is a history variable for the property. |
| `DgramUcase` | `code_examples/sockets/ud_ucase_server.c`, `ud_ucase_client.c` | The name `/tmp/ud_ucase`, the datagrams queued at each socket, the server's `buf`, `num_bytes` and `claddr`, and each client's position, argument index, pathname and printed responses. Server: `remove`, `bind`, `recvfrom` (cut to `BUF_SIZE`) with the in-place `toupper`, `sendto` the sender (exit on ENOENT or ECONNREFUSED). Client: `bind` its own pathname, then per argument `sendto` the server (exit on failure) and `recvfrom`, then `remove`. `buf` starts as `Junk`. A Ctrl-C can end any started process, leaving its pathname behind. |
| `Primes` | `code_examples/shackleford/src/signals/sol/primes.c` | main's position, `try`, `num_found`, `primes[]`, whether SIGALRM is blocked, armed or pending, and the reports printed. `is_prime` is a RECURSIVE operator for its odd-divisor loop. `report()` computes its start index with the unsigned wrap of `num_found-5` at `Width` bits. Actions: `Start` (sigsetjmp returns 0, `signal`, main's own call of `handler`), `Report`, `Loop`, `Block`, `Test`, `Store`, `Inc`, `Unblock` (a pending alarm is delivered there), and `Alarm` (pending while blocked, otherwise the handler's `alarm(5)` and `siglongjmp`). The jump restores the empty mask. The value of `try` after it is the constant `TryRestored`, because the C standard leaves it indeterminate. |
| `HalfDuplexFifo` | `code_examples/ipc/server_code.c`, `ipc/client_code.c` | The name `/tmp/half_duplex_2` (`path`: the FIFO of the server run that made it, or none), the bytes each FIFO holds, and each run's position and descriptor. Server: handler install, `mkfifo` (exit if the name exists), `open` for reading, one `read` of at most `MAX_BUFFER_SIZE` bytes, `unlink`, `exit`; the handler unlinks and exits. Client: `open` for writing, `write`, `exit`. An open waits for the other end, fails with no FIFO at the name, and keeps the FIFO it resolved. A write with no reader raises SIGPIPE. |

`pssh.c`, which holds the shell's main loop and its SIGCHLD handling, is not
in the repository.
`PsshJobs` therefore gives the library an environment:

* `Launch`: the shell forks a pipeline into a new group and calls `job_add` before any child can be reaped.
* `Reap`: the shell reaps a child, then calls `job_remove_pid`, and calls `job_delete` once `job_is_done`.
* `Exit`: a process exits by itself.

The kernel hands out a pid only when it is neither in use nor the id of a
group that still has members.
Signals have their default actions.

## 3. MC modules: one program per behaviour

Programs that answer the same kind of question share one MC module, which
is a disjoint sum:

* A variable `prog`, chosen in `Init`, names the program that the behaviour runs.
* The other programs' variables keep their initial values.
* Each property is stated of its own program (`prog = "x" => ...`), or of a set of programs that share variables.
* Fairness is asserted of a program's actions only when that program runs, with that program's own variables as the subscript.

There is one exception. A refinement property (`[][A]_v`) cannot sit under
an implication in TLC, so it is stated unguarded. It holds in the other
programs' behaviours, because there its variables only stutter.

The MC modules:

* **`MCBarbers`**: the two barber programs, the CV and semaphore barriers with their refinements, the two socket client/server pairs (`xfr` and `ucase`), and `primes` (signals/sol/primes.c, which sits here because the violation its mutant must produce lies deep in the search, and `MCSignalling`'s larger state space takes minutes to reach it).
* **`MCMutex`**:
  * the dot product;
  * four counter programs;
  * lock order;
  * the countdown;
  * the four cancellation programs;
  * both producer/consumer programs;
  * the four thread-creation programs.
* **`MCSignalling`**:
  * the signalling programs;
  * pipes;
  * shared memory;
  * `pipedup`;
  * `sigchld`;
  * the fork/shared-memory programs;
  * `coproc`;
  * the three pgroups programs;
  * `posixshm`;
  * `sigthread`;
  * `pssh`;
  * `sigjmp`;
  * `fifo`.
* **`MCBarrierCV`, `MCBarrierSem`, `MCProducerConsumer`**: single programs, for violation runs that need other bounds or a spec with spurious wakeups.

## 4. Runs

| Run | Config | Expect | What it shows |
|---|---|---|---|
| barber | `MCBarbers.cfg` | pass | In both barber programs (3 customers, 2 chairs), the barber cuts only the one seated customer, each customer gets exactly one haircut, and the `thr` barber leaves last. The CV barrier (3 threads, 3 rounds) and the semaphore barrier (4 threads, 1 round) implement `CyclicBarrier`. Every program terminates. Each stream server's stdout is whole client streams in accept order, never mixed (`StreamsWhole`), and each datagram client prints the upper case of its own arguments (`RepliesMatch`). In `primes.c`, wherever the two alarms land, `primes[]` is the first `num_found` primes, each stored once, and every report lists the last five of them, or none before the fifth (`ReportsListPrimes`). The search also returns. |
| shop_destroy | `MCBarbersShopDestroy.cfg` | violation | `02-sleeping_barber.c` destroys a semaphore that the barber is blocked on. |
| barrier_cv_spurious | `MCBarrierCVSpurious.cfg` | violation | A spurious wakeup lets a thread leave `barrier_sync` early. |
| barrier_sem_reuse | `MCBarrierSemRefinement.cfg` | violation | Reused for 2 rounds, the semaphore barrier lets a thread take a post of the previous round. |
| pc_cv_pipe_full | `MCProducerConsumerPipeFull.cfg` | violation | When the pipe is full, a dropped write leaves the consumer of `05-pc_cv.c` waiting forever. |
| pc_spin_starve | `MCProducerConsumerSpinStarve.cfg` | violation | The polling consumer of `04-pc_bad.c` can keep a producer off the mutex forever. |
| signalling | `MCSignalling.cfg` | pass | See the list after this table. |
| sig_if_hang | `MCSignallingIfHang.cfg` | violation | `signalling_using_semaphores.c`: main relocks the mutex it holds. |
| sig_cv_spurious | `MCSignallingSpurious.cfg` | violation | With a spurious wakeup, the `if` of the v1/v2 waiters goes on with the value 0. |
| mutex | `MCMutex.cfg` | pass | See the list after this table. |
| shm_mixed | `MCSignallingShmMixed.cfg` | violation | Two System V clients' stores interleave, and the server prints one client's id with the other's string. |
| fg_hang | `MCSignallingFgHang.cfg` | violation | The child's exit is handled between main's test of `child_dead` and `pause()`, and main pauses forever. |

The signalling run checks these, among others:

* Waiters report the value only after it is set.
* The chained signal of `03-simple_cv.c` reaches all three waiters, even with spurious wakeups.
* The TELL/WAIT child reads the parent's message.
* The pipe barrier is crossed only after every child's work.
* `no_race.c` does not interleave its output.
* The System V reader writes exactly the writer's input.
* The System V server prints only what clients stored in this run. This holds even when the server starts with the segment, and usually the semaphore, of an earlier run: its `SETVAL 0` discards a V made on the left-over semaphore before it.
* `wc` counts every line `ls` writes, even on `execlp` failure.
* No zombie is left when main returns.
* After `wait`, the forked parent sees the child's values. In `4-shared_memory.c`, whose child prints each item, the child also sees the parent's values.
* The coprocess parent prints add2's sum.
* In the pgroups programs, while main waits in its `child_dead` loop and the child's group has a process, the terminal belongs to the child's group (`ChildKeepsTerminal`). Every report of a stop, continue or exit goes through `safe_print`, which hands the terminal to the parent for its `printf` and gives it back to the group it read first. The mutant reads the group after taking the terminal and leaves the terminal with the parent.
* No POSIX server run overwrites another run's message.
* Once no half-duplex FIFO server is running, no FIFO is left at `/tmp/half_duplex_2`, whatever the order of the server and client runs and wherever Ctrl-C stops a server. A stale FIFO would make every later server's `mkfifo` fail.
* A signal sent after the mask is never fatal to the sigwait programs, and is eventually taken.
* The pssh job table lists exactly the unreaped processes of each job's group, through exits, reaps and pid reuse.
* In `6-sigsetjmp.c`, whenever Ctrl-C interrupts the calculation or the sum, a total printed from the live buffer is the sum of the squares computed before the interrupt. The reference sum is the recursive operator `SquareSum`. This rests on the `memset` of line 79 and on the reset of `total` at each jump. Fresh pages from the kernel are zero, so a test would not notice a missing `memset`; the model's `malloc` may return `Junk`.
* `bg`, `fg` and `kill %n` signal only the processes that job n lists. This holds even after the entry is deleted and its stale `pgrp` has become another job's leader.
* No wake-up is lost in `01-signaling_semaphore.c` and the v1 and v2 condition-variable programs: every thread finishes (`WakeupTermination`).
* Each of these programs terminates where the code guarantees it.

The mutex run checks these:

* The dot product equals `compute_gold`. Its `Product` weights make the sum count each index, so the check also shows that the chunks partition the indices.
* The counter programs (`CounterResults`): the counter protected by the mutex is exact, the unprotected one stays within its bounds, `atomic_val` is exact and `race_val` is at least 2.
* `02-deadlock.c` never deadlocks.
* The countdown frees and sums only after every worker is done.
* Cancellation:
  * main's join always returns `PTHREAD_CANCELED`;
  * the cleanup handlers free the rows before the matrix;
  * an asynchronous cancel never acts inside `printf`.
* Both producer/consumer programs sum every unit exactly once (`SumComplete`).
* No thread reads argument memory that is gone.
* Every process ends.

Every property of a pass run has a mutant in `PROJECT.json`.
A mutant is a plausible bug in a mapped action, for example:

* a dropped guard, reset or `O_EXCL`;
* a missing post or signal;
* `signal` in place of `broadcast`;
* an off-by-one;
* a lock not taken, or a swapped lock order;
* a thread created before the mask;
* a join skipped.

TLC finds the property violated under each mutant.

### Findings

* **CV barrier** (`:94`).
  The comment says a thread woken by other events goes back to sleep.
  The loop re-waits only on an error return, so a spurious wakeup releases the thread early.
* **Semaphore barrier** (`:100`).
  The barrier is not reusable, although `main` reuses it.
* **05-pc_cv.c** (`:89`).
  The comment says "try again later", but a failed write is never retried, so the program hangs.
* **04-pc_bad.c** (`:136`).
  The header calls the spin only wasteful.
  With an unfair mutex it starves a producer forever.
* **02-sleeping_barber.c** (`:288`).
  The semaphores are destroyed while the barber is blocked on one.
* **signalling_using_semaphores.c** (`:51`).
  Main can lock the mutex it already holds.
* **signalling CV v1/v2** (`:76`).
  The wait is guarded by `if` instead of `while`.
* **02-deadlock.c** (`:39`).
  The comments promise a deadlock.
  Both types lock in the same order, and the run shows none.
* **System V `cl_xfr.c`** (`:52`).
  "Access is controlled using semaphores", but the semaphore only counts; clients' stores mix.
* **1-foreground.c** (`:129`).
  The test-then-`pause()` race loses the wake-up.
  `3-pause.c`'s `handler_sigttou` has the same pattern (line 87).

The following were noticed while modelling but are not the subject of a run:

* `1-pipes.c` prints the raw wait status (256), not the exit code.
* `2-detach.c` joins threads it has detached.
* `add2.c` writes `buffer[n]` with `n` up to the buffer's size.
* `src/shm/posix/sv_xfr.c` defines `struct msg` a second time after including `sv_cl_xfr.h`, which already defines it, so it does not compile as written. `PosixShm` models the evident intent.

## 5. Bounds, fairness, deadlock

### Bounds

The interesting cases need one more thread than a resource holds, or one
round more than the bug needs.
The bounds are chosen for that:

* The barber has 3 customers for 2 chairs.
* The semaphore barrier needs 2 rounds for a post to be stolen.
* The CV barrier has 3 threads, so that one can lap another.
* The pipe capacity is below the number of producers in the pipe-full run.
* The dot product is checked for every size up to 4 and every thread count up to 3.
* Each counter thread makes two updates, which is what brings `race_val` down to 2.
* The System V client/server has two clients.
* The POSIX pair has two server runs and two client runs: enough for a second server to meet an unread object, and for a client to unlink a newer one.
* The foreground programs get up to two signals from the user: a stop and a continue, or a kill.
* The sigwait programs get up to two signals: a merged duplicate, or SIGINT after another signal.
* The job table has two entries and three pids, with pipelines of up to two processes.
  Three pids are enough to fill the table, to reap a pipeline one member at a time, and to reuse a deleted job's `pgrp` as a later leader's pid in the other entry.

* `6-sigsetjmp.c` computes 3 squares and gets up to two Ctrl-Cs: one interrupts the calculation or the sum, and a second can interrupt the sum it restarts, or come after `free`.

* Each socket pair has two server runs, two client runs and one Ctrl-C. The stream clients send 1 and 3 bytes with `BUF_SIZE` 2, so a stream takes several reads and writes. `BACKLOG` 0 stands for 5, so a second connection finds the queue full. The datagram client `cl1` sends an argument of 3 bytes and then one of 1 byte, with `BUF_SIZE` 2: the first is cut, and `buf` still holds a byte of it when the second comes in. Two server runs are enough for the second one's `remove` to unlink the first one's socket, and for its `bind` to fail when the first binds in between.

* `primes.c` looks for 6 primes (up to 13) with a 5-bit `unsigned int` and gets up to two alarms. Reports happen before and after the fifth prime, so both branches of the wrap in `report()` are printed. An alarm can fall between the store and `try++`, and a second alarm can arrive while the first is pending or after the first jump.

* The half-duplex FIFO has two server runs, two client runs (of one and two bytes, with `MAX_BUFFER_SIZE` 2) and one Ctrl-C. That is enough for a client to come before any server, for a second server to meet an existing FIFO, for both strings to land in one read, and for a Ctrl-C at any point of either server.

### Fairness

* Each thread's or process's step has weak fairness, because the scheduler eventually runs every runnable thread.
* A thread blocked in a semaphore, lock or wait has no enabled step.
  A mutex promises no order among contenders, so fairness is weak, not strong.
* Spurious wakeups are allowed but never forced.
* The user's signals are never forced.
  The liveness properties of the pgroups programs assume that the user sends none.
* `primes.c`'s main has weak fairness. The alarm is never forced, and it fires at most twice, so the loop's termination does not rest on a bound the program lacks: each jump resumes the search where it was.
* The socket programs are checked for safety only, so their specifications assert no fairness. A server loops forever by design.
* The pssh shell's reaping is weakly fair, because the shell handles every SIGCHLD.
  The user's commands and the processes' exits are never forced.

### Deadlock

Several programs really do stop without exiting:

* `04-pc_bad.c`'s starved producer;
* 2-sigttou.c's parent, which SIGTTOU stops;
* the spinning main of the sigwait programs.

So the configurations turn deadlock checking off and check termination
properties where the code promises termination.

## 6. Not modelled

These are not modelled:

* the System V semaphore demonstrations, three programs run by hand against one semaphore.
  Each makes one system call at a time, and they claim nothing beyond the semaphore's counting.
  A rerun of `create_semaphore` discards V operations not yet taken, and a value left by an earlier session lets `sem_b` proceed without a V.
  The programs promise neither, so there is no property to check;
* in pssh, anything that only prints, such as `jobs_print`, `job_print`, `job_get_name`, `job_status` and `builtin_which`;
* in pssh, `set_fg_process_group`, which is not in the repository;
* the pssh `project_1` grader, a test harness that drives the shell over pipes and files;
* `2-detach.c`, whose behaviour is undefined;
* single-call demonstrations of signals (`1-signal.c` to `4-sigprocmask.c`, the simple handlers), processes, message queues, semaphores and FIFOs (the `3-named_pipes` pair, and `fifo_seqnum_client.c`, whose server is not in the repository);
* file I/O;
* C basics.

Spec §1 puts the last groups out of scope.
They are single system calls, with no shared state between threads or processes.

### Work left

* The datagram server exits when a `sendto` fails. A client killed while it waits for its reply leaves its pathname bound to a closed socket, and the reply fails with ECONNREFUSED. The server then exits, and another client whose datagram was queued waits in `recvfrom` forever. `DgramUcase` reaches this with two clients and one Ctrl-C. No run reports it, because every run slot is taken.

* The half-duplex handler unlinks by name. A Ctrl-C to a second server, after its `signal()` and before its `mkfifo` fails, removes the first server's FIFO. The same happens when a server that has already unlinked at line 64 is interrupted after another server has made a new FIFO. The model reaches this: the first server's `open` then fails and it reads from -1. No run reports it, and `NoStaleFifo` holds all the same.

* The double free of `6-sigsetjmp.c`. A Ctrl-C between `free` (line 106) and `exit` (line 107) sends main back through the CTRLC case. There it sums the freed buffer, prints that total and frees the buffer again. The model reaches this state (`pc = "crashed"` with the buffer freed), but no run reports it: `TotalIsSquareSum` speaks only of totals from the live buffer.

* `try` after the `siglongjmp` of `primes.c`. `try` is a non-volatile automatic variable that changes after `sigsetjmp`, so the C standard leaves its value indeterminate after the jump. A build that keeps it in a register saved by `sigsetjmp` restarts the search at 0 after every alarm and stores 2, 3, 5, ... again. With `TryRestored` TRUE, `ReportsListPrimes` fails after one alarm. The barber run checks the build that keeps `try` in memory, because no run slot is free for the violation.

* The unchecked job numbers of `bg`, `fg` and `kill %N`, which index `J[]` outside its bounds.
  The read is undefined, so there is no outcome for the model to enumerate.
  Its hazard has no property.
* `kill -s` with two arguments, which reads `argv[2]`.
* A run stating that a POSIX client sees a whole message.
  The model reaches a torn read, the SIGBUS, and an unlink of a newer object.
