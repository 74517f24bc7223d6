# TLA+ models of LinuxSystemprogramming-VEDA

The repository is a course on Linux system programming: about 130 C files, most of
them short examples, and between them some forty programs in which processes, threads or
network peers really interact.  This directory holds TLA+ modules for those programs,
TLC configurations that check them on small instances, and machine-checked proofs, for every
value of the constants, of all safety properties those runs check.

Contents: [the system](#the-system) · [the modules](#the-modules) ·
[the runs](#the-runs) · [fairness](#fairness) · [the proofs](#the-proofs) ·
[disagreements found](#disagreements-between-code-and-comments) ·
[what is not modelled](#what-is-not-modelled) · [the plan](#the-plan)

To check everything, in this directory: `tlc -config X.cfg M` for the runs of
`PROJECT.json`, and `tlapm M.tla` for the modules `...Proofs`.

## The system

Paths are below `src/`.  Each part is independent of the others: they share ideas, and
sometimes a copied file, but no code at run time.  Parts marked * are modelled.

### Log server* (`ch09/msg_server.c`, client `ch09/msg_client.c`)

- **State.** A ring `queue[QUEUE_SIZE]` with `q_head`, `q_tail`, `q_count`; `q_mutex` and
  `q_cond`; two UDP sockets; the file `msg.log`.
- **Operations.** `main()` polls both sockets; `receive_from()` reads one datagram, cuts
  the newline and calls `enqueue()`, which drops the entry when the ring is full.
  The thread `msg_collect()` waits for entries, copies one out and writes it to the log.
- **Hard.** The two threads interleave at every lock, wait and signal; signals without a
  waiter are lost, wake-ups may be spurious; the ring overflows; `poll()` or `fopen()`
  fails.
- **Correct means.** Each accepted entry is logged once and in order; only a full ring
  loses anything; nobody sleeps on work; a dead collector does not stop the server.

### Semaphore handoff* (`ch07/exercise-3.c`, `ch07/exercise-4.c`)

- **State.** A System V segment with one text, a set of two semaphores, the loop counter
  of the sender.
- **Operations.** Either program creates what it does not find.  The sender sets the
  semaphores, then alternates P(0), write, V(1) with the receiver's P(1), print, V(0);
  after "end" it removes the set, which is what wakes the receiver.
- **Hard.** Any order of starting; results of `semop()` are ignored, also that of a
  removed set; nothing but the two programs removes the kernel objects.
- **Correct means.** Twenty messages are printed in order, both programs end, and no IPC
  object is left.

### Mini shell* (`lab/`)

- **State.** The descriptors of the shell, its children with theirs, the pipes, a pending
  SIGCHLD, and the locals of `is_executable()`: position, operator, `fd_in`, `fd_out`,
  `pids`.
- **Operations.** `is_executable()` walks over a line with `|`, `>`, `<`, `&&` and `&`, and
  `execute()` starts each command; built-in commands run in the shell; `child_handler()`
  reaps children at any point.
- **Hard.** The handler competes with `waitpid()` for children and their status; every
  path, error paths too, has to close what it opened; inherited pipe ends decide whether
  readers see end-of-file and writers SIGPIPE; signals coalesce.
- **Correct means.** The descriptors are accounted for, the prompt returns when every
  foreground command is done and not before, no zombie stays.

### Second shell* (`lab2/`)

- **State.** The child of each line, the second process of its pipe, the pipe.
- **Operations.** One `fork()` per line; the child finds the operator, and for a pipe
  forks the writer and itself becomes the reader; the shell waits for the child only.
- **Hard.** A command that cannot be executed on either side of the pipe; Ctrl+C before
  and after the child restores SIGINT; the handler against `waitpid()`.
- **Correct means.** As above, and Ctrl+C frees the prompt.

### Broadcast chat server* (`ch09/chattingProgram/ex05.c`)

- **State.** The epoll set, the clients' descriptors, the batch `client_list[0..n-1]`.
- **Operations.** For every entry of a batch: one `accept()`, or one `read()` whose data
  goes to the other entries of the batch, or a close.
- **Hard.** Descriptors are closed and reused while the batch is being worked off; one
  call per entry leaves input for the next batch; SIGPIPE ends the process; the sockets
  block, so that a client that does not read stops the only thread.
- **Correct means.** No entry is stale when its turn comes; order is kept; everyone is
  served in the end, as long as the server lives and is not held.

### Edge-triggered echo server* (`ch09/chattingProgram/ex06.c`)

- **State.** As above, with one `buffer` for all clients and edges in place of levels.
- **Hard.** An edge is reported once; input, or the close, may come before the descriptor
  is added and while it is read; a short write or EAGAIN; what an earlier chunk left in `buffer`
  counts as input of the next one.
- **Correct means.** No edge is used up with input left; a client gets back its own bytes
  in order.

### Thread-per-connection servers* (`ch09/tcpProgramming/ex01.c`, `ch09/chattingProgram/webserver.c`, `ch09/chattingProgram/rpi6.c`, `ch09/webLED/`)

- **State.** The descriptor variable of the accept loop, the descriptor table, the threads
  with their FILE streams, the LED.
- **Operations.** Accept, create a thread, join or detach it; the thread reads a request,
  switches the LED, answers and closes.
- **Hard.** The argument of a thread is the address of a variable of `main()`; threads
  close descriptors whose numbers others get; descriptors run out; `pthread_create()` fails
  unnoticed; clients leave at any point of their request, or do not read a long page.
- **Correct means.** A thread uses the connection it was made for, leaves nothing open,
  and complete requests are answered.

### Two-party chats* (`ch09/chattingProgram/TCPChattingServer.c` with `TCPChattingClient.c`, `ex04.c` with `ex03.c`)

- **State.** On each side stdin with what stdio has read ahead, one `buffer` for both
  directions, the connection.
- **Operations.** One turn of the loop takes a line from stdin, or receives.
- **Hard.** stdin comes first, so that the socket may wait; stdio hides lines from
  `select()`; the result of `fgets()` is ignored, so that end-of-file repeats the buffer;
  a close may arrive before or as a reset.
- **Correct means.** What was typed is said and shown once and in order, "CUT." comes after
  everything else, and both sides leave.

### GPIO controller* (`raspi/main.c`, `led.c`, `wiring.c`)

- **State.** `menu`, `buf`, `tid2`, the LED pin, the handles of `libled.so`.
- **Operations.** The menu starts an LED thread and joins it, starts a detached sensor
  thread, or cancels the sensor thread that `tid2` names.
- **Hard.** Every thread gets the address of the same `buf`; `tid2` may name no thread,
  an ended one, or only the last of several; cancellation strikes at `delay()`, also
  while the LED is lit; `scanf("%d")` leaves a word in the input.
- **Correct means.** The LED is on for a reason, and "OFF" ends the sensor thread.

### System V queues and shared memory* (`ch07/ex05-1/2`, `exercise-1/2`, `ex08-1/2`, `posix_shm.c`)

- **State.** Kernel objects that outlive the programs: queues, a segment, a named object; in
  each program its identifiers, which may be those of a removed object, and its buffer.
- **Operations.** Send and receive lines in one direction or in turns; write and read a
  segment in busy loops; write, show and unlink a mapped object.
- **Hard.** No result is checked.  A queue is full, or is removed with texts in it and callers
  asleep on it; the segment has no lock; an object has a name before it has a size.
- **Correct means.** Only an end loses a message, every "end" that can be heard is, no object
  is left, and what is shown was written.

### Pipes and FIFOs*, process examples* (`ch07/ex01.c`–`ex04-2.c`, `ch05/ex02.c`–`ex06.c`, `ch06/exercise.c`, `ch06-2/ex01.c`)

- **State.** Parent and children, their groups, zombies, a pipe and who holds its ends; a
  named pipe with senders and a receiver.
- **Hard.** `fork()` fails and `waitpid()` looks for -1; SIGCHLDs coalesce; a signal goes to a
  whole group; who keeps which end of a pipe decides between SIGPIPE, end-of-file and waiting
  for ever; in `open()` of a FIFO each side waits for the other.
- **Correct means.** No zombie and no unexplained orphan, all processes end, lines come
  through in order.

### Thread examples* (`ch08/ex01.c`–`ex05.c`, `ex08.c`, `exercise.c`)

- **State.** Threads, a mutex and a counter, cancellation state, cleanup handlers, a block of
  memory, the result of each thread.
- **Hard.** A cancellation may be asked for at any moment and acts at any cancellation point;
  `pthread_create()` fails.
- **Correct means.** No increment is lost, nothing freed twice, no text read from a cancelled
  thread, the programs end.

### Signal examples* (`ch06/ex01.c`–`ex04.c`, `ch06-2`, `ch08/ex09.c`, `ch08/ex10.c`)

- **State.** Masks, handlers with their masks, pending signals, timers, the threads.
- **Hard.** A signal comes at any moment: before its handler, before `pause()`, between two
  calls, to any thread that lets it through.
- **Correct means.** Only a signal that a program lets through and does not catch ends it;
  what it is there to catch arrives.

### Not modelled

Files, terminal and time (`ch01`, `ch03`, `ch04`), `system()` (`ch05/ex01.c`), first sockets and
address conversion (`ch09/ex01`–`ex04`, `udpProgramming`, `tcpProgramming/ex02.c`), the prototypes
`ex01.c` and `ex02.c` of the chats, `daemon.c`, `ch07/ex06.c` and `ex07.c`.  See
[below](#what-is-not-modelled) for the reasons.

## The modules

| Module | Models | State and actions |
|---|---|---|
| `BoundedFifo` | abstract | What a queue promises: `Put`, `Refuse` when full, `Take`, in order. |
| `MsgServer` | `ch09/msg_server.c` | `mpc`, `cpc` are the places of the two threads; one action per step between two synchronisation points (`EnqueueLock`, `EnqueueStore`, ... , `CollectWait`, `CollectSpuriousWake`, ...). `Arrive` is the network: loss, repetition and reordering by UDP are choices of what arrives. |
| `SemHandoff` | `ch07/exercise-3.c`, `exercise-4.c` | `spc`, `rpc`, one action per system call or access to the segment. |
| `MiniShell` | `lab/` | `pc` and `loc`, the locals of `is_executable()`; one action per operator, for `execute()`, for both waiting loops and for the handler; the children run between any two of them. |
| `PipeShell` | `lab2/` | `pc` of the shell; `child[n]` and `writer[n]`, the processes of line n, step by step up to `execvp()` and then as programs. |
| `EpollChat` | `chattingProgram/ex05.c` | `batch` is what is left of `client_list`; one action per kind of entry, and one per turn of the loop that passes `chunk` on (`Skip`, `Write`); clients connect, send, read or do not read, and close. |
| `EpollEcho` | `chattingProgram/ex06.c` | `edge` holds the edges not yet reported; each `read()` with its `write()` is a step, and clients act between them, also before `accept()`. |
| `ThreadServers` | the four thread servers | `program` says which; `Accept`, `Create` or `CreateFails`, `Join` for `main()`, and a `ThreadXxx` action for each call of a thread that others can notice. |
| `ChatPair` | both chat pairs | `api` and `kind` say which pair and what stdin is; a turn of the loop is an action: `StdinTurn`, `RecvTurn`, `CutTurn`, `ErrorTurn`. |
| `GpioMenu` | `raspi/` | `pc` of `main()`, `lpc` of the LED thread, `cpc[k]` of each sensor thread. |
| `SemRestart` | `ch07/exercise-3.c`, `exercise-4.c` | `SemHandoff` with a program killed anywhere and started again; `undo` is what SEM_UNDO gives back, `segment` and `oldSet` say whose ids are those of removed objects, `missed` whose two calls of `semget()` a removal came between. |
| `QueueTalk` | `ch07/ex05-1/2`, `exercise-1/2` | `kind` is the pair; one action per call: `Msgget`, `Fgets`, `Msgsnd`, `Msgrcv`, `Show`, `Rmid`, with identifiers of removed queues. |
| `BusyPair` | `ch07/ex08-1.c`, `ex08-2.c` | Two programs at one segment, an older segment that may have been left and may be removed between the sender's `shmget()` and `shmat()`, and texts that are caught half written. |
| `PosixShm` | `ch07/posix_shm.c` | One process per terminal, from `shm_open()` to `shm_unlink()`; a text and what stands behind it. |
| `FifoPair` | `ch07/ex04-1.c`, `ex04-2.c` | Senders and a receiver: `Mkfifo`, `Open` and its return, `Fgets`, `Write` or `WriteNothing` for an empty text, `Read`, an interrupted receiver. |
| `Families` | `ch05/ex02`–`ex06`, `ch06/exercise.c`, `ch06-2/ex01.c`, `ch07/ex01`–`ex03` | A program is the list of calls of parent and children; an action is a kind of call, the kernel reparents, reaps and signals. |
| `ThreadExamples` | `ch08/ex01`–`ex05`, `ex08.c`, `exercise.c` | A program is the list of calls of its threads; an action is a kind of call. |
| `SignalExamples` | `ch06/ex01`–`ex04`, `ch06-2/ex02`–`ex06`, `exercise.c`, `ch08/ex09.c`, `ex10.c` | As above; `Send`, `Expire` and `Deliver` put a signal between any two calls. |
| `ChatPairProofs`, `EpollEchoProofs`, `GpioMenuProofs` | | Theorems about the module each is named after. |
| `MsgServerProofs`, `EpollChatProofs`, `ThreadServersProofs` | | Theorems about the module, and about the run (`messages`, `epoll`, `threads`) it is checked in. |
| `ExampleProofs`, `ShellProofs` | | Theorems about all the modules of the runs `examples` and `shells`, and about these runs. |
| `MC...` | | Instances for TLC, most of them for several modules. |

`MsgServer` and `SemHandoff` both instantiate `BoundedFifo` with a refinement mapping:
the first maps the slots from `q_head` on to `items`, the second the text of the segment
while it is unread.

Three of the modules, `Families`, `ThreadExamples` and `SignalExamples`, are small machines: the
examples of a chapter use the same few calls, so the calls are the actions and each example is
a definition that lists them in the order of its source.

What all modules leave out is wording: prompts, log formats, addresses and pages. Where the form
of the data decides what happens it is there: a zero-length datagram, a line that begins with
"exit", "..." in the echo buffer, a word that only begins with "ON".  Calls that may fail in
ordinary use fail in the models (`poll`, `fopen`, `fork`, `pipe`, `open`, `dup`, `accept`,
`dlopen`, `pthread_create`) where the code goes on after it. `malloc()` does not fail. An
uninitialised variable starts with any value (`buffer` in `EpollEcho` and `ChatPair`, `menu` in
`GpioMenu`, `status` in `MiniShell`, the `msg` of a sender in `FifoPair`); `pthread_cancel()` of a
thread that does not exist does nothing or ends the process.

Calls that stand in one action although the code makes several are those that nobody else can
come between, or where it makes no difference when somebody does:

- `SemHandoff`: an object is looked for and then made by two calls.  Nobody removes one while both
  programs are still looking, unless a program was killed; `SemRestart` has the removal between the
  two calls of `semget()` (`missed`, `SenderFails`, `ReceiverFails`).  A sender whose second
  `shmget()` fails exits and is started again, which is where it stood.  The sender's
  `shmat()` is part of the last `semctl()` before it, the receiver's of its `semget()`; a segment
  removed before the sender's is "bad".  The two removals at the end of the
  receiver are two steps (`ReceiverRmidShm`, `ReceiverRmidSet`).
- `BusyPair`: the receiver attaches in one step, since only a receiver removes a segment.
- `EpollChat`: a `write()` to a socket that has room for part of it waits like one to a full socket,
  so it is taken as a whole; what `Room` counts is writes.
- `ThreadServers`: an answer is written by several calls into a stdio buffer, the rest of which
  goes out with `fclose()`.  Clients cannot tell where they are divided, so the answer is one
  step, but for a page: that one may fill the socket (`ThreadFills`) and wait for the client
  before it is done.  To be filled once stands for any number of times.

Mutated forms (`...NoLock`, `...Twice`, ...) stand beside the operator they mutate.  They
are never used by a specification; putting one in the place of its original makes the
property listed with it in `PROJECT.json` fail.

## The runs

| Run | Modules | Bounds | Shows |
|---|---|---|---|
| `messages` (`MCMessages`) | `MsgServer`, `ChatPair` | ring of 2, 2 messages, 2 datagrams per socket, 4 arrivals; 2 lines on each side, both pairs, terminal or pipe | the log server: `RingConsistent`, `NoLostWakeup`, refinement of `BoundedFifo`, `ArrivalsLogged`; the chats: `SaidWasTyped`, `CutLosesNothing`, `BothLeave` |
| `examples` (`MCExamples`) | `SemHandoff`, `SemRestart`, `QueueTalk`, `BusyPair`, `PosixShm`, `FifoPair`, `ThreadExamples`, `SignalExamples` | N = 20; under kills 3 messages and 2 kills; 2 senders, queues of 2; 3 processes and a text; 2 signals | the handoff: `OneInside`, `NothingLeftBehind`, refinement of a one-place `BoundedFifo`, `RestartEnds`; queues, segments and FIFO: `ObjectsRemoved`, `OnlyEndsLose`, `NoStepBack`, `FailuresExplained`; threads: `NothingLostOrFreedTwice`; signals: `OnlyOpenSignalsKill`, `SignalsArrive`; whoever should ends: `AllEnd` |
| `shells` (`MCShells`) | `MiniShell`, `PipeShell`, `Families` | two lines in each shell, from 18 and 14 kinds of line; one child killed, three writes of "ls" | `DescriptorsAccounted`, `ForegroundOver`, `AllReaped`, `PromptComesBack`, `NobodyStuck`, `OrphansExplained` |
| `epoll` (`MCEpoll`) | `EpollChat`, `EpollEcho` | chat: 2 clients with 4 messages, 3 with 2, a socket holds one write; echo: 2 clients, 3 bytes | `BatchStaysReadable`, `NoLostEdge`, `InOrderOnce`, `AllServed` |
| `threads` (`MCThreads`) | `ThreadServers`, `GpioMenu` | 2 clients, 1, 2 or 4 descriptors, all four programs; 2 sensor threads, 5 tokens | `OwnSocket`, `OpenExplained`, `LedReason`, `AllAnswered`, `CancelEnds` |
| `mini_shell_and`, `mini_shell_ctrl_c`, `epoll_chat_all`, `greeting_server`, `web_server_queue`, `posix_shm`, `signal_exercise` | | the smallest that show it, or those above | the [disagreements](#disagreements-between-code-and-comments) |

Each of the five first runs puts independent modules side by side: the first step chooses the
program, the others stay where they start.  Each behaviour is one of a single module, under the
fairness of that module, which the instance repeats with the choice as a guard.  A property that
names several modules says the same kind of thing of each; its parts stand under their own names
in the modules.  Each run also checks the types of all its variables.

Why the bounds are enough to be interesting:

- **Log server.** Four arrivals at a ring of two slots fill it, overflow it and wrap both
  indices, while the collector is in any place.  `QUEUE_SIZE` of the program is 100; the
  proofs are for every size.
- **Handoff under kills.** Two kills are enough to kill each side once, or one side again right
  after its restart; three messages put a kill before, between and after hand-overs.
- **Queues and FIFO.** A queue of two is filled by two senders; one "end" may overtake the
  lines of the other.
- **`posix_shm.c`.** Three processes: one creates, one unlinks, one comes between them.  Which
  text is shown is the question of the run `posix_shm`, which has two.
- **Signals.** Two signals from outside, of any kind and at any time, beside those of the
  timers: one may meet the handler, or the death, of the other.
- **Shells.** The list of lines has each operator alone, next to each other operator,
  misplaced, and with each reason for a command not to run.  Two lines let a background
  line and its children overlap the next line; what the second line finds (descriptors,
  children, pending SIGCHLD) is all a third could find, too.  A pipe holds one unit
  and a "flood" writes two: enough to block.
- **Families.** The third write of "ls" waits for the room of the second, which is the first
  that nobody reads.
- **Epoll servers.** Three chat clients are needed for a batch with two targets beside the sender,
  and for a descriptor that is closed and reused before its turn.  Once the third of them
  (`Third`) connects, two messages (`CrowdSends`) are all that is sent; two clients send four.  A
  socket that holds one write (`Room`) is full at the second, with the server in the middle of a
  batch. The buffer of `ex05.c` takes two messages (`BufIn`), so that a third one waits for the
  next batch.  Three bytes are "..." from one client, and also "." completing what another client
  left in the buffer.
- **Threads.** Two clients suffice for the argument of one thread to be overwritten by the next
  connection.  With one descriptor `dup()` fails, or the next `accept()` after a failed
  `pthread_create()`; with two, after one such failure, a thread is left without its second; four
  are enough for both clients.  Clients ask for a page, "on", "blink" or by POST; nobody asks for
  "off", but a client that leaves without a request may cause it.
- **Chats.** Of two lines one may be read ahead by stdio, or be "exit".
- **GPIO.** With two sensor threads `tid2` forgets the first one.  Five tokens are two sensor
  threads and the "OFF" for one, or a sensor thread and an LED command in either order.

`CHECK_DEADLOCK FALSE` is in every configuration: these programs end, crash, or wait for a user
or a client who does nothing more, and that is no error.  That they do not stop where they should go
on is what the liveness properties say.

Properties that hold in the presence of a flaw name it:

- `PromptComesBack` excepts, in the first shell, a writer whose inherited read end keeps its own
  pipe open, and in the second a reader that cannot be executed and keeps its input.
- `AllServed` excepts the SIGPIPE that ends either server, the `exit()` of `ex06.c` when a socket
  is full (EAGAIN), and in `ex05.c` a `write()` that waits for a client that does not read
  (`Blocked`).
- `AllAnswered` excepts (`Excused`) a client whose thread could not be created and one that does
  not read; everybody else is answered, unless the thread of a serial server waits for another
  client to send or to read (`WaitsFor`), or failed creations of threads have taken all its
  descriptors, or `rpi6.c` has stopped accepting.  `OpenExplained` counts the descriptor of a
  thread that could not be created among those that have a reason: `rpi6.c:103` and
  `webserver.c:66` do not close it.
- `BothLeave` excepts a side whose stdin ends before it had a line and which then sends
  nothing for ever.
- `LedReason` excepts a client that leaves without a request, whose thread then parses its stack,
  and an LED left on by a cancellation.
- `RestartEnds` excepts runs in which a program makes a segment or a set anew while the other has
  ended or still has an older one (`parted`): one started too late, and a receiver that was killed
  between its two removals.
- `AllEnd` excepts an "end" whose queue is removed before its receiver has come to sleep on it, a
  sender of `ch07/ex08-1.c` that fails because a receiver removes an older segment under it, a
  sender at the FIFO whose text is empty at end-of-file (its `write()` of nothing always
  succeeds), the alarm of `ch06-2/ex05.c` that comes before `pause()`, and `ch08/ex03.c`, which
  waits for ever.
- `NoStepBack` lets texts be skipped, repeated and torn; `ObjectsRemoved` excepts late starts.
- `OrphansExplained` lists the ways a child outlives its parent: it is not waited for
  (`ch05/ex02.c`), a second `fork()` fails, SIGPIPE ends the parent, child2 of `ch06-2/ex01.c` ends
  by the signal.
- `OnlyOpenSignalsKill` excepts the handler of `ch06/ex04.c`, whose `sa_flags` are never set and may
  hold SA_RESETHAND.

The exceptions are exact enough that each property has a mutant of the code that violates it.

## Fairness

Only what the operating system schedules is fair: threads and processes that can run do (`WF` on
each thread, process or server loop), and a pending signal is delivered.  Users, clients and the
network are never fair: they may stop at any point, and nobody has to kill or to signal anything.
A timer that is set expires.  A call that may fail (`fork()`, `dlopen()`, ...) is an alternative
inside a fair step, so it does return, either way. A family of `Families` never comes back to a
state it has left, so that one condition for all its processes is as strong as one for each.
Programs end only where the environment says so: "ok" does, "long" does not, "flood" and "sink" as
the pipe allows.

The one strong fairness is on acquiring `q_mutex` in `MsgServer`.  Weak fairness would do for the
datagrams, whose number is bounded; it is needed since POSIX allows spurious wake-ups without
a bound, and an endless sequence of them takes and releases the mutex for ever.  A thread
that waits for a mutex which is released again and again gets it in the end: glibc wakes one
waiter at each release, and the collector sleeps in between.

## The proofs

All proofs are for every value of the constants, under the assumptions the modules name:

- `MsgServer`: `QueueSizeAssumption` (the ring has a slot), `EntryAssumption` (an unused slot and an
  empty datagram are no log entries), `BoundAssumption`.
- `ThreadServers`: `FdLimitsAssumption` (a process has a descriptor for a connection),
  `ClientAssumption` (finitely many clients), `ProgramsAssumption` (the four programs).
- `BoundsAssumption` of `EpollChat`, `ChatPair` and `GpioMenu`, `SizesAssumption` of `EpollEcho`:
  the bounds are numbers, there are finitely many clients, `ex05.c` has a descriptor for each of
  them, and the buffer of `ex06.c` holds "...".
- `MiniShell` and `PipeShell`: `PipeAssumption` (a pipe holds something, a "flood" writes more than
  it holds), `LinesAssumption` (a line is a sequence of words); `Families`: `FamilyAssumption` (the
  same of its pipe, and two numbers).
- `SemHandoff`, `SemRestart`, `BusyPair`: `NAssumption`, `RestartAssumption`, `BusyAssumption` (at
  least one message).  `QueueTalk` and `FifoPair`: `QueueAssumption`, `FifoAssumption` (a queue or
  pipe has a place, the receiver is no sender; the set of senders may be any, even infinite).
  `PosixShm`: `ShmAssumption` (no text is empty; any set of processes).
- `SignalExamples`: `SignalAssumption` (only timers send SIGALRM; any bound on the signals sent).
  `ThreadExamples` has no constants.

Modules that a run instantiates state their assumptions as definitions; `PairAssumption`,
`EchoAssumption`, `GpioAssumption`, `ExamplesAssumption` and `ShellsAssumption` of the `MC` modules
assume them, and TLC evaluates those.

Each proof has the same parts: an inductive invariant (`IInv`, or `XxxInv`) of named conjuncts,
which TLC has checked as well; a lemma per conjunct, or per action, that a step keeps it;
`NextInv`, `Invariance` and the theorems. None of the properties is inductive as it stands.

**`MsgServerProofs`.** The invariant is `IInv == TypeOK /\ LockInv /\ RingInv /\ ProgressInv /\
NoLostWakeup`:

- `LockInv`: a thread is in its critical section exactly if it owns `q_mutex`.  This is
  what lets each step assume that the other thread changes nothing of the ring.
- `RingInv`: `q_tail` is `q_count` places after `q_head`, and all slots between them hold
  entries, written without the modulo (`SlotAt`), which the lemmas `RingSum` and
  `AdvanceStep` relate to the code's `%`.
- `ProgressInv`: what a thread has established half way: between the store and the
  advance, the slot at `q_tail` holds `buf` and the ring is not full; between the copy and the
  advance, `entry` is the oldest entry and the ring is not empty.

From it follow `TypeCorrect`, `Exclusion`, `RingCorrect` and `NoWakeupLost`. `Refinement` shows
`Spec => FifoSpec`: `ContentsType` types the mapped queue, `AdvanceAppends` and `AdvanceRemoves`
show that the two advances append and remove an entry of it, `StepSimulation` goes through all
steps.

**`ExampleProofs`, the programs of ch07.** For `SemHandoff` the invariant `IInv` goes by the
phases of the sender: `StartInv` (until both semaphores are set the receiver can only wait),
`TurnInv` (while the sender waits, the one permit is at `sem[0]`, at `sem[1]` or with the
receiver, and tells how much was printed), `InsideInv` (while the sender writes, all before was
printed), `DoneInv` (the set is gone and the receiver finds "end").  From it follow `TypeCorrect`,
`Exclusion`, `CleanEnd` and `Refinement`, theorems about a run without kills.  The others share
what they do right without a semaphore, or without a look at a result:

- `BusyInv`: `BusySegments` says which of two segments the key names and who is attached to which,
  `BusyContent` that a segment holds what was there before until its sender writes, `BusyPrinted`
  that a whole text that is printed was that of an earlier turn.  A torn text is never "end"
  (`MixedNotEnd`).  Hence `ForwardOnly`: `NoStepBack` for any number of messages.
- `ShmInv`: who maps an object that has no size, and that a process which has reached its menu made
  the object or found it made.  `FailuresHaveCauses` is an action property, from it.
- `FifoInv`: `FifoHeld` (the pipe is empty when nobody holds it), `FifoTyped` and `FifoOrder` (the
  last line a sender has written is the last of its lines in the pipe or, if there is none, the
  last one shown).  "The last of its lines" is what needs a least element (`LastExists`).
- `TalkInv`: `TalkIds` says when the identifier of a queue is stale, `EndsLast` that the "end" of
  a sender comes behind its lines wherever both are, `InTurn` that the two of `exercise-1/2`
  alternate, so that never more than one message is under way.  `EndsLoseOnly` and `ObjectsGone`
  follow.
- `RestartInv`: the ranges of `SemRestart`, with the sender's counter no further than the last
  message.

**`ExampleProofs`, signals and threads.** The programs are lists of calls.  What such a list says is
read off it once, program by program (`SignalFactsOf`, `ThreadFactsOf`: which signals are blocked or
handled at each call, where a thread is created, joined, holds the mutex or has the block), and the
invariant speaks of places only.

- `SignalInv`: `SignalThreads` (a thread exists only behind its creation, and what it inherits),
  `SignalMasks` (what is blocked at a place is blocked by the mask or, inside a handler, by the
  saved one, so that the return keeps it), `SignalHandlers`, `SignalAlarm`.  `OnlyOpenKills`
  follows: no signal ends a program at a place where it blocks or handles it.
- `ThreadInv`: `ThreadPlaces` (who is created and who has been joined), `ThreadTexts` (a thread
  whose cancellation is disabled returns its text), `ThreadBlock` (what has become of the block,
  by the place of the thread that has it), `ThreadCounter` (the counter is the sum of the finished
  increments of all threads, and what a thread has read under the mutex is still current).
  `NothingLost` follows.

`TypesKept` is about all of them.

**`ShellProofs`, the first shell.** `DescriptorsAccounted` is about the places between commands;
the invariant has to say it for every place. `Accounted`: the open descriptors are those that the
early return of `execute()` has leaked and those the locals hold, with the read end of a new pipe
while its writer is being started, and these are all different, so that a `close()` takes away
just one. `Known`: a running child of a line is one the line waits for, one it has detached, or
one that is just being started, and the children the waiting loops have passed are dead. From it
follow `DescriptorsClosed` and `ForegroundDone`.  `LocRanges` and `Ranges` say where in the line
the shell is: `get_op_type()` does not leave it (`OpTypeProperties`), and whoever goes on behind
an operator found one, so that the place behind it is in the line or at its end.

**`ShellProofs`, the second shell and the families.** `PipeInv`: `PipeProcesses` (a line not read
yet has no processes, only one with a pipe a writer), `PipeWaited` (of the lines read, only the
one the shell waits for may have a foreground child that is not reaped).  `FamilyInv` again reads
the lists of calls off once (`FactsOf`): `FamilyTree` (who may be whose parent, and that the
parent of a zombie is alive), `FamilyForks` (a child is there only behind its `fork()`),
`FamilyGroups`, and `FamilyWaited` (behind its waits a process has no child left, unless a
`fork()` failed).  With `DiesInv`, what the end of a process does to its children, it carries
`Family!OrphansExplained`.  `ForegroundIsOver`, `OrphansHaveReasons` and `ShellsTypesKept` are
about a session with any of the three.

**`ChatPairProofs`.** The invariant follows a line from the keyboard to the screen. `Input`: a side
has said the first lines typed on it; what stdio has read ahead are the next ones (`Follows`),
and what stdin holds comes behind them, up to an end-of-file, after which nothing is read. `fgets()`
keeps this whether it takes a line stdio has or reads a block (`AheadFollows`, `BlockFollows`).
`Stream`: what a side has shown and the lines on their way to it are what the other has said, stale
lines come last (so `Lines` is meaningful), and a side that was cut has shown all of it.
`SplitLines` is what lets `recv()` take any part of the stream. `SaidWasTyped` and
`CutLosesNothing` follow.

**`EpollChatProofs`.** `BatchStaysReadable` needs `OneConnection` (an open descriptor belongs to
one client) and `BatchRest` (the rest of the batch names different descriptors, each of them
readable, so that working off one entry takes nothing from another). `Unread` and `Received`
carry the order: what a client has sent waits in its order, and what a client has got of another
was sent before all that its inbox still holds; `Sending` puts between them what is in the server's
buffer, which may wait there for a client that does not read. That `accept()` finds a free descriptor is a
pigeonhole argument with cardinalities.

**`EpollEchoProofs`.** `Entries` says whom an entry of the batch can mean, `Announced` that a
client with unread input has an edge pending, an entry to come, or is being read, which gives
`NoLostEdge`; `Ordered` that bytes are echoed and wait in the order they were sent, those echoed
before those that wait, which gives `EchoInOrder`.

**`ThreadServersProofs`.** `Phases` and `Made` say what a thread holds at each place and which
connection it was made for. For the programs that do not share the variable of `main()`,
`Owners`, `Distinct` and `Owned` say that each open descriptor has exactly one owner: the accept
loop, a thread with one of its two streams, or a thread that could not be created. `OwnSocket`
follows, and `OpenHasReason`, which is `OpenExplained` for any clients and limits, by a count
(`ImageSize`, `DisjointSizes`). On top of it, `LedInv` is about history: a reason for the LED to
be on stays one, and a thread takes up a request to light it only for one.

**`GpioMenuProofs`.** `Types` (`tid2` names a thread that was created, or nothing), `Opened` (as
many uses of `libled.so` as threads between `dlopen()` and `dlclose()`), `Heard` (who has read a
word that begins with "ON", or finds it in the one `buf`, finds what was typed), from which
`LedExplained` follows.

**Runs of several programs.** The specifications of the five passing runs let the first step
choose a program. `MsgServerProofs`, `EpollChatProofs`, `ThreadServersProofs`, `ExampleProofs` and
`ShellProofs` end with theorems about these: a run is a run of each of its programs, since the
step of one leaves the variables of the others alone (`ExamplesStep`, `ShellsStep`, ...). These
theorems are therefore about the very properties the runs check, for all constants.

**Least elements.** Where an argument needs the last message of somebody, or the first operator, it
takes the least element of a set of naturals (`LeastNatural`, `MinIsThere`), which the library
derives from the well-foundedness of `<`. That stands in for an induction over the length of a
sequence, for which the provers have no rule.

All invariants and all action properties of the passing runs, and the refinements of `BoundedFifo`,
are proved.  Model-checked only:

- all liveness (every property with `~>` or `[]<>`), as the prover does not treat fairness and
  ENABLED: `ArrivalsLogged`, `BothLeave`, `RestartEnds`, `AllEnd`, `SignalsArrive`, `AllReaped`,
  `PromptComesBack`, `NobodyStuck`, `AllServed`, `AllAnswered`, `CancelEnds`;
- hence all that is said of the handoff under kills beside its ranges: that it comes to its end.

## Disagreements between code and comments

| Run | The comment | The code |
|---|---|---|
| `mini_shell_and` | after a failed command the one behind `&&` is not run | the SIGCHLD handler may reap that command first; `waitpid()` fails and an old or uninitialised status decides (`lab/isexecutable.c:239`) |
| `mini_shell_ctrl_c` | children react to Ctrl+C | the ignored SIGINT is inherited and never restored (`lab/isexecutable.c:104`) |
| `epoll_chat_all` | the data goes to all clients | it goes to those in the same batch (`chattingProgram/ex05.c:69`) |
| `greeting_server` | the thread serves its client | two threads may read the same variable after the second `accept()` (`tcpProgramming/ex01.c:69`) |
| `web_server_queue` | a queue of ten clients is handled | `main()` joins each thread before it accepts again; a client that leaves before its headers end keeps the only thread in an endless loop (`chattingProgram/webserver.c:118`), and so does, while it stays, one that sends half a request or does not read a long page |
| `posix_shm` | "*" prints the content, any other line is written as it was typed | the text is copied without its end, so that a shorter one shows the tail of a longer one, another user's too (`ch07/posix_shm.c:80`) |
| `signal_exercise` | Ctrl+C shows the counts and then ends | the handler returns, the loop goes on, and all other signals of the terminal are blocked (`ch06-2/exercise.c:69`) |

Smaller ones that the modules follow, each as the code has it, without a run of their own:

- `ch06/ex01.c:17,20` say that only SIGINT gets through; line 15 lets SIGQUIT through, too.
- `ch06-2/ex04.c:17-18` says that the program wakes up and returns; SIGINT has no handler there
  and ends it.
- `ch06-2/ex01.c:71` says that child2 waits for child3 and ends; the signal of line 66 ends child2
  in its `wait()`, unless somebody has killed child3 before.
- `ch06/ex04.c:4-5` describes a handler that stays; its `sa_flags` are not initialised.
- `ch07/ex03.c:51` says that the output of `ls` is read; one `read()` takes the first write of it,
  the rest ends `ls` with SIGPIPE, and 4096 bytes at once have `buf[n]` write behind the buffer.
- `lab2/main.c:46`: an empty line leaves `args` NULL, and the shell crashes (modelled; no property).

## What is not modelled

- *Linear programs* (`ch01`, `ch03`, `ch04`, `ch05/ex01.c`, `ch07/ex06.c`, `ex07.c`,
  `ch09/ex01`–`ex04`, `udpProgramming`, `tcpProgramming/ex02.c`, `daemon.c`, `ch06/ex05.c`,
  `raspi/ex02.c`, `wiringlight.c`): one actor, or one request and one answer, one pass, a printed
  result.  There is no order of steps to check.
- *The chat prototypes* `chattingProgram/ex01.c` and `ex02.c` copy an uninitialised `fd_set`
  over the one they have prepared, so any behaviour is possible.  Their successors are modelled.
- *Memory.* The token arrays of both shells are sequences here; what lies behind their end
  (`cd` of `lab2` reads `args[2]`) is not modelled, nor are the bytes of `ch07/ex03.c`.  The texts
  threads copy in `ch08` are marks that say whether they were joined.
- *The sensor of `webLED`*, which its server never starts.
- *Priority and duration.* `sleep()` and busy loops take any time; that `ch07/ex08-1/2` usually stay
  in step because both loops are equally long is not used.

## The plan

Done, in this order, the most concurrent program first: `BoundedFifo`, `MsgServer`, `SemHandoff`,
`MiniShell`, `EpollChat`, `EpollEcho`, `ThreadServers`, `ChatPair`, `PipeShell`, `GpioMenu`; then
`SemRestart`, `QueueTalk`, `BusyPair`, `PosixShm`, `SignalExamples`, `ThreadExamples`,
`Families`, `FifoPair`.

The proofs, in this order: `MsgServer`, `SemHandoff`, `ThreadServers`, `EpollChat`, `EpollEcho`,
`MiniShell`, `GpioMenu`, `ChatPair`, and the runs `messages`, `epoll` and `threads` as a whole;
then `PipeShell` and `Families` with the run `shells`, and `BusyPair`, `PosixShm`, `FifoPair`,
`QueueTalk`, `SignalExamples`, `ThreadExamples` and the ranges of `SemRestart` with the run
`examples`.

What would come next: what `SemRestart` prints under kills, as an invariant of its run and then as a
theorem; and `lab2` with the words of its lines, for the array that `cd` reads.
