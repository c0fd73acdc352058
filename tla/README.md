# Home banking service and forensic: TLA+ models, checks and proofs

The repository holds two programs of an operating systems course. `project2` is a
home banking service: one server process with several threads and many short-lived
user processes that talk to it through FIFOs. `project1` is `forensic`, a lister of
file information that forks a process per directory. This project models both.

## Inventory

| component | state | operations | interacts with |
|---|---|---|---|
| request queue and offices (`server.c` `main`, `thread_work`; `queue.c`) | `request_queue`, `queue_mut`, `counter_mut`, `cond_queued_req`, `shutdown`, `num_active_threads` | push and signal (main), wait, front, count, pop (offices), shutdown, broadcast, join | accounts and channels, called between pop and the next turn |
| accounts (`server.c` `acknowledge_request` and what it calls) | `accounts[MAX_BANK_ACCOUNTS]`, each office's `reply` | validate_admin, validate_user, create, balance, transfer, create_admin_account | shared by all offices, without a lock |
| FIFO channels (`server.c` `server_fifo_create`, `user_fifo_create`, `read_request`; `user.c`) | `/tmp/secure_srv`, `/tmp/secure_<pid>`, their buffers, readers, writers and permissions | create, unlink, open, write, read, close, remove, fchmod | users and the server's threads |
| user program (`user.c`) | one request, one reply | parse the command line, send, wait, read, print | channels |
| logging (`log.c`) | one static buffer per process, the log files | one line per event | every thread of the server |
| password hashing (`utils.c`, popen of `sha256sum`) | none | salt, hash | accounts |
| forensic (`project1/forensic.c`) | process tree, counters of directories and files, output and log file | list, fork, signal, log | its own children |

What is hard in it: the threads share a linked list, a counter, a flag and the
accounts, and only some of this under a mutex; shutdown is announced by a flag that
everybody reads without one; users die, leave files behind and race with the server
to create and open them; every `open` of a FIFO may wait for ever. The processes of
`forensic` share an output file through buffers that `fork` copies, signals that merge, a
CTRL+C that reaches all of them and ends that are not waited for. The hazards are
listed with their lines in `PROJECT.json`.

What makes each part correct:

* queue and offices: one thread in the queue at a time, each request taken exactly
  once and in order, no lost wakeup, a true count, an orderly end;
* accounts: money conserved, balances within limits, authentic operations, the
  right `ret_code`, and all of this also with several offices;
* channels: whoever is waiting for a reply gets the reply to its own request, and
  nobody waits for ever;
* logs: every event has its line, whole and in order;
* forensic: every file has its line, the log and the counters agree with the work done,
  CTRL+C ends it, and all its processes end.

## Modules

| module | what it is |
|---|---|
| `Offices` | main thread, offices, queue, mutexes, condition variable, shutdown; one step per shared access |
| `OfficesProofs` | theorems about `Offices` |
| `Accounts` | the array of accounts and the checks of `server.c` as operators (no variables) |
| `Bank` | the abstract service: one request, one step |
| `SumTheorems`, `AccountsProofs` | lemmas about sums over finite sets, and about requests, accounts and unsigned arithmetic |
| `BankProofs` | theorems about `Bank` |
| `Ledger` | `acknowledge_request` as offices run it concurrently, one step per access to a field; maps to `Bank` |
| `LedgerProofs` | theorems about `Ledger` |
| `Channels` | users, server threads and FIFOs; one step per system call |
| `ChannelsProofs` | theorems about `Channels` |
| `Log` | the log functions of threads and processes: the static buffer, the shared files |
| `LogProofs` | theorems about `Log` |
| `Forensic` | `forensic`: options, process tree, signals, buffers, log |
| `ForensicProofs` | theorems about `Forensic` |
| `MCRequests`, `MCOffices`, `MCBank`, `MCLedger`, `MCChannels`, `MCLog`, `MCForensic` | values and symmetries for TLC |

The first three detailed modules cut the server at two seams. `Offices` hands a request to
an office and treats its processing as one step, `Serve`; `Ledger` is what
`acknowledge_request` does in that step, and `Channels` what `user_fifo_create`,
`write` and `close` do. `Channels` has a simpler queue in place of `Offices`: a sequence with
the steps `Front` and `Pop`, which one office at a time makes as long as the flag is down, and
several after it, as in `Offices`.

### Offices

`pc[o]` and `mpc` are the places in `thread_work` and `main` between two accesses to
shared state: reads of `shutdown` and of `size` are loads of their own because they
happen without the mutex after a shutdown, and `x++`, `x--` and `front = front->next`
are a load and a store. The list is the sequence of the nodes ever allocated; a
pointer is a position in it, `freed` the set given back. `push` is one step: it
always runs before a shutdown and under `queue_mut`, where the theorem
`QueueMutualExclusion` shows that nobody else is in the queue. Mutexes are glibc's
default ones, as the code initialises them: relocking blocks, unlocking another
thread's mutex succeeds. Use of a NULL or freed node sets `fault`, and the model stops
there: what follows is undefined.

### Accounts, Bank and Ledger

A request is a record of `RequestType`; `acc` and `amount` stand for the overlapping
fields of the union in `req_value_t`. `GetRequest` is what the user's program makes of its
command line: `atoi` gives any number, negative ones too, which an unsigned field takes
`% Word`, and the type of an unknown operation is whatever the uninitialised field
holds. A hash is the pair of what was hashed, that is,
SHA-256 is taken to be injective. Balances are unsigned, `% Word`. A password
goes through the shell: without quotes when an account is created (`server.c:282`), between
double quotes, inside of which `"`, `$`, `` ` `` and `\` still count, at every login and for the
admin's account (`server.c:383`, `422`, `474`). `Unquoted` and `Quoted` are these two readings,
any functions on passwords in the proofs; in the runs they drop the quotes of `o""ne`. `between`
(`utils.h:20`) is a macro that evaluates a balance twice, so the room of the destination is
checked in two steps, `CheckFloor` and `CheckRoom`. In `Ledger` an
access outside of the array sets `fault` and stops the model. A reply keeps its
fields from one request of the office to the next, as the local of `thread_work`
does; an uninitialised `ret_code` that is sent becomes any code. `PrintReply` is what the
user is shown of it, and what the Bank's answers are compared with. The Bank promises an answer
to every request but those that apply an index outside of the array (`InArray`): one that is
refused before it comes to the index is answered like the others.

`AccountsView` and `AnswersView` are the refinement mapping: a request takes effect
when its answer is decided, so the half-written account of a creation is still
no account, and a debit not yet answered is given back. `Decided` says when that is; a failed
create whose id is past the array faults in the log and is never answered.

### Channels

FIFO inodes matter, not only paths: `path[u]` is the inode at the path, `rd[u]` and
`wr[u]` the ones the two sides have opened or wait to open, and an `open` returns when
the two agree. `Kill` ends a `Mortal` user anywhere; `Leftover` users find a file of an
earlier process at their path; `CAPACITY` is the number of requests that fit into
the request FIFO (64 KiB on Linux; requests are smaller than PIPE_BUF, so a write is
all or nothing). A server may also find its own FIFO left by an earlier one.
`Front` and `Pop` are separate steps of an office. Before the flag rises `queue_mut` lets one
office at a time between them (`QueueMutualExclusion` of `OfficesProofs`); after it two may see the same
front, pop twice and answer one user with two FIFOs, or pop from an empty queue, which ends the
server, as does the `exit(-2)` of a second `mkfifo` or an `open` that fails. The two FIFOs that two
offices make for one user then have one name in the model, and are not told apart.
The model takes the permissions set by `fchmod` at their word: for users that are root
they do not hold.

### Log

A line is a sequence of fields, and a step of `vsnprintf` stores one of them, or the NUL
after the last, into the static buffer of the process; `strlen` and `write` are steps of
their own. Threads of the server share a buffer, users have one each and share
`ulog.txt`, which is open with O_APPEND. The lines carry the fields that tell calls apart;
widths and padding are left out. `overlapped` is a history of the calls during which another
thread changed the buffer. The mutex `log_mut` (`server.h:52`) is not in the model because
no code uses it.

### Forensic

A process is named by its directory and the first one `Main`, since a directory is
listed by one process. A step is what a process does to one entry up to the point
where it waits for another program: `Stat` starts `dump_stat`, `Report` is its end, the log
line, the printed line and the look at `exit_program`. `out` is the file behind the
inherited descriptor, `buf[p]` the stdio buffer of each process: `fork` copies it, `exit` writes
it, a crash loses it, and it is flushed at each line only if it is stdout at a terminal.
A line is two cells, so that a buffer of an odd number of cells cuts lines. A pending signal
of a kind merges with another; `Main` handles pending signals before it goes on. CTRL+C
raises `exit_program` in all processes at once, children inherit it, and it kills the
`file` command of those who read one (`spoilt`): what they print then is the contents of an
uninitialised buffer, or they crash. `ParseFlags` is the loop over the options. `Usages` is the
reference it is compared with: the sequences of options, none of whose values is itself an option,
that the arguments in front of the target are made of. `Missing` are names of files that do not exist; `fopen(outfile, "w")`
makes one of them before the target is looked for (`forensic.c:417`, `445`), so `-o out` alone lists the new file `out`.

## Runs

Passing runs (see `PROJECT.json` for what each property says):

| run | instance | shows |
|---|---|---|
| `offices` | 2 offices, 3 requests, spurious wakeups, symmetric | the count is exact throughout, and the mutex is never kept by an office that works or sleeps; until the flag rises: exclusion, order, no lost wakeup |
| `offices_one` | 1 office, 3 requests, spurious wakeups, fair | one office drains the queue, exactly once and in order, shutdown or not; every request read is taken and the server ends, unless a spurious wakeup has made the office lock the mutex it holds, or, for the end, it misses the broadcast |
| `bank` | 3 accounts, 12 requests, one with a negative amount, two with quotes in the password | balances, conservation, authentication; a request is refused exactly when an error of `types.h` applies, except for the three cases that `JustlyAccepted` names |
| `ledger` | 2 offices, 3 accounts, 6 requests, 2 salts, symmetric | logins are sound under every interleaving; as long as no two offices meet on an account the Bank is implemented and no money is lost: creations run side by side with each other and with transfers, and so do two transfers |
| `ledger_one` | 1 office, 10 requests; ids that are negative or past the array in accepted and in refused ones | one office implements the Bank, in what it does and in what users are shown |
| `channels` | 4 users: admin, one refused at whose path there is an old FIFO, one who may be killed, one more; 1 office and main; fair | both ends meet, an empty reply is read only when the server was killed, a server that ended has answered all it read; the list of what may keep a user waiting is complete |
| `log` | main, an office and 2 users, 7 calls | each call writes once, in order; users' lines are whole and none is lost; only threads of one process spoil each other's |
| `forensic` | 5 directories three levels deep, 8 files and 4 names that only `-o` makes files of; all command lines of up to 3 arguments and some longer ones; fair | complete output of a process that succeeds, copies only through `fork`, exact log, counters, CTRL+C, all processes end |

Violations, each with its finding in `PROJECT.json`:

| run | what the code's documents say | what the model does |
|---|---|---|
| `offices_drain` | the server ends after all queued requests | two offices drain the queue without the mutex: one request twice, another never |
| `offices_stolen_wakeup` | a signalled office processes the request | it finds the queue empty, keeps the mutex, locks it again: everything stops |
| `ledger_lost_update` | an account has a critical section | two transfers lose an update of a balance |
| `forensic_outfile` | the log is written only with -v | with -o alone it is opened without a name, and the process exits at its first entry |

Bounds. Two offices are the least that interfere, and three requests let one be
taken, one be queued and one be pushed at the same time; the proofs cover all other
numbers. In `bank` and `ledger`, `MAX_BALANCE` is 4 and `Word` 16, which keeps the
code's relation 2 * MAX_BALANCE < 2^32 and makes both limits and the wrap-around reachable;
the requests hit each branch of each check. Accounts are asked for twice, money
moves both ways and to oneself. In `ledger` a transfer from account 1 to 2 and one of account 3 to
itself are disjoint, so that debits and credits of two offices interleave before any overlap. The capacity of the request FIFO is 1, so that
requests get lost while others are answered. One office is enough for the users to wait for
each other, and with main there are two threads that answer. Every request is sent once, as
a user process sends one. In `log`, the buffer holds one field more than the
longest line with its end, and lines have different lengths, so that a short one can end
inside a long one. In `forensic` the tree has the shape of `project1/test`: directories
before, between and after files; the buffer holds a line and a half. `MAX_ARGS` is the code's.

Deadlock is not checked: servers, users and listings end, and a request stream may dry up.

Fairness. `Offices` and `Channels` assume weak fairness of each thread and process
that can go on: a preemptive scheduler runs every runnable thread. A thread waiting
for a mutex gets it only if the mutex stays free, which weak fairness does not exceed.
Nothing makes users send, `pthread_cond_wait` return unsignalled or a user be killed.
In `Forensic` each process is scheduled and each signal delivered, and the programs it starts
end; nobody has to press CTRL+C. In `Offices`, fairness of `Serve` and of the two replies of main means that the user answered is
there; `Channels` is about users that are not.

## Disagreements

Met while modelling, reachable in the models and not runs of their own:

* After a shutdown two offices are in the section of the queue at once
  (`QueueExclusive` of `Offices` fails; `report.md:21`).
* The broadcast can fall between an office's test of the flag (`server.c:129`) and its wait
  (`server.c:133`), because main sends it without `queue_mut`: the office sleeps for
  ever and the server never ends, even with one office (`report.md:143`). A spurious return of
  `pthread_cond_wait`, which is in no loop, has the same effect by another way: the office finds the
  queue empty, goes back and locks the mutex it holds, and takes nothing any more (`SelfLocked`).
  `ShutdownEnds` and `RequestsServed` show that with one office there is no third. With several, an office that breaks out of the loop
  holding `queue_mut` can block the others (`LockHolder` names the possible holders).
* The errors of `types.h` are not answered as its list says ("the first within this list must
  be returned", `types.h:17`): a transfer to oneself is accepted (`types.h:27`), and one of the
  whole balance (`server.c:334`); a transfer of nothing is refused as RC_NO_FUNDS
  (`server.c:334`), to which no line of the list fits; a destination that does not exist is RC_ID_IN_USE
  (`server.c:330`), one that would get too much RC_NO_FUNDS (`server.c:341`); a wrong id is
  RC_OP_NALLOW before the password is looked at (`server.c:414`).
* A user killed between opening its FIFO and the write ends the whole server with SIGPIPE
  (`WriteReply` of `Channels`; `server.c:165`), where `types.h:22` has RC_USR_DOWN.
* Two transfers can pass the check of the funds together and take an unsigned balance
  below zero (`server.c:334`, `server.c:345`); two creations of one id can both be
  answered OK (`server.c:248`, `server.c:274`).
* `logAccountCreation` is called for the creations that fail (`server.c:199`): `slog` of
  `Ledger` collects exactly those that `create_user_account` refuses, against `sope.h:54`.
* An unknown operation is answered with the previous `ret_code` of the office or an
  uninitialised one (`NoOperation` of `Ledger`; `server.c:231`, `report.md:17`).
* A refused transfer answers with the balance of the destination (`EchoDest`;
  `server.c:320`, `report.md:17`).
* The id MAX_BANK_ACCOUNTS passes the checks and is past the end of the array
  (`ValidateUser`, `CheckCreate`, `EchoDest`; `server.c:370`, `server.h:10`).
* A password that the shell expands is hashed differently when the account is created
  (`server.c:282`) and at login (`server.c:383`); its owner may be refused. Conversely `pass""word`
  logs in for `password`, also as the admin (`server.c:422`). `Authentic` and `LoginSound`
  say which passwords work: those whose reading in double quotes is the reading stored.
* Requests still in the FIFO when the shutdown is read are lost (`server.c:66`).
* A server started with no offices (`server.c:19`) queues what it reads, joins nobody and
  ends without an answer; one with two may end without answering (`offices_drain`), or answer a
  user twice, the second time after unlinking the FIFO the user saw. Hence the hypotheses of
  `EndsAfterAnswers` and `RepliesAreOwn`.
* A user killed before it opens its FIFO, or one that opens a FIFO an earlier process with
  its pid left, blocks an office in `open` (`server.c:541`, `user.c:84`); a request that
  does not fit into the FIFO is dropped (`user.c:39`) and its user polls for ever, the
  timeout of `constants.h:34` being unused. A refused SHUTDOWN of such a user stops main
  (`server.c:62`), and with it everybody.
* Lines of `slog.txt` can be mixed, lost, doubled, cut or contain NULs, because the threads share
  the buffer of `atomicPrintf` (`log.c:149`); `report.md:21` says that a mutex protects the
  log. The server never calls `logRequest` and `logReply`, and both programs create
  their log with an undefined mode (`server.c:6`, `user.c:10`).
* `forensic` prints lines again, and halves of lines, when its output is a file or a pipe:
  each child of `fork` has a copy of the unwritten buffer (`forensic.c:259`;
  `CopiesByForkOnly` bounds it). The specification wants one line per analysed file.
* With -v and without LOGFILENAME it goes on after a warning (`forensic.c:408`) and exits at
  the first file. `-o` before the target takes the target for its value and truncates it
  (`forensic.c:376`), and `-h -h` and `-o -o` are taken as an option and its value; `ParsedAsUsage`
  shows that these are the only command lines beyond the usage message that the loop accepts.
* The counts of directories and files fall short, since pending signals merge
  (`forensic.c:256`; `Counted` says when they are exact, and that the first process's own entries are never lost). After CTRL+C or a failure the
  parent may end before its children, which go on as orphans (`forensic.c:115`).

## Proofs

TLAPS checks every theorem below for all values of the constants that the named
assumptions allow. All of them go the same way: an inductive invariant, one lemma
that `Init` implies it, one that a step preserves it, with a case per action, and the
property as its consequence. TLC has checked each of these invariants on the instance of
the run first. Only `ParsedAsUsage` is an invariant of a run without a theorem.

### Offices (any finite set of offices, any requests, spurious wakeups or not)

* `TypeCorrect`. `TypeOK` alone is not inductive: an office stores into `front` what it
  has loaded before, so `RegOK` says that this register holds a node or NULL.
* `CountsActive`. `CounterInv` adds to `ActiveCount` that an office between load and
  store holds `counter_mut` and has loaded the present value; so no other office is
  there. It does not use `queue_mut`, hence holds after a shutdown too.
* `QueueMutualExclusion`. `MutexInv`: before a shutdown, whoever is in the section
  of the queue owns `queue_mut`. The `unlock` branch is closed until the flag rises,
  which is why the theorem ends there.
* `LockHolders`. `HolderInv` needs only that the `unlock` branch is taken after the flag; the
  theorem covers the shutdown, where the mutex may be unlocked by somebody else.
* `TakenInOrder`. `DataInv`, on top of `MutexInv`, ties the list together: `front` is
  the node after the last one taken and popped, `freed` the nodes before it, `size` the
  number of the rest, corrected for the steps of the one office in the middle of
  `pop` (`ListInv`), and what that office has in its locals (`LocalInv`).
* `NoLostWakeup`. From `MutexInv`, `DataInv` and the types: `size` becomes positive only
  in `push`, whose signal wakes someone, and an office goes to sleep only on an empty queue.
* `OneOfficeInOrder`, `OneOfficeDrains`, with the hypothesis `Offices = {o}`: for two they are
  false (`offices_drain`). `SoleInv` is `DataInv` without its condition on the flag, and
  that main pushes nothing after the flag and an office closes on an empty queue only.

### Bank (any requests, any limits with 2 * MAX_BALANCE < Word: `BankAssumption`)

* `BalancesInRange`: `BalanceInv` is `BalanceRange` with the type of the array; the checks of
  a transfer bound both sums, so none of them wraps (`NoWrap`).
* `TypeCorrect` is by the same invariant.
* `MoneyConserved`: `BooksInv` adds that an account that was never created holds nothing, so that
  a create overwrites no money, and that finitely many were accepted. The sums are folds in an
  unspecified order; `SumTheorems` shows that this order does not matter, that a sum changes by
  what one member changes, and that a transfer within a set keeps it. The library's induction
  theorem is out of reach there; the induction is over a set of numbers (`SetInduction`,
  from the least number missing in it).
* `OnlyAuthentic`: `AuthInv` says that the array remembers who created an account: the
  admin's account does not change, an account that exists has the hash that an
  accepted create gave it, and an accepted create leaves an account that exists for good. Nothing is
  assumed of `Quoted` and `Unquoted`: what is shown is that the readings agree.
* `AcceptedJustly`, an action property, from `BalanceInv` and `AuthInv`: without the limits the
  sums might wrap, and without the admin's account the check of the operation is not
  the one of its type.

### Ledger (any finite set of offices, every interleaving)

* `TypeCorrect`: `Places` says what an office knows at each place of `acknowledge_request`, that
  the ids it uses as indexes are in the array above all.
* `LoginsSound`: `LoginInv`. Every hash in the array, half-written accounts included, is
  zero or was put there for a request that the admin's password let through (`HashInv`), and an
  office past the check of the password has seen such a hash (`Entitled`). A salt that another
  office changes in between only makes the comparison fail. Nothing about balances is needed,
  and nothing about who was first.
* `DisjointOfficesRefine` (`BankWhileDisjoint`): until two offices meet on an account, each step of
  an office is a step of the Bank or changes nothing the Bank shows. The steps that
  show are those that decide an answer: a refusal, an unknown operation, the load of a balance,
  the hash of a create, the result of a transfer.
  `OnceInv` says that a request is worked on once, that the place of an office fits the type of
  its request, and that past the checks the reply holds OK. `ApartInv` says, while there was no
  overlap, that the offices at work have different accounts (`Disjoint`), that an account without its
  id is still all zeros (`Zeroed`), that each check an office has passed still holds of
  `AccountsView` (`Passed`), and what it has written and loaded (`Written`). It is needed because
  the Bank checks everything in the one step that comes last, when the office made its checks
  long before; they must be remembered in terms of the view, since the office has itself
  changed the array by then. The other half are lemmas about the view: the store of a debit or
  a credit leaves it alone, because the unsigned sum takes back what was done even where
  it wraps (`ModBack`), and a step for one account leaves the others as they were.
* `ApartForeverRefines`: a behaviour without overlap is one of the Bank. `OneOfficeRefines`
  (`ImplementsBank`, with the hypothesis `Offices = {o}`): there is none to overlap with.
* `MoneyConservedApart` (`ConservedWhileDisjoint`): the invariants of `BankProofs`, instantiated
  with the views, hold as long as the refinement does (`BooksWhile`), and at rest the views
  are the array and the answers. `OneOfficeConserves`: hence one office loses no money at all.
  For two `Conservation` is false (`ledger_lost_update`).

### Channels (any finite sets of users and offices, any subset mortal or with old FIFOs)

* `TypeCorrect`: `Renewed`, a thread opens only a FIFO that it has made itself.
* `EndsAfterAnswers`, with the hypothesis `Offices = {o}`: for none and for two it is false of the
  code. `RequestInv` follows a request:
  at most once in the FIFO, then in the queue, then with one thread, then answered (`Once`); none is
  dropped unless the server is killed (`Kept`); offices close on an empty queue, main after them
  (`Ending`). `TrackInv` needs the queue to be `Orderly`, that is, the flag to be down or one
  office to be alone: then whoever is between `Front` and `Pop` has the head of the queue (`Popping`).
* `RepliesAreOwn`, in two parts: for any offices until the flag rises, and for one office for ever.
  `FreshInv` on top of `TrackInv`. For a user without an old FIFO, the path is empty until
  the thread that has its request makes the FIFO, no thread unlinks it, and so what
  `access` saw is still there at `open`.

### Log (any threads, processes and calls whose lines fit: `LogAssumption`)

* `TypeCorrect`: nobody ever stores anything but a NUL into the last cell of the
  buffer, so `strlen` stops even if lines are mixed.
* `LinesAreWhole`: `Undisturbed`, while no other thread has stored during a call, the cells
  before the place of the thread are those of its line, and `strlen` finds its length.
* `CallsAreLogged`: `OneEach`, the positions of a thread's chunks increase with the calls they are
  of, and `Shared`, only a thread of the same process disturbs a call; with `LinesAreWhole` the chunks
  of a process with one thread are its lines.

### Forensic (any tree, any command lines, any buffer of two cells or more: `ForensicAssumption`)

* `TypeCorrect`: `PlaceOK`, who lists has a directory and who is at `dump_stat` is at a file.
* `StopsAfterOneLine`: `TreeInv`, each directory is forked at most once, since it has one
  parent that has not come to it yet; so a child starts with no late lines. `Depth` excludes cycles.
* `CountersCount`: `CountInv`, an entry ahead of its process was not announced, and a pending
  signal stands for one that is not counted yet; `Own`, the entries of the first process are
  counted when they are found, and are in no other directory.
* `LoggedOnce`: `LogInv`, a file ahead is not logged, and what is printed was logged and
  announced wherever its line is now: in the output, in a buffer, or in a copy of one.
* `CompleteOnSuccess`: `CompleteInv`, a process that goes on has each line behind it in its buffer
  or the output, and has tried to fork each directory behind it; a line is garbage
  only after CTRL+C, and then the process does not go on.
* `CopiesBounded`: `CopyInv` counts the copies in the output together with the buffers that hold
  one, so that a flush does not change the total; each birth of a directory below adds at most one.

### What the proofs changed

* `JustlyAccepted` was not provable as first stated: a transfer of nothing is refused. The
  instance had no such request; it has one now, and the property names the case.
* The zeros of an account that was never created have a hash of their own kind (`NoHash`). When
  they were a value of the same type as a hash, the proof of `LoginsSound` needed an
  assumption on passwords that the code does not make.
* Neither refinement was provable as first stated. `InArray` looked at ids which a refused request
  never comes to use, so the Bank withheld answers that the server gives, for example to the
  create of a mere user with an id outside of the array. The instances had no such request; `bank` and
  `ledger_one` have one now.
* The answer of a failed create is decided when it is known that the log takes it (`Decided`).
* The sums of `Conservation` and of `AccountsView` are sums of functions over sets, as in the lemmas.
* `ExitAnswered` does not hold without offices (`server.c:19` allows it), nor with two.
* `Forensic` relies on directories and files having one parent each (`IsTree`: `listdir` follows no
  link to a directory, and hard links to files are taken for different files), `Log` on lines that
  fit and on known functions; both are assumptions now, which TLC evaluates.

### Only model-checked

* Liveness under fairness (`RequestsServed`, `ShutdownEnds`, `UsersAnswered`, `EveryoneEnds`):
  out of the prover's reach.
* `ParsedAsUsage`: it compares a recursive function over the arguments with all sequences that
  might have been meant; a proof is an induction over data.

## Not modelled

* The wording and widths of messages and log lines, the splitting of the user's last argument
  by `strtok`, passwords on which the shell fails or whose reading depends on the salt behind them
  (one that ends in `$` or `\`, or has a single `"`), `rand_string`'s characters, `dump_stat`'s dates (whose month is one short),
  permissions and hashes.
* Buffers too small for what is copied into them: the path of a user whose pid has more than
  `WIDTH_ID` digits, `file_command` and `command->directory` of `forensic`. What follows is
  undefined.
* The delay before a request (`usleep` is a step that may take any time).
* Failures of `malloc`, `pthread_create`, `popen`, and of `mkfifo` for other reasons
  than an existing file; a server with no offices or more than MAX_BANK_OFFICES.
* In `forensic`: the notices that the handler prints to stdout (through a `printf` that is not
  safe there), an output file inside of the listed tree, the use of `command` after `free`
  (`forensic.c:469`).
* `Makefile`s, the sample files of `project1/test` and the documents: no behaviour.

## Plan

1. Done: `Offices`, `Accounts`, `Bank`, `Ledger`, `Channels`, `Log` and `Forensic` with their runs;
   theorems for all invariants of the runs but `ParsedAsUsage`, for `JustlyAccepted` and for the
   refinement of `Bank` by `Ledger`.
2. Beyond TLC's reach in five minutes: the composition of `Offices` with the blocking replies of
   `Channels`. Each has an idealised step in place of the other.
