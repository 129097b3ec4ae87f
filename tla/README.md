# A verification of qint's mail server

qint (`src/`) is a bundle: an installer that builds a complete mail server from
patched qmail-1.03, daemontools, ucspi-tcp, vpopmail, greylisting, a list manager,
filters and web tools.  Everything that makes it a *mail server* rather than a collection of
programs goes through one place, the queue directory of qmail-1.03: every other
part either puts a message into it or is started by it.  So the queue comes
first here, composed of its five programs and with proofs, and around it the programs with a
protocol of their own: one module each, checked by TLC in four groups, two of them with proofs too.

Paths below are relative to `src/sources/qmail-1.03/` unless they begin with `../`.

## 1. Inventory

### The core: the queue and its five programs

| part | state it keeps | operations | talks to | what makes it correct |
|---|---|---|---|---|
| queue directory (`hier.c`, `INTERNALS`) | one file per message in `pid`, `mess`, `intd`, `todo`, `info`, `local`, `remote`, `bounce`, named by the inode number of the `mess` file | link, unlink, create, fsync, mark | everybody | a message is always in one of the five states of INTERNALS section 2 |
| `qmail-queue.c` | its inode, its place in the submission | `pidopen`, link `mess`, copy and fsync, `intd`, link `todo`, `cleanup`, `die` | caller's pipes, trigger | exit status 0 means: the message is safe on disk and will be handled |
| `qmail-todo.c` | message being preprocessed, buffered reports, `flagstopasap` | `todo_do`, `comm_write`, `comm_exit`, `comm_do` | qmail-send (pipe), a qmail-clean of its own | `info`, `local`, `remote` are complete and synced before `todo` goes |
| `qmail-send.c` | priority queues `pqdone`, `pqchan`, `pqfail`, jobs, passes, delivery slots, `flagexitasap` | `pqstart`/`pqadd`, `todo_do`, `pass_dochan`, `job_close`, `del_dochan`, `addbounce`, `markdone`, `messdone`, `injectbounce`, `cleanup_do` | spawners, qmail-clean, qmail-todo, qmail-queue | no recipient is forgotten, none is worked on by two jobs, each message ends |
| `qmail-clean.c` (two of them) | nothing | `foop/`, `todo/` requests, `cleanuppid` | its client's pipe | removes only what nobody needs |

### Around the queue

| part | state | hard because | what makes it correct |
|---|---|---|---|
| `qmail-start.c`, generations of daemons | pipes, `lock/sendmutex` | the end of a pipe is the only news of a death; the next generation starts while old daemons end | who is up knows every message, is told of none twice, and ends when told to |
| `trigger.c`, `triggerpull.c` | a FIFO and a scan of `todo/` | a pull comes between close and open, or during the scan | an announced entry does not wait for the timer |
| `spawn.c`, `qmail-lspawn.c`, `qmail-rspawn.c` | numbered slots with a child, a pipe, an exit status | SIGCHLD and the end of the output come in any order, slots are reused | one true report for each delivery |
| tables of `qmail-send.c` | bags of ids, jobs with `refs`, slots | failing stats, spawners that die | references are exact, a file goes when it is settled |
| `prioq.c`, `nextretry()`, `squareroot()` | a heap; file times | indices; integer roots; restarts | least first; due later than now, and not too often |

### Deliveries

| part | state | hard because | what makes it correct |
|---|---|---|---|
| `qmail-local.c` maildir, `maildir.c`, `qmail-pop3d.c` | names in `tmp`, `new`, `cur` | no locks: names, `link()` and ages | told means there, whole, once; nothing overlooked or cleaned away while it is written |
| `qmail-local.c` mbox | a file under a lock | a write fails, a process is killed | what was told is whole, what failed is cut off |
| `qmail-local.c` forwarding | `Delivered-To` lines, owners | addresses in circles, bounces of bounces | every chain ends |
| `qmail-remote.c`, `qmail-rspawn.c` | one SMTP dialogue, with TLS and AUTH | the connection breaks anywhere | success only if taken; perhaps taken twice only with "Possible duplicate!" |
| `tcpto.c` | a table in a file shared by all | read, connect, write: a minute between | a host rests after two timeouts, and only then |
| `blast()` in three programs | a state machine on bytes | bare CR, bare LF, dots | what one writes the other reads |

### Servers

| part | state | hard because | what makes it correct |
|---|---|---|---|
| `../daemontools-0.76` supervise | flags, a child, a FIFO | signals and commands between wait and poll | a wanted service runs |
| svscan | a table of pairs of processes and pipes | directories change while they are read | one supervise per role, the pipe is kept |
| multilog | `current` and old files | killed between two system calls | every line once, in order |
| `../ucspi-tcp-0.88` tcpserver, `rules.cdb` | a count of children | SIGCHLD; rules replaced meanwhile | the count is exact, the limit holds |
| cdb (`cdb_make.c`, `cdb.c`) | lists, tables | equal keys, equal hashes | every record of a key is found, in order |
| `qmail-smtpd.c`, `qmail-spp.c` | a session | commands in any order; counters that outlive a message | what is queued is what was answered 250, on the terms in force |
| `../jgreylist` | one file per block of addresses, and its times | no lock; a cleaner; an alarm | held for the time, then let in; the talk ends |

### Accounts and lists

| part | state | hard because | what makes it correct |
|---|---|---|---|
| `../vpopmail-5.4.27` users (`vcdb.c`, `vpopmail.c`) | `vpasswd`, its cdb, directories, counters | checks before the lock, compiled copy, kills | what was said of a user is so |
| domains | seven files, each with its own lock | killed or impatient between two files | accepted mail has a home; deleted leaves nothing |
| quota (`maildirquota.c`, `vdelivermail.c`) | `maildirsize` and the messages | nothing is locked | refused only when full; not exceeded by one after the other |
| `../ezmlm-idx-7.0.2` bounces | `bounce/d`, `bounce/h`, cookies | killed between two files, mail in flight | a dead address leaves, nobody is removed early |
| moderation | `mod/pending`, `mod/accepted`, `mod/rejected` | two moderators, ezmlm-clean, retries | kept until decided, decided once, told truly |
| archive | `num`, `archive/`, `index`, `dignum` | a number is taken before qmail-queue agrees | number, file and index line agree; one digest |

### Not modelled

`qmail-inject.c` (headers), `qmail-qmtpd.c`, `qmail-qmqpd.c` and `qmail-popup.c` (short sequential
sessions), the filters `simscan`, `qmail-qfilter`, `altermime`, `ripmime` (each transforms one
message), `maildrop`, `autorespond`, `qmailadmin`, `isoqlog`, `qmailmrtg`, `qmailanalog`, `qmHandle`,
`install`, `uninstall`, `scripts/` (shell), and `../q103`, a second copy of the qmail
tree.  Section 5 says why, and what is left out of the parts that are modelled.

### What is hard

* **No locks.**  qmail-queue, qmail-todo, qmail-send and two qmail-cleans work on
  the same names at once; so do deliveries and sessions in a maildir, connections on a greylist
  entry, and deliveries on `maildirsize`.
* **Locks that come too late.**  tcpto, vpasswd, ezmlm-get: what decided was read before the lock.
* **Crashes between any two calls**, and restarts that find the rest.
* **Names are reused**: inode numbers, delivery slots, message numbers of a list.
* **Signals** that are let in at one place of a loop (supervise, tcpserver, spawn, jgreylist).
* **Time as a lock.**  36 hours are taken as proof that a qmail-queue, or a delivery, which kills
  itself after 24, is gone.
* **Order of effects**: note the failure, then mark; sync, then link; tell, then remove.
* **State that outlives its transaction**: the SMTP session, the report of a reused slot.
* **Ends**: of daemons, of forwarding circles, of retries, of conversations.

`PROJECT.json` lists forty of these under `hazards`, the gravest of each part, each at its line and with the
properties that would catch it.  Not among them, and not covered: a D report is dropped if `comm_write()` finds no memory
(qmail-todo.c:228; the message waits for the next start), and the second byte of `delnum` is a signed `char`
(qmail-send.c:933; harmful only above 32767 slots).

## 2. The modules

```
MailContract              what the queue promises            (abstract)
   ^  KeepsContract
MailSystem                everything together, deaths, time, properties, fairness
   |-- QmailQueue         qmail-queue        \
   |-- QmailTodo          qmail-todo          > EXTENDS QueueDir
   `-- QmailSend          qmail-send         /
QueueDir                  the queue directory
MCMailSystem              small instances for TLC
QueueSafety               the proofs about MailSystem, section 4

MCScheduling   DaemonLifecycle  Spawn  SendJobs  Prioq  RetrySchedule  Trigger
MCDelivery     Maildir  Mbox  Forwarding  QmailRemote  TcpTo  DotCode
MCServers      Supervise  SvScan  Multilog  TcpServer  Cdb  SmtpSession
               Greylist  GreylistTalk
MCAccounts     Vpasswd  VDomains  Quota  EzmlmBounce  EzmlmModerate  EzmlmArchive
SendJobsSafety, LifecycleSafety                      theorems about components, and
   `-- SchedulingSafety                              about MCScheduling, section 4
MultilogSafety                                       the same
   `-- ServersSafety                                 about MCServers, section 4
DeliverySafety                                       theorems about MCDelivery, section 4
AccountsSafety                                       theorems about MCAccounts, section 4
```

### The queue

**QueueDir.**  `files` is a set of pairs `<<d, id>>`; `Has`, `Link`, `Unlink` read and
change it.  Of contents it keeps what somebody depends on: `held[id]` (whose
message the inode contains), `pending[id]` (recipients whose record in `local/` or
`remote/` still begins with T), `noted[id]` (recipients listed in `bounce/id`),
`dirty` (files whose contents an fsync has not yet reached).  `age[id]` is the time since the
inode was created and saturates above OSSIFIED; the code compares `st_atime`, which
a later read can only move forward, so that reaping is delayed but never early.
`expired` holds the ids whose `info/` is older than `queuelifetime`, which may
be any number.

**QmailQueue.**  `wpc[m]` names the next system call of the qmail-queue that submits m.
`PidOpen` takes a `Fresh` inode number, i.e. one that neither a directory nor a live
process holds.  `Abandon` is `die_read()`/`die_write()`, whose cleanup is two further steps;
`WriterDies` covers the alarm, signals and every exit that does not clean up.

**QmailTodo.**  `todo_do()` between its system calls: stat, three unlinks of what an
interrupted predecessor left, create `info`, one `CopyRecipient` per T record, two
fsyncs, the two unlinks of the `todo/` request, the D report.  With `IoErrors` every
call can fail and `GiveUp` then leaves the files where they are, as `fail:` does.

**QmailSend.**  `spc` is "idle" in the select loop, or the next step of the handler
that is running.  Handlers whose effects others could see half done are several
steps (`messdone`: four stats, the bounce, three or four unlinks; `cleanup_do`: two stats, two
unlinks; a failure report: note, then mark), the others one.
`JobClose` is `job_close()`; `Busy` stands for its `refs`.  An entry of a priority queue may be due at
any time; slots of `del` are named by recipient, not by number.  `SpawnerReports` is the environment: K,
Z or D, of which only K means that the message was delivered.  A bounce message is
injected by yet another qmail-queue, which accepts it or does not.

**MailSystem.**  Composes the above and adds `Start`, the two pipes, and
every death: of qmail-send, qmail-todo and of each qmail-clean in the middle of a request, SIGTERM, and
`Reboot`, after which all processes are gone and of unsynced contents any part may
be.  `late` holds unlinks that an orphaned qmail-clean will still make.  As INTERNALS
section 1 asks of the file system, link and unlink are taken to be synchronous.
D marks and bounce notes are not synced by the code, so a reboot
may undo them: an undone mark means a second delivery, which INTERNALS section 6
allows; a note that is lost although its mark survived is a failure nobody hears
of, and the model records it in the history variable `forgotten`.

**MailContract.**  An accepted message stays until each recipient has been delivered to or
reported; only a message that is there is delivered; eliminated messages never come back.
`InQueue` is the refinement mapping: a message is in the queue from its `todo/` link to the removal of its `info/`.

### Scheduling

**DaemonLifecycle** has generations of qmail-send, qmail-todo and spawners, each with its
pipes, and looks at one question: who knows of a preprocessed message.  A
message is only its place.  `Restart` says for whom the next `qmail-start` waits.
**SendJobs** refines what QmailSend takes for sets: `pqchan`, `pqfail`, `pqdone` are bags,
`jo` has `refs`, `numtodo`, `flaghiteof`, `d` has numbered slots; `StatFails` and `IoErrors` turn on failing calls.
**Spawn** is the loop of `spawn.c` with qmail-send as its client: `NewCommand` takes a command, `Sigchld` and
`EndOfOutput` come in any order, `lingers` are grandchildren that hold the pipe.
**Prioq** computes the path of the hole in `prioq_insert()`/`prioq_delmin()` and moves the elements on it.
**RetrySchedule** has a clock, birth times, `nextretry()` with `squareroot()` as the code
iterates it, SIGALRM, `pqfinish()` and restarts.  **Trigger** is the FIFO as a kernel object
(readers, writers, data, hang-up) between qmail-queue's three calls and those of `trigger_set()`.

### Delivery

**Maildir**: children of qmail-local call by call (`chdir`, alarm, stat and retry of a
name, create, write, sync, link, unlink), and sessions of qmail-pop3d that clean `tmp`, list `new` and `cur`, and
at QUIT unlink or rename.  **Mbox**: lock, seek, append, the cut after a failure.
**Forwarding**: what the lines of a `.qmail` file do to a message, `Delivered-To`, owners, exit
codes, and qmail-send's bounces, over every assignment of files to addresses of the instance.
**QmailRemote**: one delivery to the hosts of a domain, reply by reply, with TLS, AUTH, the reports and what qmail-rspawn makes
of them.  **TcpTo**: `tcpto()` and `tcpto_err()` call by call, with time.  **DotCode**: the three
`blast()` functions, byte by byte for the reader, and TOP.

### Servers

**Supervise**: the flags, SIGCHLD blocked but for `iopause()`, the self-pipe, the control FIFO.
**SvScan**: `readdir()` against a changing directory, the table by inode, both pids of each entry.
**Multilog**: `fullcurrent()`, `finish()`, `restart()` and the processor call by call with
kills and crashes; `processor` says whether the script has one.  **TcpServer**: accept, fork, the blocked SIGCHLD, `limit`, `rules.cdb`.
**Cdb**: for every hash function of the instance.  **SmtpSession**: commands in any order, `databytes` and `bytestooverflow` with their width,
AUTH, STARTTLS, SPF's line, plugins.  **Greylist**: `stat`, `creat`, `utime` of any number of
connections against the cleaner; **GreylistTalk**: the loop with its alarm.

### Accounts

**Vpasswd**, **VDomains**, **Quota**: the programs of vpopmail between their file operations.
**EzmlmBounce**, **EzmlmModerate**, **EzmlmArchive**: the programs of a list between theirs, and the
mail that is on its way.

`PROJECT.json` `map` gives the lines each definition stands for.

### How the four groups are composed

The components of a group share no state in the code, or share what one of them abstracts (the retry
times of RetrySchedule are the "any time" of SendJobs), so a product of them would only multiply
states.  Each MC module is a *sum*: `part`, chosen in `Init` and never changed, says which instance runs,
`Next` is the disjunction of the instances' next-state relations, and all other variables stay.
A component's constants are given where it is instantiated, some components
several times with different ones: numbers for those parts that are only model-checked, and
for those with a theorem constants of the MC module (`Jobs == INSTANCE SendJobsSafety WITH NSlots <- JobSlots, ...`),
whose values are in the `.cfg`.  Where a theorem is about all instances of a component at once, the constant is
a set of records, one for each part, and the instance has a parameter (`Dir(k) == INSTANCE Maildir WITH
Deliveries <- k.deliveries, ...`); the set that TLC checks is defined in the MC module (`MCMaildirs`).  `InstancesAssumption` has TLC check each component's assumption, and
is what the theorems about the group assume.  A component with proofs is instantiated through its proof module.  A property of the group is the conjunction of its parts' properties,
each under `part = ...`; these are stated, with comments, in the components.  Type invariants are conjuncts of them.

## 3. The runs

`CHECK_DEADLOCK FALSE` everywhere: when every message is gone and the
crashes, commands or deliveries of the instance are used up the system stops.

### The queue

All bounds: `DEATH = 1`, `OSSIFIED = 2`, ages 0..3 (one tick is about 12 to 24
hours: the code only distinguishes alive, dead, and long dead);
`MaxCrashes` bounds deaths, terminations and reboots together.  Death of a qmail-queue is not
bounded.

| run | instance | shows |
|---|---|---|
| `MailSafety` | 1 inode, 2 messages (one with a local and a remote recipient, one a double bounce), 1 crash | the type invariant and the six safety invariants.  One inode for two messages makes the second *reuse* the number of the first while unlinks and memory of it may be left |
| `MailIoErrors` | 1 inode, 1 message, 1 crash, every system call may fail | what failing calls endanger: nothing lost, every message still scheduled, one job per file |
| `MailTwo` | 2 inodes, 2 messages (one without recipients), no crash | two messages at different stages at the same time, symmetric inodes |
| `MailContract` | as MailSafety | the system implements `MailContract` |
| `MailLiveness` | 1 inode, 1 message, 1 crash, fairness | every accepted message is settled and its files go; leftovers are reaped |
| `MailStaleBacklog` | a message may wait in `todo/` for more than 36 hours | violation, see section 6 |

* `AllStates`: S1 to S5 of INTERNALS at every step of every handler.
* `NoLoss`: for each recipient of an accepted message, either it has been delivered
  to, or its failure was put into a bounce message (or discarded as a triple
  bounce, or lost by a reboot before it was synced), or the queue directory by itself leads a newly
  started qmail-send to it.
* `QueuedIsDurable`: whatever a reboot may tear is not yet, or no longer, what the
  queue depends on.
* `Scheduling`: while the daemons run, a preprocessed message is in a priority
  queue, has a job, is being eliminated, or its report is under way.
* `OneJob`: a channel file waits in its priority queue only when no pass or
  delivery of it is left.
* `NeverReaped`: nobody unlinks the files of a living qmail-queue.
* `KeepsContract`, `EventuallySettled`, `LeftoversReaped`.

**Why the bounds are enough to be of interest.**  Each invariant but the type
invariant concerns one message and those who handle it; what other messages
contribute is the reuse of an inode number (one inode, two messages), a shared
handler (two inodes), and a crash between any two steps of any handler.  Two recipients on two channels reach
every combination of `local/` and `remote/` in `job_close()` and `messdone()`.
For `AllStates`, `NeverReaped`, `OneJob`, `Scheduling`, `QueuedIsDurable`, `NoLoss` and
`KeepsContract` the question does not arise: they are proved for all values.  So are
`Handover`, `ReportsTrue`, `JobsExact`, `RespondInstantly`, `ServicesKept`, `LogKept`, `ConnectionsCounted`,
`SmtpAsAnswered`, `GreylistHolds`, `MailboxesKeep`, `ForwardsBounded`, `RemoteTells`, `UsersAsSaid` and `QuotaHolds` of the groups below.

**Fairness** (`MailLiveness`).  Weak fairness for a handler that has begun (a
process that is running goes on), for spawners (which report on everything they
are given), for the supervisor, and for time.  One *strong* fairness condition for all work
of qmail-send: every turn of its select loop calls `del_do`, `todo_do` and `pass_do`, so
none of them is left out for ever, although a handler in progress disables them again and
again; and one for `cleanup_do()`, called every turn too.  Bounces: qmail-queue accepts sometimes.
Nothing is assumed about crashes except that they end.

### The groups

| run | property | parts and instances |
|---|---|---|
| `Scheduling` | `Handover` | 2 generations, 1 message, 1 death (`NobodyForgotten`, `ToldOnce`); two starts at once (`OneDeliverer`) |
| | `ReportsTrue` | local and remote spawner, 2 slots, 2 deliveries, one ending for each kind of report (`TrueReports`, `InOnePlace`) |
| | `JobsExact` | 2 messages of 2 records, 2 slots, 2 jobs, failing reads and writes, dying spawners (`RefsExact`, `RightRecord`, `RemovedWhenSettled`, `OnePlace`, `QueueLegend`) |
| | `RespondInstantly` | 2 qmail-queues, timer, 2 deaths |
| | `DueInOrder` | heaps up to 5 elements with equal times (`MinOnTop`, `BagOfElements`); 2 messages, 5 units of time, SIGALRM, failures, restarts (`NoBusyLoop`, `SparseTries`, `TopIsEarliest`, `RootExact`) |
| `SchedulingLive` | `WorkEnds` | `ShutdownEnds`, `TodoFollows`, `AllAnswered`, `ExitsAfterClient`, `AllEnd`, `EveryoneEnds`, `ComesToRest`, `EveryEntryTaken` |
| `Delivery` | `MailboxesKeep` | 2 deliveries with the same process id, a session, a crash; 2 sessions; cleaning after the alarm (`ToldIsKept`, `NothingOverlooked`, `CleanSparesDeliveries` ...); 3 deliveries to one mbox, 2 troubles (`ToldIsWhole`, `NoRemains`) |
| | `ForwardsBounded` | 3 addresses with every choice among their files, 2 addresses tried twice with a kill |
| | `SilentHostsRest` | 2 qmail-remotes, 2 hosts, 2 records; a third host for a full table (all but `ConnectInPeace`) |
| | `RemoteTells` | 2 hosts, 3 tries with AUTH; 2 tries with TLS and a failing QUIT (all but `HeardIsTold`, section 6) |
| | `DotsAgree` | every message up to 5 bytes of dot, CR, LF and another; TOP up to 2 lines |
| | `DeliveriesEnd` | `ComesToRest`, `Ends` |
| `Servers` | `ServicesKept` | 3 commands of svc; 2 directories, one with a log, a table of 2, 2 changes, 2 deaths, 1 failure |
| | `LogKept` | files of 5 bytes, 3 lines, one old file, a kill and a crash; with a processor and without |
| | `ConnectionsCounted` | 3 clients at limit 2 and at limit 1, rules that change or break, 1 fault |
| | `CdbFinds` | 3 records, 3 keys with every hash function, blocks of 2, 2 tables |
| | `SmtpAsAnswered` | 2 messages, 3 recipients at limit 2, three sizes around two limits; a server that requires TLS and AUTH |
| | `GreylistHolds` | 3 connections, one run of the cleaner; a client of 5 lines at limit 2 |
| | `ServersFollow` | `WantedRuns`, `UnwantedStops`, `ExitEnds`, `ListedRuns`, `Taken`, `Ends` |
| `Accounts` | `UsersAsSaid` | 2 programs on 2 users, all operations, a kill |
| | `DomainsAsSaid` | 3 programs on 2 domains with a kill, morercpthosts from the second line on; one of them an alias; 2 programs impatient with locks |
| | `QuotaHolds` | 2 deliveries at once; 3 one after the other |
| | `BouncesCounted` | 2 bounces kept, 2 subscriptions, a kill; 3 bounces without kills; an address that always bounces |
| | `ModerationDecides` | 2 files, 2 moderators or one, a kill, a failure of qmail-queue |
| | `ArchiveWhole` | 2 posts, 3 numbers, a failing digest, a kill; with a failing post, and without (`InOneDigest`, `ReadsWhole`) |
| | `ListsFollow` | `DeadIsRemoved`, `CleanedUp`, `GetsDigested` |
| `EzmlmArchiveNum` | `InOneDigest` | violation, see section 6 |

The comment above each property says what it claims, and the component's definitions
exactly how.  Constants are the least for which the hazard can happen: two processes and the same name
(Maildir), a table that is full (TcpTo, SvScan), a slot used twice (Spawn), a limit that a
session reaches and passes (SmtpSession).  Numbers that only scale are small: 5 bytes for
multilog's files, 2 records of a cdb block for 1000, 64 for 2^32 in `Width`.

**Fairness of the parts.**  The groups share one `Spec` without fairness; each liveness property is an
implication from its part's own `Fairness`, e.g.
`part = "lspawn" /\ Spawner(LocalSpawner)!Fairness => Spawner(LocalSpawner)!AllAnswered /\ ...`.
The conditions are weak fairness of a process that can go on, of children that end and
signals that arrive.  Strong fairness is for what others disable again and again: turns of select loops
that look at every descriptor (DaemonLifecycle, SendJobs), the
turn of a program for a lock (EzmlmBounce, EzmlmModerate, EzmlmArchive), an `opendir()` that
does not fail for ever (Trigger), a recipient who does not fail for ever (SendJobs).
Assumed besides: a client goes some day (GreylistTalk), moderators' answers are read, cron starts
its programs again.

## 4. The proofs

TLAPS checks eight modules (27742 proof obligations).  `QueueSafety` (types, who may
have which files, scheduling, durability, no loss, the contract) EXTENDS MailSystem.
`SendJobsSafety`, `LifecycleSafety` and `MultilogSafety` EXTEND the components they
are about; `SchedulingSafety`, `DeliverySafety`, `ServersSafety` and `AccountsSafety` EXTEND the MC modules and
prove the properties of the runs `Scheduling`, `Delivery`, `Servers` and `Accounts` from the lemmas of the former and their own.

**The queue.**  Assumptions are those of the modules: `TimeAssumption` (`DEATH < OSSIFIED`, the comment at
qmail-queue.c:22), `EnvelopeAssumption` and `SystemAssumption` (types of the
constants).  No bound on messages, inodes, recipients or crashes is assumed, nor that `IoErrors` is
FALSE.  All theorems of the queue but the first assume `~StaleBacklog`, for the reason in section 6.

* `TypeCorrect`: `Spec => []TypeOK`.  `TypeOK` is not inductive: a step that updates
  `files` at `wid[m]` needs `wid[m]` to be an inode.  `Working` says so for each of the three program
  counters, and `Typed == TypeOK /\ Working` is inductive.
* `AlwaysQueueInv`: `QueueInv`, a
  conjunction of nine parts:
  - `LawfulInv`: which files may exist together;
  - `WriterInv`: exactly what a living qmail-queue has linked, its age and that its inode is its own;
  - `TodoInv`: what `todo_do()` may rely on at each step;
  - `KnownInv`, `ReportInv`, `DownInv`: a message qmail-send knows, or will hear of, is preprocessed, its
    channel file exists, and no report is sent about what is already known;
  - `SendInv`: what each step of `messdone()` and `cleanup_do()` has established;
  - `LateInv`: what an orphaned qmail-clean may still unlink;
  - `BacklogInv`: the assumption, as a statement about ages.

  They need each other: that `cleanup_do()` only meets messages without owner
  follows from the age in `SendInv` and the alarm in `WriterInv`; that the age
  proves anything about qmail-todo follows from `BacklogInv`; that reports never
  name a message twice needs that its `todo/` is gone (`LawfulInv`, `TodoInv`).
* `AlwaysAllStates`, `AlwaysNeverReaped`, `AlwaysOneJob` follow from it.
* `AlwaysDurable`: `Spec => []QueuedIsDurable`.  The property speaks of files that are
  linked; that they are synced by then follows from what qmail-queue has synced
  before its next step (`WriterSynced`), what qmail-todo has (`TodoSynced`: a channel file it has not created
  in this run has been unlinked, and then it is not dirty), and for the `todo/` file that goes
  late (`LateSynced`).  `DurableInv` is their conjunction; that no two processes work
  on the same file meanwhile comes from `QueueInv`.
* `AlwaysNoLoss`: `Spec => []NoLoss`, relative to `QueueInv` and `DurableInv`.
  `PromiseInv` adds to `NoLoss` the reasons why nobody is dropped on the way:
  - `HolderInv`: the inode of a qmail-queue still holds its message;
  - `RecordInv`: T records are in a file, so that unlinking the last file of a channel
    is what takes them away;
  - `CopyInv`: qmail-todo has copied each recipient or is going to, so that `todo/` goes only when
    `info/`, `local/` and `remote/` carry them all;
  - `JobInv`: of a file that was read to its end, what `numtodo` does not count is
    delivered or noted, so that `job_close()` may unlink it;
  - `FateInv`: what is about to be marked has been delivered or noted, and what
    `bounce/` lists when it is about to go has been reported;
  - `WholeInv`: a preprocessed message does not depend on an envelope that was not synced.
* `ImplementsContract`: `Spec => KeepsContract`, by the refinement mapping of MailSystem.
  The contract allows deliveries and reports only to recipients of the envelope and only
  while the message is in the queue, so `OriginInv` traces each of them back:
  an inode in `todo/` or `info/` belongs to one accepted message (`OwnerInv`), and what is in
  `local/`, `remote/`, `bounce/`, in a pass, in a delivery slot, still to be copied, or reported is
  in its envelope (`PendingAsked`, `NotedAsked`, `JobAsked`, `LeftAsked`, `ReportedAsked`).  Four steps are steps of the contract: the
  `todo/` link accepts, a K report delivers, the bounce message (or a reboot that
  loses a note) reports, the unlink of `info/` eliminates, for which `NoLoss` is needed.
  All others leave what the contract sees as it is.

* `AlwaysScheduling`: `Spec => []Scheduling`, relative to `QueueInv`.  That *somebody*
  knows of a message is not inductive: when the last of two channel files is done,
  `job_close()` trusts that the other one has an entry of its own.  So `TrackedInv` asks
  for an entry, a pass or a delivery for each channel file, and for one in `pqdone` or a
  `messdone()` at work when there is none; and `ChansInv`, that the report of
  qmail-todo names every channel file it has made, since `todo_del()` looks at nothing else.

The proofs have one lemma per action (or group of actions that change the
same variables), one step per conjunct an action can disturb, and frame lemmas for
what it cannot.  Every invariant was checked by TLC on the instances of section 3 first.

**SendJobs** (`SendJobsSafety`), for any number of messages, records, slots and jobs (`JobsAssumption`,
`NoMsgAssumption`: types of the constants, and that "no message" is none).
`JobsInv` is inductive whatever calls fail and whatever spawners do:

* `RefsExact` needs no more than that a slot's job is busy; `RightRecord` that nobody opens a busy job.
* `RemovedWhenSettled` does not follow from a counter, so `JobsCount` says what `numtodo` counts: there is a set
  S of records, `numtodo` of them, such that each delivery is about one of S, and each record that was read and is
  not in S was reported.  A success takes its record out of S, a deferral or a spawner that dies leaves it in, and `job_close()` unlinks
  when S is empty and the file was read to its end.
* `OneSlotEach` keeps two slots from taking the same record out of S; `MarksTrue`, that a mark in the
  file was preceded by a report, covers the records that a pass skips.
* `Preprocessed` and `PassPlaced` tie jobs and the pass to messages that qmail-todo has finished.

`AlwaysRefsExact`, `AlwaysRightRecord` and `AlwaysRemovedWhenSettled` follow.  `AlwaysOnePlace` and
`AlwaysQueueLegend` assume `~StatFails` besides, since with a failing `stat()` they do not hold (section 6, qmail-send.c:439);
they come from `PlaceInv`, which adds to `JobsInv` that `pqfail` stays empty, that what is in `pqdone` has no
channel file and what has a job has one (`TablesRight`).  `Inserted`, `Deleted` and their like
are lemmas about the bags that stand for the queues.

**Multilog** (`MultilogSafety`), for any sizes and numbers of files, any lines, kills and crashes, with and without a processor
(`MultilogAssumption`).  `LogInv` says what a new multilog may find
in the directory, whenever the last one was stopped (`Restartable`), and what it has made of that at each point
of its own work (`Logging`, `Rotating`, `Finishing`): data is in two files at once only if one of them will be deleted, and `+x` is
set only when the data is on disk.  `Room` gives each kill and each crash one old file more.  `Whole` joins what was
read with what was written: with `buf` empty, and no kill or crash, an even number of bytes was read, which is why a log ends between two lines.
What `Kept` says of a log in several files needs that appending an old file, or removing the first, appends to or cuts
from their concatenation: the community modules define `FlattenSeq` by a recursive function, and the lemmas about it
(`FlattenAppend`, `FlattenTail`) are proved by a least counterexample (`NoLeast`), for which the order of the naturals suffices.

**Spawn** (in `SchedulingSafety`), for both spawners, any number of slots and deliveries and any set of endings
(`SpawnAssumption`).  That a report is true depends on whose wait status a slot holds, so `SpawnInv` says:
a child that was not waited for holds its slot and its pipe (`SlotsTell`); the
status in `wstat` is that of the child of this delivery (`TruthTells`); and no two commands, slots and
reports are about the same delivery (`NumbersApart`), from which a new command finds its slot free.
`Places` is `InOnePlace` without counting; both cardinalities are derived from it.  The assumption that
`Running` is not an ending only keeps the history variable's values apart.

**DaemonLifecycle** (`LifecycleSafety`), for any number of messages and generations.
* `AlwaysNobodyForgotten` and `AlwaysToldOnce` assume `Restart = "clean"`, a supervisor that starts the daemons only when all of the last ones
  have ended; with `"supervised"` they fail (section 6, qmail-todo.c:647).  `MaxCrashes` is arbitrary.  In `HandoverInv`
  only the newest generation can have a qmail-send or a qmail-todo (`OneGeneration`), a message's D is in one pipe or buffer
  once and only while qmail-send does not know it (`Untold`), and nothing is preprocessed
  while `pqstart()` scans (`Scanning`): the message would be neither scanned nor told.
* `AlwaysOneDeliverer` holds however restarts are timed but assumes `MaxCrashes = 0`: a qmail-send that is killed leaves
  its spawners delivering, and `lock/sendmutex` goes with it.  `OwnerInv` ties deliveries in flight to the
  generation that has the lock.

**MCScheduling** (`SchedulingSafety`): `AlwaysReportsTrue`, `AlwaysJobsExact`, `AlwaysHandover` and `AlwaysRespondInstantly`
are `Spec => []...` for the properties of the run.  Each step is one of the part's component, whose step lemma is
used through the instance.  `JobsExact` is stated with `StatFails <- FALSE` and `Handover` with the restart and crash constants above, as they are
instantiated there.  The proof about Trigger is in this module: `Pulled` says that the byte a
qmail-queue has written stays in the FIFO until qmail-todo has closed it, and that the scan which follows has the entry
(`DirFails` is FALSE there; section 6, qmail-todo.c:402).

**MCDelivery** (`DeliverySafety`).  `DeliveryInv` is the conjunction of one invariant for each component:
* `DirInv` (Maildir), for any deliveries, process ids, sessions, ages and crashes.  A name is a process id and a time, and ids are used
  again: `Apart` says that whoever had the id before has ended before this name was taken, since its alarm came first, so that a
  file belongs to one delivery (`Owned`, `OneName`) and a child that works still has its file in `tmp` (`Working`).
  `KeepsTold` ties what was reported to `new`, `cur` or a client's wish.  Cleaning takes files older than `CleanAge`, and
  whoever works is younger than `AlarmAge`: that one is less than the other (24 and 36 hours) is all that is assumed of ages.  Sessions
  work on names listed long ago.  `Steady` is what every step of the others leaves them: no name is taken again,
  and nothing goes from `new` but to `cur` or for good, from which `Deletes` (QUIT takes away only what was asked for) and
  `Lists` (what was there at the first scan is listed or will be) follow for all other actions at once.
* `BoxInv` (Mbox).  Who writes has the lock, and knows what has been written since (`OwnPart`); what was
  reported is in the part of the file that a crash leaves (`SafelyIn`); `OthersTold` is `NoRemains` without the part of the writer.
* `FwdInv` (Forwarding), for any finite set of addresses, any `.qmail` files and owners.  `Sane` ties the sender of a message to
  the bounces before it: after one the sender is empty, after two it is `#@[]`, for which there is no third; and a message that
  reads lines is at an address it has not been at.
* `TableInv` (TcpTo), for any processes, hosts, records and times.  `Remembered`: the time of a record is that of a timeout of its host since its last success
  noted, and a count of two has another, two minutes before.  `Known` is the converse, if there is a record for every host: each such timeout is of a host
  with a record, not before the time of the record if it counts one, and within two minutes of it if later.  A count of nothing so means that there was no
  timeout, and its record can be given to another host without forgetting any; `RoomForAll` (pigeonhole) says that there is one.
* `RemoteInv` (QmailRemote), for any number of hosts and tries.  `Reported` says which letters were written at each point, `Taken`
  what the host knows by then, `Counted` that every copy but one has an excuse, and that the one is told or still to be told.

`AlwaysMailboxesKeep`, `AlwaysForwardsBounded`, `AlwaysSilentHostsRest` (the first conjunct an invariant, the others about steps) and `AlwaysRemoteTells` follow.  Of QmailRemote `HeardIsTold` assumes `~QuitFails`, as the run does.

**MCServers** (`ServersSafety`).
* `AlwaysConnectionsCounted`, for any limit and any finite set of clients.  `TcpInv` adds to the properties that a connection is
  in one place, the backlog, the parent or a child (`InOnePlace`), so that `fork()` makes one child more and SIGCHLD takes one
  less for each that has ended; that there is room for the connection accepted (`RoomFor`), which the limit needs; and that
  a child that has not read the rules yet may count those of now (`SeenNow`), which what it decides rests on.
* `AlwaysServicesKept`, for any number of commands, directories, renames and failures.  `KeeperInv` (supervise): between two calls
  the status file says what the flags are (`Announced`), and the flags what the child is (`Serves`); a supervise
  whose `fork()` always works is one of those whose `fork()` may fail (`ServiceIsNoFork`), so it is proved once.
  `ScanInv` (svscan): no two entries of the table share a directory or a pipe (`EntriesApart`), no process id is twice in
  it (`PidsApart`), and each process that runs, or was not waited for, is in an entry, as what it was started for (`Tracked`).  That a new
  process gets an id of its own needs one that is free: `PidsLeft` counts that the entries hold too few to
  use up `Pids`, which has two for each entry and one for each supervise that may die.
* `AlwaysLogKept`: from `LogInv`, below.
* `AlwaysGreylistHolds`, for any number of processes, times and runs of the cleaner.  `EntryInv`: the modification time of an
  entry, and the copy that a process is about to write back with `utime()`, is one at which a first
  connection was refused (`FromTheFirst`); verdicts count from such a time (`Judged`); what a process has seen is
  still there unless the cleaner has come (`Unswept`).  `TalkInv` relates the recipients that were answered to the counter at each point of the loop.
* `AlwaysSmtpAsAnswered`, for any senders, recipients, limits and sizes.  `SessionInv`:
  `AtHand` ties `mailfrom`, `rcptto`, `rcptcount` and the flags to what was answered since MAIL, in between and while the
  message is read; `Counted` says what `bytestooverflow` is when `blast()` starts; `Lawful` is what each queued
  message then satisfies for ever, `TakenTold` that only the last one may be unanswered.  For a server that requires TLS and AUTH the same
  invariant holds, since only MAIL differs (`StrictIsSmtp`), and `StrictInv` adds that a message at hand was granted under both.
  Hypothesis `LimitsAgree`: if there is a byte limit, there is one after AUTH too, and the Received-SPF line fits into the limit and the
  byte above it.  It excludes the two disagreements of section 6 at qmail-smtpd.c:1319 and :1208, and nothing else; where there is
  no limit without AUTH it says nothing.

**MCAccounts** (`AccountsSafety`), as the parts are instantiated there: with a disk that does not fill up
(`FullDisk`), no two compilations of a file of domains at once (`Together`) and no message that moves between the two counts
(`Moves`); each of them breaks a property (section 6).
* `AlwaysUsersAsSaid`, for any number of programs, users, deletions and kills and any size of the directories' hash.
  `VpInv`: `OneWriter`, that who rewrites or compiles has the lock, and `Compiled`, that a user's compiled records are those
  of `vpasswd` but between the rename and the compilation, give `CdbFresh`.  Checks are made before the lock, so no more can be said of
  a user on whom several programs work: `Overlaps` says who works alone (`alone`) and which users are `crowd`, until one that is alone
  has deleted the user.  `Working` says what a program that is alone has made of the user's records at each point, `Sure` that nobody
  works on a user of whom something is sure, `Tidy` that a user who was never in a crowd has one record and its directory.
  Users that a killed program worked on (`hurt`) are exempt, as in the properties.
* `AlwaysDomainsAsSaid`, for any set of hosts, each with any programs, domains, aliases, kills, patience and size of rcpthosts.
  `HostInv`: programs at work touch different domains; `Made` says which lines of a domain are there at each point of the program that
  adds or deletes it; `Settled` that the cdb files have the lines of the domain unless a program compiles them for it, and that the domain has one line
  of rcpthosts and morercpthosts together; `Read` that what a program read before it renames its cdb is the file but for domains that
  are compiled after it.  Three things leave a domain half done without anybody saying so, and the
  properties do not speak of it afterwards (`hurt`): a kill while a file is compiled, which the next program that finds nothing to change there does not
  repair; a lock that `vaddaliasdomain()` or `del_control()` gave up on; and domains deleted together whose lines are in both
  files, or of which not one line was in morercpthosts (section 6).  Only these: `HurtForCause`, which is a
  conjunct of the property.
* `AlwaysQuotaHolds`, for any set of mailboxes, each with any programs, quota, window, deletions and times.  `RefusedIfFull` needs no lock:
  `Fits` says, at each point, that if what a program knows leaves no room for its message, the mailbox was full at some
  time since that count began; the time at which each `maildirsize` was begun goes with it.  For
  programs one after the other, `OneByOne` says in between, and `HasRoom` at each point of the one at work, that the file has all messages
  and that there is room for what is about to be delivered.
* `AlwaysBouncesCounted`, for any set of addresses, each with any files, letters, subscriptions and kills.  `BounceInv`: `Warns` is
  `HasBounce` also between the two renames of ezmlm-return and between ezmlm-warn's unlinks; `WarnsOnce` says that, without kills, `bounce/d` has
  one file, which is there before that of `bounce/h`, and is old enough for a warning before ezmlm-warn may clean that away; `Waited` gives each
  file and letter, by its kind and its age, the number of timeouts that have passed since the first bounce, which is two for a probe.
* `AlwaysModerationDecides`, for any set of lists, each with any files, moderators, refusals, failures and kills.  `ModInv`: `Kept`, that a post of
  which moderators are, or are about to be, asked is whole until it was acted on; `DoneFirst`, that what is marked, or is about to be, was done, so
  that who comes second and reads the marker tells the truth; `DoneOnce`, that without kills a file that was acted on is gone, or still with
  the one that has `mod/lock` (`Acting`).
* `AlwaysArchiveWhole`, for any set of lists, each with any posts, numbers, failures and kills.  `ListInv`: `Archived` says which part
  of a message's number, line and file is there at each stage of ezmlm-send, and that a number given back was sent to nobody; `SentOnceOnly`, that
  without kills what was sent waits no more.  Where no number is given back, `WholeUpToNum` says that the files up to `num` are
  whole, and `Digested` what `digested` is while ezmlm-get has the lock, or waits for it: all up to `dignum`, to `digest.prev` once
  the new `dignum` is written.  That restriction (`sendfailures = 0`) is in the property: a number given back breaks both (sections 5 and 6).

**Only model-checked:**
* liveness (`WorkEnds`, `ServersFollow` and their like), which is out of the prover's reach, as is anything with ENABLED;
* `CdbFinds` and `DotsAgree`, which compare what folds and recursive functions compute over data;
* `DueInOrder`, which has no proof yet (section 7).

The component assumptions are plain definitions in the groups,
assumed in the MC modules, so that the components can be instantiated several times.

## 5. What is left out, and why

Of the queue:

* SIGHUP (rereading of `locals` and `virtualdomains`, newly chosen concurrency); mangled reports; memory allocation.
* The text of messages, headers, addresses, `rewrite()` (a constant
  `ChannelOf`), logging, the hash subdirectories.
* `MailSystem` itself starts daemons when the previous qmail-todo and qmail-cleans are gone;
  two generations at once are in DaemonLifecycle, retry times in RetrySchedule, `pqfail`,
  slots and `spawndied()` in SendJobs.

Of the other modelled parts:

* qmail-local: the choice of a `.qmail` file by name, environment of programs, `condredirect`, `except`,
  `preline`.  qmail-remote: several recipients in one run, DNS, routes; a break of TLS while
  reading or writing ends the program without "Possible duplicate!" (`tls.c`, `ssl_timeoutio.c`), which
  `excuses` counts as an excuse.
* qmail-smtpd: parsing of addresses, the RBL and SPF look-ups (only what they add to a message).
  qmail-pop3d: the dialogue; qmail-popup.
* daemontools: `envdir`, `softlimit`, `setlock`, `readproctitle`, `tai64n` (one exec, or a filter without
  state), multilog's patterns.  A multilog killed between the unlink of `current`'s name and `filesfit()` keeps one old file
  more until the next rotation; `RoomIsMade` allows it.
* ucspi-tcp: the order of keys in `rules.c`, the parser of `tcprules`, `tcpclient`, `rblsmtpd`, the DNS library.
* vpopmail: SQL and LDAP back ends, `vpopmaild`, `vchkpw`, `valias`, `vlimits`; a first look-up when
  `vpasswd.cdb` is missing, and two compilations that share one `cdb.tmp`, whose outcome
  could be any bytes; the HUP of qmail-send after a domain was changed.
* ezmlm: confirmation of subscriptions (a keyed hash), loop refusals of ezmlm-store, sublists, SQL,
  ezmlm-cgi, ezmlm-make.  `ReadsWhole` is checked and proved without failing posts: a post that fails leaves the x
  bit of the file whose number it gives back, so that a reader may see a part of the next.

Components with no module: message submission (header rewriting; what it does to the queue is running
qmail-queue), QMTP, QMQP and qmail-popup (sequential, one answer for each
request), filters, maildrop, qmailadmin, statistics, installer, `../q103`.  Most of the
lines of the bundle are in these: character set tables, MIME parsers, CGI pages, configure scripts.
They keep no state that another process sees.

## 6. Disagreements found

Two are runs that TLC must find violated.

`MailStaleBacklog`.  `cleanup_do()` (qmail-send.c:371-376) stats `info/id` first and
`todo/id` second.  Since qmail-todo is a process of its own, a message that has
been in `todo/` for more than 36 hours (the daemons were stopped over a weekend) can be
preprocessed between the two: both stats find nothing, and `mess/id` of a preprocessed
message is removed.  INTERNALS lists five states and -mess +info is none of them,
and section 6 allows the deletion only in states S2 and S3.  In the original,
single-process qmail-send the two stats could not be interleaved with the
preprocessing.  All other runs of the queue take `StaleBacklog = FALSE`, and the theorems
assume it.

`EzmlmArchiveNum`.  ezmlm-get reads `num` before it locks the list
(../ezmlm-idx-7.0.2/ezmlm-get.c:969, "max = last successful message").  ezmlm-send may have written
the number of a message that qmail-queue is about to refuse.  The number is taken back, the digest has
counted it, and the next message, which gets it, is in no digest.

The others show when a component is checked alone with the constants below; the groups
use constants, or leave out parts, for which the property holds, and the definitions that are
only about a disagreement (marked *) are conjuncts of no run.

| where | what | module: constants, property |
|---|---|---|
| qmail-todo.c:647 | `(r =! 1)`: a qmail-todo whose qmail-send has gone takes a message more, nobody hears of it if the next qmail-send has scanned already | DaemonLifecycle: `Restart = "supervised"`, `NobodyForgotten` |
| qmail-send.c:439 | an id of `pqfail` is inserted although it was announced meanwhile: twice in a queue | SendJobs: `StatFails = TRUE`, `QueueLegend` |
| qmail-todo.c:402 | a failing `opendir()` after `trigger_set()` loses the trigger: "respond instantly" (:28) waits for the timer | Trigger: `DirFails = TRUE`, `RespondInstantly` |
| tcpto.c:81 | a success is noted only if the host was in the table when it was looked up: two timeouts with a success between them count | TcpTo: `Every = TRUE`, `SkippedForSilence` |
| qmail-remote.c:277 | a write error at QUIT adds Z after the report of a permanent failure or success | QmailRemote: `QuitFails = TRUE`, `HeardIsTold` |
| ../daemontools-0.76/src/supervise.c:95 | after a `fork()` that failed nothing tries again until a command or a signal comes | Supervise: `ForkFails = TRUE`, `WantedRuns` |
| qmail-smtpd.c:1319 | no limit after AUTH leaves the counter of a message before: "0 for no limit" refuses | SmtpSession: `AuthBytes = 0`, `NotOversize` |
| qmail-smtpd.c:1208 | a limit below the length of Received-SPF wraps around | SmtpSession: `SpfHeader = 8`, `SizeKept` |
| qmail-smtpd.c:996 | without `badrcptto`, one recipient of `badrcpttonorelay` bars all later ones of the session | SmtpSession: `NoRelayFile = TRUE`, `BarredForCause` |
| ../jgreylist/jgreylist.c:460 | two first connections both create the entry; the hold begins anew | Greylist: `Hold = 2`, `MaxTime = 5`, `HoldFromTheFirst`* |
| ../jgreylist/jgreylist-clean:133 | an entry that is used between look and unlink is removed | Greylist: `Sweeps = 1`, `InUseKept`* |
| ../jgreylist/jgreylist.c:231 | an alarm between the test and `read()` is lost: a silent client stays | GreylistTalk: `Ends` without fairness of `Close` |
| ../vpopmail-5.4.27/vpopmail.c:664 | the check that a user does not exist precedes the lock: two records | Vpasswd: 3 programs, `Ops = {"add"}`, `OneRecordEach`* |
| ../vpopmail-5.4.27/vcdb.c:447 | a full disk cuts `vpasswd` short and the program says success | Vpasswd: `FullDisk = TRUE`, `SaidIsSo` |
| ../vpopmail-5.4.27/vpopmail.c:1092 | a domain in rcpthosts and its alias in morercpthosts: only one goes | VDomains: `Aliases = {"b"}`, `Full = 1`, `DeletedIsGone(Domains)` |
| ../vpopmail-5.4.27/vpopmail.c:1119 | a deletion killed between morercpthosts and its cdb; the next one finds no line, does not compile and says that the domain is gone | VDomains: 5 programs, 3 domains, `Full = 1`, `Killed = 1`, `DeletedIsGone(Domains)` |
| ../vpopmail-5.4.27/vpopmail.c:1024 | two compilations of users/cdb: the older may be last | VDomains: `Together = TRUE`, `AddedIsServed(Sound)` |
| ../vpopmail-5.4.27/vpopmail.c:3723 | the result of `add_domain_assign()` is dropped for aliases | VDomains: `Impatient = TRUE`, 3 domains, one an alias, `AddedIsServed(Domains)` |
| ../vpopmail-5.4.27/vpopmail.c:374 | a partly added domain cannot be removed | VDomains: `Killed = 1`, `PartialRemoved`* |
| ../vpopmail-5.4.27/maildirquota.c:611 | a message that moves between the two counts is counted twice | Quota: `Moves = TRUE`, `RefusedIfFull` |
| ../vpopmail-5.4.27/vdelivermail.c:566 | every delivery is written to maildirsize twice | Quota: `EachOnce`* |
| ../vpopmail-5.4.27/vdelivermail.c:1146 | two deliveries at once warn twice | Quota: `Alone = FALSE`, `OneWarning` |
| ../ezmlm-idx-7.0.2/ezmlm-warn.c:122 | the file of bounce/h stays for an address that is subscribed again; no warning while bounces are frequent | EzmlmBounce: `Dead`, `Prompt`, `MaxSubscriptions = 2`, `BounceWarns`* |
| ../ezmlm-idx-7.0.2/ezmlm-clean.c:166 | a permanent error of qmail-queue stops every ezmlm-clean at the same file | EzmlmModerate: `Refused = {1}`, `CleanedUp` |
| ../ezmlm-idx-7.0.2/ezmlm-store.c:355 | the orphan of a failed try is returned as "failed to act" after the post was accepted | EzmlmModerate: `MaxFailures = 1`, `LateIsUndecided`* |

## 7. Plan

Done: the queue with its theorems; the four groups; theorems about Scheduling (all but `DueInOrder`), about Delivery (all but
`DotsAgree`), about Servers (all but `CdbFinds`) and about Accounts.  Left, in this order:

1. A proof of `DueInOrder`; its order of the heap needs induction over the heap's levels.
2. SendJobs as a refinement of QmailSend, and DaemonLifecycle's generations inside MailSystem.
3. qmail-qmtpd, qmail-qmqpd and qmail-popup next to SmtpSession; the confirmation of subscriptions.
