# TLA+ models of the added system calls and the files they touch

The repository is a Linux kernel tree in which a few system calls and kernel
modules were added (`kernel/usac`, `modules`) and some kernel files are kept
(`fs/read_write.c`, `kernel/sys.c`, `init/main.c`, headers and the system call
table). This directory models the parts of it that have state and concurrency,
checks them with TLC on small instances and proves the most important
properties with TLAPS for all instances.

## The system and its parts

| part | source | module | state of the work |
|---|---|---|---|
| memory limit registry: add, get, update, remove | `kernel/usac/project3` | `MemoryLimits`, `LimitRegistry` | modelled, checked, safety proved |
| process memory calls: tamalloc, memory_allocation_statistics | `kernel/usac/project2` | `TaskStats` | modelled, checked, all invariants proved |
| process table seen by those calls | outside the tree | `KernelTasks` | external |
| read, write, seek, sendfile, copy_file_range | `fs/read_write.c` | `FileIO` | modelled in part, checked, safety proved |
| get_io_throttle and its /proc entry | `kernel/usac/project1`, `modules/project1` | `IoThrottle` | modelled, checked, proved |
| memory snapshot and its /proc entry, memory lines of the statistics entry, sysinfo | `kernel/usac/project1`, `modules/project1`, `kernel/sys.c` | `MemoryInfo` | modelled (statistics and sysinfo in part), checked, proved |
| tamalloc_stats | `kernel/usac/project2` | `AddressSpace` | modelled, checked, proved |
| layout of an address space: prctl(PR_SET_MM) | `kernel/sys.c` | `AddressSpace` | modelled, checked, all properties proved |
| user and group identities | `kernel/sys.c` | `Credentials` | modelled, checked, all properties proved |
| process groups and sessions | `kernel/sys.c` | `ProcessGroups` | modelled, checked, all properties proved |
| priorities | `kernel/sys.c` | `Priorities` | modelled, checked, all properties proved |
| resource limits | `kernel/sys.c` | `ResourceLimits` | modelled, checked, all properties proved |
| boot configuration and options | `init/main.c` | `BootOptions` | modelled in part, checked, bounds of the arrays proved |
| start of the kernel threads, initcalls, choice of init | `init/main.c` | `KernelStart` | modelled in part, checked, safety proved |
| names, times, usage, other prctl options | `kernel/sys.c` | - | left out, see below |
| table, headers, makefiles, test programs | several | - | left out: declarations and single calls |

`kernel/usac/project3/202000173_CURD_memory_limit.c` is empty, and the programs
under `modules/project3` are binaries without source.

The parts meet in four places. The calls of projects 2 and 3 look up processes
that other processors start, end and reap at the same time (`KernelTasks`). The
calls of project 1 report the I/O counters that `fs/read_write.c` maintains:
`IoThrottle` extends `FileIO` with the readers. `Priorities` extends
`ProcessGroups`, whose groups it walks. `KernelStart` extends `BootOptions`,
which decides what is run as init. The other parts share no variable.

## Modules

### KernelTasks
Which task a pid resolves to, whether a task runs, is a zombie or is released,
and which address space it uses. `Clone`, `Exit` and `Release` stand for fork,
do_exit and release_task, which are not in this tree; they do what the added
calls can observe.

### MemoryLimits
One caller is one thread inside add, get, update or remove; `pc` and `frame` are
its place and its local variables. No lock protects the list, so a call is cut
at each access to shared memory:

| action | code |
|---|---|
| `AddCall`, `FindVpid`, `GetPidTask`, `GetStalePid` | argument checks, `get_pid_task(find_vpid(pid))`, which runs outside an RCU section, so the struct pid may be freed in between |
| `ReadMm`, `ReadVm`, `CheckUsage` | `get_process_memory_usage` reads `task->mm` twice; a fault is the pc `"oops"` |
| `ReadHead`, `AddWalk`, `Kmalloc` | the duplicate search and the allocation, which may fail |
| `ListAddRead`, `ListAddPublish` | the two halves of `list_add` |
| `PutTask` | `put_task_struct` and the return |
| `GetCall`, `GetWalk`, `GetCount` | get, one entry copied per step |
| `UpdateCall`, `RemoveCall` | each on the static list of its own file, which is empty |

`LimitRegistry` is what the documentation promises: a set with at most one limit
per pid. `log`, `hd` and `path` are history.

### TaskStats
tamalloc walks the process list under RCU; memory_allocation_statistics looks up
one pid. `listed` and `born` are the list, `gone_next` the pointer that an entry
keeps after `list_del_rcu`, `waits` the readers a grace period waits for and
`freed` the tasks whose memory is gone. `GetTaskMm` and `Mmput` take and drop
`mm_users`. Virtual and resident size are separate reads.

### FileIO
A call goes through the stages lock (`fdget_pos`), xfer (the file method) and
finish, where `todo` lists what the code still does after the data has moved, in
the order of the code: `rchar` before `syscr` before the position in `read`, the
position first in `readv`. Data is a count of bytes. `Attr` describes a file by
the flags that the code tests. Errors are found by `FirstError` over the checks
in their order. The file methods are not in this tree: `Transfer` lets them fail
or move any number of bytes that `generic_write_checks` and the size allow.
Left out are compat and argument-format variants, `kernel_read` and its family,
asynchronous iocb entry points, unsigned offsets and filesystem copy methods.

### IoThrottle
The readers of the counters: the system call, and the /proc entry with its
writable `pid` parameter, which is read once for the test, once for the lookup
and once for the heading. `read_bytes` and `write_bytes` belong to the block
layer and are left out.

### Credentials
setuid, setreuid, setresuid, setfsuid and the forms for groups. `cred` are the
current credentials of a task, `pend` the copy of a uid call between
`flag_nproc_exceeded` and `commit_creds` (`NULL` outside), `flag` is
`PF_NPROC_EXCEEDED`, `nproc` the process count of each user.

| definition | code |
|---|---|
| `MayRe`, `MaySet`, `MayRes`, `MayFs` | what a task without the capability may ask for |
| `Re`, `Set`, `Res` | the ids that are filled into the copy |
| `Setreuid` ... `Setfsgid` | the calls, with every error exit |
| `FinishUid`, `FinishGid` | the tail: `set_user`, the security hook, `set_cred_ucounts`, `flag_nproc_exceeded`; each failure drops the copy |
| `CommitCreds` | a later step, since processes of the same user start and end meanwhile |

The hook `FixSetuid`, `Execve` and the other processes (`OtherStarts`,
`OtherEnds`) are not in this tree. `own` is history: the fs id was chosen.

### ProcessGroups and Priorities
`pgrp`, `session` and `leader` are what `setpgid` and `setsid` change. Both hold
the write lock of `tasklist_lock`, so each is one step, and it waits while
`readers` is not empty. A refused call changes nothing and is no step. fork,
exit, release and the terminal are external; a released pid number is given out
again only when no process, group or session uses it.

`Priorities` adds `nice` and the calls over a process, a group or a user:

| action | code |
|---|---|
| `Begin` | the test of `which`, the bounds on the nice value, the choice of process, group or user |
| `ReadLock` | `read_lock(&tasklist_lock)`, after the group was chosen |
| `Check`, `SetUserNice` | the two halves of `set_one_prio` for one process |
| `Look` | one process of `getpriority` |
| `Finish` | end of the loop, unlock, return |

A process has one thread and a fixed user here. The order in which a walk meets
processes is left open.

### ResourceLimits
`rlim` are the limits of each process, `task_lock` the lock that `do_prlimit`
holds on the leader of the target, `nextevt` the next event of the CPU timer.

| action | code |
|---|---|
| `OwnLimit`, `Prlimit64` | getrlimit, setrlimit and the old forms; prlimit64 with the lookup, `check_prlimit_permission` and the reference on the target |
| `TaskLock`, `ReadOld`, `WriteNew`, `TaskUnlock` | the section of `do_prlimit` under the lock: checks, the old limit out, the new one in |
| `UpdateRlimitCpu` | the timer, armed behind the lock |
| `LimitReturn` | the copy to the caller with the conversion of its kind of call, the reference dropped |

`TimerFires` and `ProcessExits` are external.

### AddressSpace
`mm` are the eleven marks of a layout, `saved_auxv` the auxiliary vector,
`exe_file` the executable, `mmap_readers`, `mmap_writer` and `arg_lock` the locks.
`PrctlSetMm`, `PrctlSetAuxv` and `PrctlSetMmMap` are the checks up to the locks,
`MmapReadLock`, `ArgLock`, `StoreLayout`, `ArgUnlock`, `CopyAuxv` (a word per
step) and `MmapReadUnlock` what follows, `PrctlSetMmExeFile` the executable,
which is replaced before the locks. sys_brk (`BrkLock`, `BrkStore`,
`BrkUnlock`), `SetDataLimit` and `VmMmap` are external. `TamallocStats` is
the call of project 2 with `PAGE_ALIGN` in words of `WordSize`.
`touched` is history.

### MemoryInfo
A call reads the counters of the memory manager one by one (`ReadCounter`),
while `PageMoves` puts pages to other uses; then it computes its answer
(`FillMemorySnapshot`, `FillMemSnapshot`, `DoSysinfo`, `CompatSysinfo`,
`GetMemoryInfo`) in unsigned longs modulo `LongRange`. `during` is history: the
moves since the call began.

### BootOptions and KernelStart
`BootOptions` is the part of `start_kernel` in which one thread reads the boot
configuration and the command line: an option is a step, and a line is a
sequence of options. `KernelStart` goes on with `rest_init`, `kernel_init`,
kthreadd and the asynchronous work of initcalls, as threads of their own. An
initcall is a name in a level; what it does is external. `Ended` is a program
that runs as init, or a panic.

## Runs

All bounds are in the `.cfg` files. States are distinct states found by TLC.

| run | instance | states | shows |
|---|---|---|---|
| `limits_race` | 2 callers, 1 process, 2 nodes | 79 thousand | list order, balanced task references, get reports one state of the list, linked nodes do not change |
| `limits_serial` | 1 caller, 2 processes and pids | 126 thousand | the list implements `LimitRegistry`; calls return |
| `limits_duplicate` | 2 callers, 1 pid | violation | two racing adds register a pid twice |
| `limits_update` | 1 caller | violation | update never finds what add registered |
| `stats` | 1 caller, 3 tasks, one of them a thread | 1.3 million | `mm_users` balances, no freed task is used, the walk is complete |
| `stats_zombie` | 1 caller, a leader and a thread | violation | a process whose main thread has ended is skipped |
| `file_io` | 2 tasks, one file opened twice, 11 calls | 1.2 million | positions, accounting, limits, overlap, results |
| `io_throttle` | 1 task making 2 calls, 1 reader | 1.3 million | reports are recent, bytes fit the calls |
| `io_process` | 2 threads, 1 reader | violation | the report is of a thread, not of the process |
| `credentials` | 1 task, 2 users, 2 groups, up to 2 other processes | 393 thousand | users are charged for their tasks, privilege follows root, root is never flagged, dropped ids stay dropped |
| `sys_calls` | 3 processes with 3 nice values; 2 processes with 2 limits; 2 threads in one address space; 1 caller and 5 sizes of swap space | 612 thousand | the properties of `ProcessGroups`, `Priorities`, `ResourceLimits`, `AddressSpace`, `MemoryInfo` |
| `progress` | 337 command lines with boot configurations, 3 initcall levels; 2 tasks, a file and a pipe | 179 thousand | arguments of init, hand-over to kernel_init, initcalls in order, init memory freed last; the boot ends, file calls return |

`sys_calls` and `progress` put components side by side that share no variable.
Each behaviour is one of a single component (variable `part`), and the others
stay in an initial state. Nothing is lost by that: a step of one component
neither enables nor disables a step of another nor changes what its properties
speak of, so a behaviour in which they interleave has the property if the steps
of the one component have it.

The bounds are chosen so that the cases in question happen. Two callers are
the least that race on the list; the proofs remove that bound. `LongMax = 3` with a limit of 7 makes the
cast to `long` negative. Three tasks let an entry be unlinked under the cursor of
a walk and leave one behind it. In `file_io` sizes go up to 3 because with 2
the limits shorten every copy so much that ranges never overlap partly. In
`io_throttle`, `MaxRw = 1` and two calls are what it takes to see bytes of a
call that is not in the report. In `credentials` tasks share only the process
counts, and the other processes move those, so one task meets every case; the
proofs are for any number. In `sys_calls` three processes are a leader, a
process with a group of its own and a third that moves between them; two calls
are the least that race for a limit or a layout; three addresses of which two
are usable make every order of two marks; the sizes of swap space are on both
sides of each overflow of a 5-bit long and a 4-bit word. Overlapping
`setpriority` calls, and more than two racing calls on limits and layouts, are
left to the proofs. In `progress` two arguments and one variable fill the arrays
of init, so that the limits are met by short lines; one level has an initcall
whose work is the initramfs, another has one of the other kind.

Deadlock is not checked: callers may stop calling, tasks end, and the nodes and
the calls of an instance are bounded.

**Fairness.** `MemoryLimits!FairSpec` is weak fairness of each caller's steps:
inside a call a thread runs without waiting for others, so it only needs the
processor. In `MCProgress!AllFairSpec` the boot thread, kernel_init, kthreadd and
each piece of asynchronous work have weak fairness: a kernel thread that can run
is scheduled as long as there was no panic. The steps of a task in a file call
have strong fairness, because `fdget_pos` waits for a mutex that is handed to
its waiters in turn; weak fairness would let others take it for ever. New calls,
exits and truncations have no fairness.

**What the violations say.** Each is a statement of the repository that the code
does not keep; `PROJECT.json` quotes the line.

- `OneEntryPerPid`: search and insertion are not one step, so two adds of a pid
  can both succeed.
- `UpdateFindsListed`: update (and remove) declare a list of their own.
- `ZombieHasNoMemory`: the leader of a group can be a zombie while other threads
  use the address space.
- `ProcessTotal`: `task->ioac` counts one thread.

## Proofs

Checked by TLAPS for any constants that satisfy the named assumptions of the
modules (`TaskAssumption`, `PidAssumption`, `LimitAssumption`, `StatsAssumption`,
`FileAssumption`, `ReaderAssumption`, `CredAssumption`, `NullAssumption`,
`GroupAssumption`, `PrioAssumption`, `MmAssumption`, `InfoAssumption`,
`OptionAssumption`, `LineAssumption`, `StartAssumption`). They give the constants
their types and tell `NULL`, `NIL`, `NONE` or `NOTHING` from the other values; two
theorems assume more, which is said below.

**MemoryLimitsProofs.** `TypeCorrect`, `ListStaysOrdered`, `LinkedNodesAreFinal`,
`TaskRefsBalanced`, `GetReportsSnapshot`, `SerialImplementsRegistry`. Neither
`TypeOK` nor `ListOrder` is inductive: that a half-linked node is not on the list,
and belongs to one caller, is missing. `ListInv` adds `CallerOK` (what the local
variables satisfy at each pc) and `NodesDistinct`. The important case is
`ListAddPublish`: the stale pointer that the caller read leads to an older linked
node, so the order survives although another node may be lost.
`LinkedNodesAreFinal` is an action property that follows from `ListInv`, and with
it a walk of get stays a walk (`SnapInv`). `TaskRefsBalanced` goes on top of
`ListInv`, with one lemma each for steps that keep, take and drop a reference.
`SerialImplementsRegistry` assumes one caller (`OneCaller`; with two the
refinement fails, see `OneEntryPerPid`). `RegInv` says that the nodes reached from
the head are those that were linked, so that a search which has come to the end
has seen every registered pid; each step is then one of `LimitRegistry` or a
stutter.

**TaskStatsProofs.** `TypeCorrect`, `TaskStaysAllocated`, `MmUsersBalanced`,
`WalkIsComplete`. `RcuInv` says that the task under a cursor is safe, and that
the successor kept by an unlinked entry is safe too for each reader its grace
period waits for: without the second part a walk over two unlinked entries could
not be followed. `WalkInv` adds the order of the list: what the walk has still
to count is ahead of the cursor, along the pointers of unlinked entries too.

**FileIOLemmas, FileIOProofs.** `FileInvariant` and from it `AccountIsExact`,
`CopiesApart`, `PositionsAreKept`, `CallsReportMoved`, `FilesGrowWithinLimits`;
`ThrottleInvariant` and from it `ReportsAreRecent` and `ReportedBytesMatchCalls`.
`AccountExact` speaks of the steps a call has still to make, so `CallInv` says
which these are at each stage, in which order (`MustPrecede`), and what the checks
have established of position, count and limits. `LockInv` says that a position
lock has one owner, a call between `fdget_pos` and `fdput_pos`. `RateInv` bounds the
bytes counted by `MAX_RW_COUNT` for each call that is counted or about to be; the
readers need it, and `ReadersInv` adds that what a reader has copied fits what it
will still copy. `FilesGrowWithinLimits` assumes `MaxNonLfs <= MaxBytes`: for a
file opened without O_LARGEFILE `generic_write_check_limits` takes `MAX_NON_LFS`
instead of the limit of the superblock, also when that is the smaller one.

**BootOptionsProofs.** `ScansEndInside`, `InitArgumentsAreExact`. `InitArguments`
speaks of the end of the options; on the way there `PassInv` says what the arrays
hold when `Place` options are read. `ArgsInv`: the arguments since the last `init=`
stand in the slots that their number gives them, the slots behind are empty, and
slot `MAX_INIT_ARGS` holds the one argument that ever had it, if any. `EnvInv`: the
variables fill the first slots, every name once, with the last value read. Neither
is inductive without knowing what is read next: `PlaceInv` says that `args` is the
rest of the text, across the dashes and the change to the boot configuration. The
saved line needs no invariant but `ConfigInv`; it is a fact about dashes in
concatenated lines (`BehindConcat`, `UpToConcat`, `GluedHides`). Of the thread
`kernel_init`, which writes the program into the first slot, the proof needs only
that it is not there before the options are read (`EarlyInv`).

**MemoryInfoProofs.** `InfoInvariant`, `SnapshotsAreNear`, `SysinfoIsExact`. A
snapshot is taken from counters of different moments, so nothing can be said
about the values read so far alone. `SeenNear` completes them with the present
values of the counters still to be read: the figures of this mixture are off by
at most a page for every page that moved, a read does not change the mixture, and
when all is read it is the answer. For the answer modulo the word the proofs need
division with remainder (`DivideInt`, `ModShift`). `NoOverflow` shows that the
test of `do_sysinfo`, whether a doubled total became smaller, notices every
overflow; powers of two come from the number of subsets (`PowerDoubles`).

**CommitProofs** covers two families of calls that change a copy and commit it.

For `Credentials`: `TypeCorrect`, `UserAccounting`, `PrivilegeFollowsRoot`,
`RootNeverFlagged`, `FsIdsShadow`, `DroppedStaysDropped`. The properties speak of
committed credentials, so they are not inductive: `CredInv` also says of a
pending copy what it will be once committed (`NewOK`: consistent, the same
groups, fs id equal to the effective id, no id that the task could not take), and
that the flag agrees with the user after the commit. It states the counts exactly,
as other processes plus the tasks charged. One lemma per rule on ids
covers the user and the group form at once.

For `AddressSpace`: `LayoutStaysValid`, `FailureIsClean`, `GrantHasRoom`,
`NoMarkIsLost`. `MmInv` has three parts: which lock a call holds at which place
(`LocksInv`), what it has checked of its copy (`FrameOK`), and that the copy is
the layout but for its own mark (`MarkInv`). The last survives because every other
store needs `arg_lock`, or `mmap_lock` for writing. `PageAlignRoom` is the
arithmetic of `PAGE_ALIGN`.

**ProcessProofs** covers process groups, priorities, resource limits and the start
of the first processes, each with an invariant of its own.

- `ProcessGroups` and `Priorities`: `TypeCorrect`, `SessionsFitTogether`,
  `SessionsAreFresh`, `OutcomeIsReported`, `NiceOnlyByPermitted`. `SessionTree` is
  not inductive: `setpgid` lets a process back into the group of its own number
  without a look at its members. `SessionInv` adds what makes that safe: a group
  or a session with the number of a living process belongs to it (`Paired`), since
  a number in use is not given out again and `setsid` refuses the number of a
  group. `PrioInv` says what the one result tells at each point of a walk, and
  that the process between its check and its change is one the caller may change.
- `ResourceLimits`: `TimerCovers`, `ChangesAllowed`, `OldReplaced`. `LimitInv` says
  that the section under the lock has one owner per process, and that what was
  checked there (`MayReplace`) and read there (`old`) is still so at the write. The
  timer needs no lock: as long as it is later than the limit, some call that has
  written a limit no later is on its way to it (`StepCovers`).
- `KernelStart`: `InitIsHandedOver`, `FreedMemoryIsUnused`, `EarlyInitIsFound`,
  `InitcallsAreInOrder`. `StartInv` says what the boot thread has done at each of
  its places (`ThreadInv`), and where the unpacking of the initramfs is while the
  initcalls are made (`CallsInv`): the function is still to be called, its work is
  pending or done, or it is excluded. `OrderInv` counts: a function that has been
  called stands in the list of calls at the number of the functions up to its own
  that are not excluded.

The provers have no induction over data. Where a proof needs one (the walks, the
first empty slot, division, the doubled total) it takes the least counterexample
of a set of numbers (`Least`, from the well-foundedness of `<`; in `FileIOLemmas`
by cases, since a call makes at most eight checks).

Only model-checked: liveness (`CallsReturn`, `BootEnds`), for which the prover has
no rule for fairness, and the four statements that the code does not keep.

## Observations

Met while modelling, without a run of their own:

- `capture_memory_snapshot` fills `struct sysinfo` with `si_meminfo`, which
  leaves the fields on swap space alone, and copies those two fields to the
  caller; the comment above the assignments (line 37) announces swap among them.
  `FillMemorySnapshot` gives them arbitrary values, so no property speaks of them.
- `init_setup` and `rdinit_setup` clear `argv_init[1]` up to the slot before
  `MAX_INIT_ARGS`. An argument in the last slot survives `init=`, although the
  comment above the loop says that all arguments before it are ignored.
  `InitArguments` is stated with that exception.
- When the boot configuration has init arguments and the command line ends with
  the dashes, they are put behind the dashes without a blank in between. The saved
  line then has no dashes; `LineSaved` is stated with that exception.

## Not modelled

- `kernel/sys.c`: newuname, sethostname, setdomainname, times, getrusage, umask,
  getcpu, and the options of prctl besides PR_SET_MM. Each is one copy in or out
  under a lock, or a call into another subsystem; no two steps of them depend on
  each other.
- `fs/read_write.c`: compat calls and the entry points that only take arguments
  in another form, `kernel_read` and its family, asynchronous iocb entry points,
  unsigned offsets, copy methods of file systems. Their control is that of the
  modelled calls, or is in files outside this tree.
- `init/main.c`: the calls of `start_kernel` into other subsystems, the early
  pass over the options, the report of unknown options, and the tracing of
  initcalls.
- `modules/project1`: disk space and processor time of the statistics entry,
  which print counters of other subsystems.
- System call table, headers, makefiles and test programs: no state.
