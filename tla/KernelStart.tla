----------------------------- MODULE KernelStart -----------------------------
(***************************************************************************)
(* init/main.c: the boot thread behind the options (rest_init), the thread *)
(* kernel_init that it starts, kthreadd, and the asynchronous work of the  *)
(* initcalls, until a program runs as init or the kernel panics.           *)
(***************************************************************************)
EXTENDS BootOptions

CONSTANTS Levels,         \* the initcalls: Levels[1] early ones, then level 0, 1, ...
          AsyncCalls,     \* initcalls that leave work for another thread
          PopulateRootfs, \* the one whose work unpacks the initramfs
          DefaultInit     \* CONFIG_DEFAULT_INIT, NONE when it is empty

ASSUME StartAssumption ==
  /\ Levels \in Seq(Seq(STRING)) /\ Len(Levels) > 0
  /\ PopulateRootfs \in AsyncCalls
  /\ \E l \in 1..Len(Levels) : \E i \in 1..Len(Levels[l]) : Levels[l][i] = PopulateRootfs
  /\ \A m \in Machine : m.initramfs \subseteq STRING

VARIABLES kinit,         \* where kernel_init() is
          kthreadd,      \* the kthreadd thread: "none", "ready" or a request it has
          next_pid, init_pid, kthreadd_task,
          kthreadd_done, \* the completion
          system_state,
          level, todo,   \* the initcall level and its functions still to call
          called,        \* the initcalls made
          async,         \* asynchronous work that has not ended
          populated,     \* the initramfs is unpacked
          initmem,       \* FALSE once free_initmem() has run
          candidates     \* the programs to try as init

threadVars == <<kthreadd, next_pid, init_pid, kthreadd_task, kthreadd_done>>
callVars == <<level, todo, called>>
lateVars == <<populated, initmem, candidates>>
startVars == <<kinit, threadVars, system_state, callVars, async, lateVars>>
bootVars == <<optionVars, startVars>>

BootInit ==
  /\ OptionInit
  /\ kinit = "none" /\ kthreadd = "none"
  /\ next_pid = 1 /\ init_pid = 0 /\ kthreadd_task = NONE /\ kthreadd_done = FALSE
  /\ system_state = "BOOTING"
  /\ level = 1 /\ todo = <<>> /\ called = <<>>
  /\ async = {} /\ populated = FALSE /\ initmem = TRUE
  /\ candidates = <<>>

-----------------------------------------------------------------------------
\* A step of the boot thread in rest_init().
BootStep(from, to) == /\ boot = from /\ boot' = to
                      /\ UNCHANGED <<configVars, args, initVars, programVars, callVars, async, lateVars>>

\* user_mode_thread(kernel_init): from here on kernel_init() may be scheduled.
SpawnInit ==
  /\ BootStep("rest_init", "spawn_kthreadd")
  /\ kinit' = "wait" /\ init_pid' = next_pid /\ next_pid' = next_pid + 1
  /\ UNCHANGED <<kthreadd, kthreadd_task, kthreadd_done, system_state>>

\* kernel_thread(kthreadd)
SpawnKthreadd ==
  /\ BootStep("spawn_kthreadd", "find_kthreadd")
  /\ kthreadd' = "ready" /\ next_pid' = next_pid + 1
  /\ UNCHANGED <<kinit, init_pid, kthreadd_task, kthreadd_done, system_state>>

\* kthreadd_task = find_task_by_pid_ns(pid)
FindKthreadd ==
  /\ BootStep("find_kthreadd", "scheduling")
  /\ kthreadd_task' = next_pid - 1
  /\ UNCHANGED <<kinit, kthreadd, next_pid, init_pid, kthreadd_done, system_state>>

\* system_state = SYSTEM_SCHEDULING
ScheduleState ==
  /\ BootStep("scheduling", "complete")
  /\ system_state' = "SCHEDULING"
  /\ UNCHANGED <<kinit, threadVars>>

\* Mutant: the completion is forgotten.
CompleteNever ==
  /\ BootStep("complete", "idle")
  /\ UNCHANGED <<kinit, threadVars, system_state>>

\* complete(&kthreadd_done), and the boot thread becomes the idle thread.
Complete ==
  /\ BootStep("complete", "idle")
  /\ kthreadd_done' = TRUE
  /\ UNCHANGED <<kinit, kthreadd, next_pid, init_pid, kthreadd_task, system_state>>

-----------------------------------------------------------------------------
\* A step of kernel_init().
InitStep(from, to) == kinit = from /\ kinit' = to

\* Mutant: kernel_init() does not wait.
WaitForKthreaddNot ==
  /\ InitStep("wait", "workqueue_init")
  /\ UNCHANGED <<optionVars, threadVars, system_state, callVars, async, lateVars>>

\* wait_for_completion(&kthreadd_done)
WaitForKthreadd ==
  /\ InitStep("wait", "workqueue_init") /\ kthreadd_done
  /\ UNCHANGED <<optionVars, threadVars, system_state, callVars, async, lateVars>>

\* kernel_init_freeable() starts: workqueue_init() makes kthreads, by a request
\* to kthreadd, and waits for them.
WorkqueueInit ==
  /\ InitStep("workqueue_init", "kthread_wait")
  /\ kthreadd' = "request"
  /\ UNCHANGED <<optionVars, next_pid, init_pid, kthreadd_task, kthreadd_done, system_state, callVars, async, lateVars>>

\* The kthread exists; do_pre_smp_initcalls() is next.
KthreadsMade ==
  /\ InitStep("kthread_wait", "initcalls") /\ kthreadd = "ready"
  /\ todo' = Levels[1]
  /\ UNCHANGED <<optionVars, threadVars, system_state, level, called, async, lateVars>>

\* Mutant: the list of the user is not looked at.
DoOneInitcallAll ==
  LET fn == Head(todo) IN
  /\ InitStep("initcalls", "initcalls") /\ todo # <<>>
  /\ todo' = Tail(todo)
  /\ called' = Append(called, fn) /\ async' = async \cup ({fn} \cap AsyncCalls)
  /\ UNCHANGED <<optionVars, threadVars, system_state, level, populated, initmem, candidates>>

\* do_one_initcall(): a function on the list of the user is passed over; what
\* a function returns is not looked at.
DoOneInitcall ==
  LET fn == Head(todo) IN
  /\ InitStep("initcalls", "initcalls") /\ todo # <<>>
  /\ todo' = Tail(todo)
  /\ IF fn \in blacklisted_initcalls
       THEN UNCHANGED <<called, async>>
       ELSE called' = Append(called, fn) /\ async' = async \cup ({fn} \cap AsyncCalls)
  /\ UNCHANGED <<optionVars, threadVars, system_state, level, populated, initmem, candidates>>

\* do_initcalls() goes to the next level; before the first one it allocates
\* the copy of the command line, and panics without memory.
DoInitcallLevel ==
  /\ todo = <<>> /\ level < Len(Levels)
  /\ \/ /\ InitStep("initcalls", "initcalls")
        /\ level' = level + 1 /\ todo' = Levels[level + 1]
     \/ /\ level = 1 /\ InitStep("initcalls", "panic")
        /\ UNCHANGED <<level, todo>>
  /\ UNCHANGED <<optionVars, threadVars, system_state, called, async, lateVars>>

\* Mutant: the program is looked for while the initramfs is unpacked.
EarlyUserspaceSoon ==
  /\ InitStep("initcalls", "async_synchronize") /\ todo = <<>> /\ level = Len(Levels)
  /\ ramdisk_execute_command' = IF populated /\ ramdisk_execute_command \in machine.initramfs
                                  THEN ramdisk_execute_command ELSE NONE
  /\ UNCHANGED <<boot, configVars, args, initVars, execute_command, blacklisted_initcalls>>
  /\ UNCHANGED <<threadVars, system_state, callVars, async, lateVars>>

\* wait_for_initramfs(), console_on_rootfs(), and the look for an early
\* user-space init: without one the root file system is mounted.
EarlyUserspace ==
  /\ InitStep("initcalls", "async_synchronize") /\ todo = <<>> /\ level = Len(Levels)
  /\ PopulateRootfs \notin async
  /\ ramdisk_execute_command' = IF populated /\ ramdisk_execute_command \in machine.initramfs
                                  THEN ramdisk_execute_command ELSE NONE
  /\ UNCHANGED <<boot, configVars, args, initVars, execute_command, blacklisted_initcalls>>
  /\ UNCHANGED <<threadVars, system_state, callVars, async, lateVars>>

\* Mutant: async work is not waited for.
AsyncSynchronizeNot ==
  /\ InitStep("async_synchronize", "free_initmem")
  /\ system_state' = "FREEING_INITMEM"
  /\ UNCHANGED <<optionVars, threadVars, callVars, async, lateVars>>

\* async_synchronize_full(); system_state = SYSTEM_FREEING_INITMEM
AsyncSynchronize ==
  /\ InitStep("async_synchronize", "free_initmem") /\ async = {}
  /\ system_state' = "FREEING_INITMEM"
  /\ UNCHANGED <<optionVars, threadVars, callVars, async, lateVars>>

\* The programs that kernel_init() tries, in order: the last may fail only
\* into the panic.  Asked for by init=, a program has no replacement.
Programs ==
  (IF ramdisk_execute_command # NONE THEN <<ramdisk_execute_command>> ELSE <<>>) \o
  (IF execute_command # NONE THEN <<execute_command>>
   ELSE (IF DefaultInit # NONE THEN <<DefaultInit>> ELSE <<>>)
        \o <<"/sbin/init", "/etc/init", "/bin/init", "/bin/sh">>)

\* free_initmem(), mark_readonly(), system_state = SYSTEM_RUNNING
FreeInitmem ==
  /\ InitStep("free_initmem", "run_init")
  /\ initmem' = FALSE /\ system_state' = "RUNNING"
  /\ candidates' = Programs
  /\ UNCHANGED <<optionVars, threadVars, callVars, async, populated>>

\* run_init_process(): a program that cannot be executed makes room for the
\* next one, or for the panic.
RunInitProcess ==
  /\ kinit = "run_init"
  /\ argv_init' = [argv_init EXCEPT ![0] = Option(Head(candidates), NONE)]
  /\ \/ InitStep("run_init", "user") /\ UNCHANGED candidates
     \/ /\ InitStep("run_init", IF Len(candidates) = 1 THEN "panic" ELSE "run_init")
        /\ candidates' = Tail(candidates)
  /\ UNCHANGED <<boot, configVars, args, envp_init, panic_later, programVars>>
  /\ UNCHANGED <<threadVars, system_state, callVars, async, populated, initmem>>

-----------------------------------------------------------------------------
\* kthreadd makes the kthread that was asked for.
KthreaddServes ==
  /\ kthreadd = "request" /\ kthreadd_task # NONE
  /\ kthreadd' = "ready" /\ next_pid' = next_pid + 1
  /\ UNCHANGED <<optionVars, kinit, init_pid, kthreadd_task, kthreadd_done, system_state, callVars, async, lateVars>>

\* Asynchronous work of an initcall ends.
AsyncRun(w) ==
  /\ w \in async
  /\ async' = async \ {w}
  /\ populated' = (populated \/ w = PopulateRootfs)
  /\ UNCHANGED <<optionVars, kinit, threadVars, system_state, callVars, initmem, candidates>>

RestInit == SpawnInit \/ SpawnKthreadd \/ FindKthreadd \/ ScheduleState \/ Complete

BootThread == (OptionNext /\ UNCHANGED startVars) \/ RestInit

KernelInit == \/ WaitForKthreadd \/ WorkqueueInit \/ KthreadsMade
              \/ DoOneInitcall \/ DoInitcallLevel
              \/ EarlyUserspace \/ AsyncSynchronize \/ FreeInitmem \/ RunInitProcess

Running == boot # "panic" /\ kinit # "panic"

BootNext == Running /\
  \/ BootThread
  \/ KernelInit
  \/ KthreaddServes
  \/ \E w \in AsyncCalls : AsyncRun(w)

BootSpec == BootInit /\ [][BootNext]_bootVars

-----------------------------------------------------------------------------
StateRank == [BOOTING |-> 0, SCHEDULING |-> 1, FREEING_INITMEM |-> 2, RUNNING |-> 3]

\* init has pid 1 although it must not run before kthreadd exists: kernel_init
\* asks for kthreads only when kthreadd_task is set and the state says that
\* threads are scheduled (the comment in rest_init()).
HandOver ==
  /\ init_pid \in {0, 1}
  /\ kinit \notin {"none", "wait"} =>
       kthreadd_task \notin {NONE, 1} /\ StateRank[system_state] >= 1

\* When the memory of the __init functions is freed nobody is in them or will
\* come back to them: the boot thread has left start_kernel(), all initcalls
\* are made and their asynchronous work has ended (the comments above
\* rest_init() and in kernel_init()).
InitmemUnused ==
  ~ initmem => boot = "idle" /\ async = {} /\ todo = <<>> /\ level = Len(Levels)

\* The places <<l, i>> of the initcalls that kernel_init() has behind it and that
\* are not excluded, in the order of the levels.
Places == UNION {{<<l, i>> : i \in 1..Len(Levels[l])} : l \in 1..level}
Function(p) == Levels[p[1]][p[2]]
Behind == {p \in Places : /\ p[1] = level => p[2] <= Len(Levels[level]) - Len(todo)
                          /\ Function(p) \notin blacklisted_initcalls}
UpTo(p) == {q \in Behind : q[1] < p[1] \/ (q[1] = p[1] /\ q[2] <= p[2])}

\* The initcalls are made level by level, each once, without those that the
\* user has excluded, whenever their asynchronous work runs: the nth call is
\* that of the nth place, and the rest of the level is still to come.
InitcallsInOrder ==
  kinit \notin {"none", "wait", "workqueue_init", "kthread_wait"} =>
    /\ Len(called) = Cardinality(Behind)
    /\ \A p \in Behind : called[Cardinality(UpTo(p))] = Function(p)
    /\ \A i \in 1..Len(todo) : todo[i] = Levels[level][Len(Levels[level]) - Len(todo) + i]

\* An early user-space init that the initramfs holds is run, although the
\* initramfs is unpacked by another thread: it is passed over only when it is
\* not in there or when unpacking was excluded by the user.
EarlyInitFound ==
  [][ramdisk_execute_command' = NONE /\ ramdisk_execute_command # NONE =>
       ramdisk_execute_command \notin machine.initramfs \/ PopulateRootfs \in blacklisted_initcalls]_bootVars

\* A program runs as init, or the kernel has panicked.
Ended == kinit = "user" \/ ~ Running

==============================================================================
