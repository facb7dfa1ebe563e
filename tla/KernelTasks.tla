----------------------------- MODULE KernelTasks -----------------------------
(***************************************************************************)
(* The part of the process table that the added system calls look at: which*)
(* task a pid resolves to, whether the task runs, is a zombie or is gone,  *)
(* and which address space (struct mm_struct) it uses.  fork, exit and     *)
(* wait are not part of this source tree: they are modelled from what the  *)
(* calls in kernel/usac can observe of them, and marked external.          *)
(*                                                                         *)
(* An address space is named after the process it was created for, so      *)
(* task->mm of t is t itself, the name of another process that shares its  *)
(* space (CLONE_VM), or NULL (a kernel thread, or a task past exit_mm).    *)
(***************************************************************************)
EXTENDS Integers, FiniteSets

CONSTANTS Task,        \* every task_struct of the instance
          GroupLeader, \* [Task -> Task], the leader of a task's thread group
          Pid,         \* the pid numbers (positive) of the pid namespace
          NULL

ASSUME TaskAssumption == /\ GroupLeader \in [Task -> Task]
                         /\ NULL \notin Task

ASSUME PidAssumption == Pid \subseteq Nat \ {0}

VARIABLES pid_task,    \* the task attached to a pid, NULL when there is none
          life,        \* "new", "run", "zombie" (exit_state) or "dead" (released)
          mm,          \* task->mm
          mm_users     \* the users of an address space (mm->mm_users)

taskVars == <<pid_task, life, mm, mm_users>>

TaskTypeOK ==
  /\ pid_task \in [Pid -> Task \cup {NULL}]
  /\ life \in [Task -> {"new", "run", "zombie", "dead"}]
  /\ mm \in [Task -> Task \cup {NULL}]
  /\ mm_users \in [Task -> Int]

TaskInit ==
  /\ pid_task = [p \in Pid |-> NULL]
  /\ life = [t \in Task |-> "new"]
  /\ mm = [t \in Task |-> NULL]
  /\ mm_users = [t \in Task |-> 0]

\* The address spaces a new task may start with: a thread uses that of its
\* group; a process its own, a shared one, or none (a kernel thread).
MmChoices(t) ==
  IF GroupLeader[t] # t
    THEN {mm[u] : u \in {x \in Task : life[x] = "run" /\ GroupLeader[x] = GroupLeader[t]}} \ {NULL}
    ELSE {t, NULL} \cup {mm[u] : u \in Task}

\* copy_process(): t appears in the process table under the free pid p.
Clone(t, p, m) ==
  /\ life[t] = "new" /\ pid_task[p] = NULL
  /\ life' = [life EXCEPT ![t] = "run"]
  /\ pid_task' = [pid_task EXCEPT ![p] = t]
  /\ mm' = [mm EXCEPT ![t] = m]
  /\ mm_users' = IF m = NULL THEN mm_users ELSE [mm_users EXCEPT ![m] = @ + 1]

\* do_exit(): exit_mm drops the address space, exit_notify leaves a zombie.
Exit(t) ==
  /\ life[t] = "run"
  /\ life' = [life EXCEPT ![t] = "zombie"]
  /\ mm' = [mm EXCEPT ![t] = NULL]
  /\ mm_users' = IF mm[t] = NULL THEN mm_users ELSE [mm_users EXCEPT ![mm[t]] = @ - 1]
  /\ UNCHANGED pid_task

\* release_task(): the zombie is reaped and its pid becomes free for reuse.  A
\* group leader waits for the threads of its group.
Release(t) ==
  /\ life[t] = "zombie"
  /\ \A u \in Task \ {t} : GroupLeader[u] = t => life[u] \in {"new", "dead"}
  /\ life' = [life EXCEPT ![t] = "dead"]
  /\ pid_task' = [p \in Pid |-> IF pid_task[p] = t THEN NULL ELSE pid_task[p]]
  /\ UNCHANGED <<mm, mm_users>>

TaskNext == \E t \in Task :
  \/ \E p \in Pid, m \in MmChoices(t) : Clone(t, p, m)
  \/ Exit(t)
  \/ Release(t)

==============================================================================
