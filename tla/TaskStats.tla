------------------------------ MODULE TaskStats ------------------------------
(***************************************************************************)
(* The two statistics calls of kernel/usac/project2 that look at other     *)
(* processes: tamalloc walks the process list and adds up the memory of    *)
(* every process, memory_allocation_statistics reports on one pid.  Both   *)
(* work inside an RCU read-side section, on processes that start, exit and *)
(* are reaped meanwhile, and pin an address space with get_task_mm.        *)
(***************************************************************************)
EXTENDS KernelTasks, Sequences

CONSTANTS Caller,      \* the threads that may be inside one of the calls
          Pages,       \* the values total_vm and rss take
          PageSize,    \* PAGE_SIZE, in units of 1 KB
          Mb           \* 1 MB in the same unit

ASSUME StatsAssumption ==
  /\ IsFiniteSet(Caller) /\ IsFiniteSet(Task)
  /\ Pages \subseteq Nat
  /\ PageSize \in Nat \ {0} /\ Mb \in Nat \ {0}

ESRCH == -3
EFAULT == -14
EINVAL == -22

VARIABLES
  total_vm, rss,   \* mm->total_vm and get_mm_rss(mm), in pages
  listed,          \* the group leaders on the list that for_each_process walks
  born, clock,     \* the order of that list: a new leader joins it at the end
  gone_next,       \* the next pointer an unlinked list entry keeps
  freed,           \* the task_structs whose memory has been freed
  waits,           \* the RCU readers a released task_struct waits for
  stay,            \* history: processes with memory since the caller's walk began
  pc, frame        \* each caller's place in a call and its local variables

sizeVars == <<total_vm, rss>>
listVars == <<listed, born, clock, gone_next>>
rcuVars == <<freed, waits>>
vars == <<taskVars, sizeVars, listVars, rcuVars, stay, pc, frame>>

NoCall == [op |-> "none", task |-> NULL, mm |-> NULL, seen |-> <<>>,
           vm |-> 0, rss |-> 0, percent |-> 0, oom |-> NULL, ret |-> 0]

Init ==
  /\ TaskInit
  /\ total_vm = [t \in Task |-> 0] /\ rss = [t \in Task |-> 0]
  /\ listed = {}
  /\ born = [t \in Task |-> 0] /\ clock = 0
  /\ gone_next = [t \in Task |-> NULL]
  /\ freed = {}
  /\ waits = [t \in Task |-> {}]
  /\ stay = [c \in Caller |-> {}]
  /\ pc = [c \in Caller |-> "idle"]
  /\ frame = [c \in Caller |-> NoCall]

-----------------------------------------------------------------------------
\* The oldest process of S, NULL standing for init_task, the end of the list.
Oldest(S) ==
  IF S = {} THEN NULL ELSE CHOOSE t \in S : \A u \in S : born[t] <= born[u]

\* next_task(t).  An entry removed with list_del_rcu keeps pointing at its
\* former successor.
NextTask(t) ==
  IF t \in listed THEN Oldest({u \in listed : born[u] > born[t]}) ELSE gone_next[t]

Go(c, to, f) == /\ pc' = [pc EXCEPT ![c] = to]
                /\ frame' = [frame EXCEPT ![c] = f]

\* rcu_read_unlock(): no task waits for this reader any more.
RcuUnlock(c) == waits' = [t \in Task |-> waits[t] \ {c}]

\* Caller c returns r; only the call and its result are remembered.
Return(c, f, r) == Go(c, "idle", [NoCall EXCEPT !.op = f.op, !.ret = r])

\* The callers inside rcu_read_lock() ... rcu_read_unlock().
InSection == {c \in Caller : pc[c] # "idle"}

-----------------------------------------------------------------------------
\* memory_allocation_statistics(pid, info): rcu_read_lock, then the lookup.
StatsCall(c, pid) ==
  /\ pc[c] = "idle"
  /\ LET f == [NoCall EXCEPT !.op = "stats", !.task = pid_task[pid]] IN
     IF pid_task[pid] = NULL
       THEN Return(c, f, ESRCH)
       ELSE Go(c, "getmm", f)
  /\ UNCHANGED <<taskVars, sizeVars, listVars, rcuVars, stay>>

\* tamalloc(info): rcu_read_lock and the start of for_each_process.
TamallocCall(c) ==
  /\ pc[c] = "idle"
  /\ Go(c, "find", [NoCall EXCEPT !.op = "tamalloc"])
  /\ stay' = [stay EXCEPT ![c] = {t \in listed : mm[t] # NULL}]
  /\ UNCHANGED <<taskVars, sizeVars, listVars, rcuVars>>

\* The walk is on t, or at the end of the list when t is NULL.
VisitTask(c, t) ==
  Go(c, IF t = NULL THEN "unlock" ELSE "zombie", [frame[c] EXCEPT !.task = t])

WalkFirst(c) ==
  /\ pc[c] = "find"
  /\ VisitTask(c, Oldest(listed))
  /\ UNCHANGED <<taskVars, sizeVars, listVars, rcuVars, stay>>

\* Mutant: the next pointer of an unlinked entry is taken for the end.
WalkNextShort(c) ==
  /\ pc[c] = "next"
  /\ VisitTask(c, IF frame[c].task \in listed THEN NextTask(frame[c].task) ELSE NULL)
  /\ UNCHANGED <<taskVars, sizeVars, listVars, rcuVars, stay>>

WalkNext(c) ==
  /\ pc[c] = "next"
  /\ VisitTask(c, NextTask(frame[c].task))
  /\ UNCHANGED <<taskVars, sizeVars, listVars, rcuVars, stay>>

\* if (task->exit_state == EXIT_ZOMBIE) continue;
CheckZombie(c) ==
  /\ pc[c] = "zombie"
  /\ Go(c, IF life[frame[c].task] = "zombie" THEN "next" ELSE "getmm", frame[c])
  /\ UNCHANGED <<taskVars, sizeVars, listVars, rcuVars, stay>>

\* mm = get_task_mm(task), atomic under task_lock.  Without a space tamalloc
\* goes on to the next process and the statistics call returns.
GetTaskMm(c) ==
  LET f == frame[c]
      m == mm[f.task] IN
  /\ pc[c] = "getmm"
  /\ \/ /\ m # NULL
        /\ mm_users' = [mm_users EXCEPT ![m] = @ + 1]
        /\ Go(c, "vm", [f EXCEPT !.mm = m])
        /\ UNCHANGED waits
     \/ /\ m = NULL /\ f.op = "tamalloc"
        /\ Go(c, "next", f)
        /\ UNCHANGED <<mm_users, waits>>
     \/ /\ m = NULL /\ f.op = "stats"
        /\ RcuUnlock(c) /\ Return(c, f, EINVAL)
        /\ UNCHANGED mm_users
  /\ UNCHANGED <<pid_task, life, mm, sizeVars, listVars, freed, stay>>

\* Pages to KB (stats) or to whole MB (tamalloc), per process.
Convert(f, pages) ==
  IF f.op = "stats" THEN pages * PageSize ELSE (pages * PageSize) \div Mb

\* Mutant: the RCU section ends once the address space is pinned.
ReadVmUnlocked(c) ==
  /\ pc[c] = "vm"
  /\ Go(c, "rss", [frame[c] EXCEPT !.vm = @ + Convert(frame[c], total_vm[frame[c].mm])])
  /\ RcuUnlock(c)
  /\ UNCHANGED <<taskVars, sizeVars, listVars, freed, stay>>

\* The two sizes are read one after the other.  Both fields are 0 when a call
\* starts, so the assignment of stats and the += of tamalloc read the same.
ReadVm(c) ==
  LET f == frame[c] IN
  /\ pc[c] = "vm"
  /\ Go(c, "rss", [f EXCEPT !.vm = @ + Convert(f, total_vm[f.mm])])
  /\ UNCHANGED <<taskVars, sizeVars, listVars, rcuVars, stay>>

ReadRss(c) ==
  LET f == frame[c]
      r == f.rss + Convert(f, rss[f.mm]) IN
  /\ pc[c] = "rss"
  /\ IF f.op = "stats"
       THEN Go(c, "oom", [f EXCEPT !.rss = r,
                            !.percent = IF f.vm > 0 THEN (r * 100) \div f.vm ELSE 0])
       ELSE Go(c, "put", [f EXCEPT !.rss = r, !.seen = Append(@, f.task)])
  /\ UNCHANGED <<taskVars, sizeVars, listVars, rcuVars, stay>>

\* task->signal->oom_score_adj: the signal_struct lives as long as the task and
\* is named after the thread group it belongs to.
ReadOom(c) ==
  /\ pc[c] = "oom"
  /\ Go(c, "put", [frame[c] EXCEPT !.oom = GroupLeader[frame[c].task]])
  /\ UNCHANGED <<taskVars, sizeVars, listVars, rcuVars, stay>>

\* Mutant: mmput is forgotten.
MmputForgotten(c) ==
  /\ pc[c] = "put"
  /\ Go(c, IF frame[c].op = "stats" THEN "unlock" ELSE "next", [frame[c] EXCEPT !.mm = NULL])
  /\ UNCHANGED <<taskVars, sizeVars, listVars, rcuVars, stay>>

\* mmput(mm).
Mmput(c) ==
  LET f == frame[c] IN
  /\ pc[c] = "put"
  /\ mm_users' = [mm_users EXCEPT ![f.mm] = @ - 1]
  /\ Go(c, IF f.op = "stats" THEN "unlock" ELSE "next", [f EXCEPT !.mm = NULL])
  /\ UNCHANGED <<pid_task, life, mm, sizeVars, listVars, rcuVars, stay>>

\* rcu_read_unlock(), then copy_to_user, which may fault, and return.
Finish(c) ==
  /\ pc[c] = "unlock"
  /\ RcuUnlock(c)
  /\ \E r \in {0, EFAULT} : Return(c, frame[c], r)
  /\ UNCHANGED <<taskVars, sizeVars, listVars, freed, stay>>

-----------------------------------------------------------------------------
\* A group leader joins the end of the process list; a new space gets a size.
NewTask(t, p, m) ==
  /\ Clone(t, p, m)
  /\ IF m = t THEN \E v \in Pages : /\ total_vm' = [total_vm EXCEPT ![t] = v]
                                    /\ UNCHANGED rss
              ELSE UNCHANGED sizeVars
  /\ IF GroupLeader[t] = t
       THEN /\ listed' = listed \cup {t}
            /\ clock' = clock + 1
            /\ born' = [born EXCEPT ![t] = clock']
       ELSE UNCHANGED <<listed, clock, born>>
  /\ UNCHANGED <<gone_next, rcuVars, stay, pc, frame>>

ExitTask(t) ==
  /\ Exit(t)
  /\ stay' = [c \in Caller |-> stay[c] \ {t}]
  /\ UNCHANGED <<sizeVars, listVars, rcuVars, pc, frame>>

\* release_task(): the entry leaves the list with list_del_rcu and the memory
\* is handed to call_rcu.
ReleaseTask(t) ==
  /\ Release(t)
  /\ listed' = listed \ {t}
  /\ gone_next' = [gone_next EXCEPT ![t] = NextTask(t)]
  /\ waits' = [waits EXCEPT ![t] = InSection]
  /\ UNCHANGED <<sizeVars, born, clock, freed, stay, pc, frame>>

\* The grace period of a released task has ended.
FreeTask(t) ==
  /\ life[t] = "dead" /\ t \notin freed /\ waits[t] = {}
  /\ freed' = freed \cup {t}
  /\ UNCHANGED <<taskVars, sizeVars, listVars, waits, stay, pc, frame>>

\* mmap or munmap, and page faults or reclaim: never more pages in memory than
\* are mapped.
ResizeMm(m, v, r) ==
  /\ mm_users[m] > 0
  /\ r <= v
  /\ total_vm' = [total_vm EXCEPT ![m] = v]
  /\ rss' = [rss EXCEPT ![m] = r]
  /\ UNCHANGED <<taskVars, listVars, rcuVars, stay, pc, frame>>

ProcessStep == \E t \in Task :
  \/ \E p \in Pid, m \in MmChoices(t) : NewTask(t, p, m)
  \/ ExitTask(t) \/ ReleaseTask(t) \/ FreeTask(t)
  \/ \E v, r \in Pages \cup {0} : ResizeMm(t, v, r)

Step(c) ==
  \/ WalkFirst(c) \/ WalkNext(c) \/ CheckZombie(c) \/ GetTaskMm(c) \/ ReadVm(c)
  \/ ReadRss(c) \/ ReadOom(c) \/ Mmput(c) \/ Finish(c)

Call(c) == TamallocCall(c) \/ \E p \in Pid : StatsCall(c, p)

Next == ProcessStep \/ \E c \in Caller : Call(c) \/ Step(c)

Spec == Init /\ [][Next]_vars

-----------------------------------------------------------------------------
\* Type invariant.
Frame == [op : {"none", "stats", "tamalloc"}, task : Task \cup {NULL},
          mm : Task \cup {NULL}, seen : Seq(Task), vm : Nat, rss : Nat,
          percent : Nat, oom : Task \cup {NULL}, ret : {0, ESRCH, EFAULT, EINVAL}]

Pcs == {"idle", "find", "zombie", "getmm", "vm", "rss", "oom", "put", "next", "unlock"}

TypeOK ==
  /\ TaskTypeOK
  /\ total_vm \in [Task -> Nat] /\ rss \in [Task -> Nat]
  /\ listed \subseteq Task
  /\ born \in [Task -> Nat] /\ clock \in Nat
  /\ gone_next \in [Task -> Task \cup {NULL}]
  /\ freed \subseteq Task
  /\ waits \in [Task -> SUBSET Caller]
  /\ stay \in [Caller -> SUBSET Task]
  /\ pc \in [Caller -> Pcs]
  /\ frame \in [Caller -> Frame]

\* The callers and the tasks that hold a reference on the address space m.
MmHolders(m) == {c \in Caller : frame[c].mm = m}
MmTasks(m) == {t \in Task : mm[t] = m}

\* Every get_task_mm is matched by one mmput on every path: the user count of
\* an address space is the tasks that run in it plus the calls reading it.
UsersBalanced == \A m \in Task :
  mm_users[m] = Cardinality(MmTasks(m)) + Cardinality(MmHolders(m))

\* The RCU section of a call covers every use of the task it looked up or is
\* walking over: that task_struct is never freed under it, although the
\* process may exit and be reaped meanwhile.
TaskNotFreed == \A c \in InSection :
  frame[c].task # NULL => frame[c].task \notin freed

\* tamalloc counts no process twice, and misses none that had memory for the
\* whole walk, although the list loses and gains entries around its cursor.
WalkComplete == \A c \in Caller :
  LET f == frame[c] IN
  pc[c] = "unlock" /\ f.op = "tamalloc" =>
    /\ stay[c] \subseteq {f.seen[i] : i \in DOMAIN f.seen}
    /\ \A i, j \in DOMAIN f.seen : f.seen[i] = f.seen[j] => i = j

==============================================================================
