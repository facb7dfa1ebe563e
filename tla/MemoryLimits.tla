---------------------------- MODULE MemoryLimits ----------------------------
(***************************************************************************)
(* The memory limit registry of kernel/usac/project3: the four system      *)
(* calls add, get, update and remove, run by concurrent callers.  No lock  *)
(* protects the list, so a call is split at every access to memory that    *)
(* another caller, or an exiting process, may change.                      *)
(***************************************************************************)
EXTENDS KernelTasks, Sequences

CONSTANTS Caller,      \* the threads that may be inside one of the calls
          Node,        \* the memory_limitation nodes kmalloc can hand out
          Limit,       \* the memory_limit arguments tried, values of a size_t
          LongMax,     \* LONG_MAX: a size_t above it is negative as a long
          PageSize,    \* PAGE_SIZE
          MaxPages,    \* bound on total_vm
          MaxEntries,  \* bound on the max_entries argument of get
          IntRange     \* 2^32: the values an unsigned int can take

ASSUME LimitAssumption ==
  /\ NULL \notin Node \cup Nat \cup [pid : Pid, limit : Limit]
  /\ IsFiniteSet(Caller)
  /\ Limit \subseteq 0..(2 * LongMax + 1)
  /\ {LongMax, PageSize, MaxPages, MaxEntries} \subseteq Nat
  /\ IntRange \in Nat \ {0}

EPERM == -1
ESRCH == -3
ENOMEM == -12
EFAULT == -14
EINVAL == -22
E_OVER_LIMIT == -100
E_DUPLICATE == -101

VARIABLES
  total_vm,            \* mm->total_vm, in pages
  usage,               \* references taken on a task_struct by get_pid_task
  head, next, entry,   \* memory_limited_processes of add and get
  update_list,         \* the static list of the update file, pid -> limit
  remove_list,         \* the static list of the remove file, pid -> limit
  log,                 \* history: the nodes in the order they were linked
  pc, frame            \* each caller's place in a call and its local variables

listVars == <<head, next, entry, log>>
privVars == <<update_list, remove_list>>
vars == <<taskVars, total_vm, usage, listVars, privVars, pc, frame>>

Entry == [pid : Pid, limit : Limit]

NoCall == [op |-> "none", pid |-> 0, limit |-> 0, max |-> 0, task |-> NULL, mm |-> NULL,
           cur |-> NULL, node |-> NULL, first |-> NULL, buf |-> <<>>,
           user |-> <<NULL, NULL>>, ret |-> 0, hd |-> NULL, path |-> <<>>]

Init ==
  /\ TaskInit
  /\ total_vm = [t \in Task |-> 0]
  /\ usage = [t \in Task |-> 0]
  /\ head = NULL
  /\ next = [n \in Node |-> NULL]
  /\ entry = [n \in Node |-> NULL]
  /\ update_list = <<>> /\ remove_list = <<>>
  /\ log = <<>>
  /\ pc = [c \in Caller |-> "idle"]
  /\ frame = [c \in Caller |-> NoCall]

-----------------------------------------------------------------------------
\* The value of a size_t after the cast to long.
AsLong(x) == IF x > LongMax THEN x - 2 * (LongMax + 1) ELSE x

\* Caller c moves on to pc `to' with the local variables f.
Go(c, to, f) == /\ pc' = [pc EXCEPT ![c] = to]
                /\ frame' = [frame EXCEPT ![c] = f]

\* Caller c returns r: only what it asked for and what it got are remembered.
Return(c, f, r) ==
  Go(c, "idle", [NoCall EXCEPT !.op = f.op, !.pid = f.pid, !.ret = r])

\* add(pid, memory_limit): the checks that touch no shared state.  Pid 0
\* stands for every non-positive pid.
AddCall(c, pid, limit, capable) ==
  LET f == [NoCall EXCEPT !.op = "add", !.pid = pid, !.limit = limit]
      err == CASE pid <= 0 \/ limit <= 0 -> EINVAL
               [] ~ capable -> EPERM
               [] OTHER -> 0 IN
  /\ pc[c] = "idle"
  /\ IF err = 0 THEN Go(c, "find", f) ELSE Return(c, f, err)
  /\ UNCHANGED <<taskVars, total_vm, usage, listVars, privVars>>

\* find_vpid(pid), outside any RCU read-side section: the struct pid found is
\* represented by the task attached to it.
FindVpid(c) ==
  LET t == pid_task[frame[c].pid] IN
  /\ pc[c] = "find"
  /\ IF t = NULL THEN Return(c, frame[c], ESRCH)
                 ELSE Go(c, "get", [frame[c] EXCEPT !.task = t])
  /\ UNCHANGED <<taskVars, total_vm, usage, listVars, privVars>>

\* get_pid_task(): pins the task while the struct pid is still its own.
GetPidTask(c) ==
  LET t == frame[c].task IN
  /\ pc[c] = "get"
  /\ life[t] # "dead"
  /\ usage' = [usage EXCEPT ![t] = @ + 1]
  /\ Go(c, "mm", frame[c])
  /\ UNCHANGED <<taskVars, total_vm, listVars, privVars>>

\* The process was released after find_vpid: the struct pid may be freed, so
\* the read finds no task, the task of whoever reuses that memory, or faults.
GetStalePid(c) ==
  /\ pc[c] = "get"
  /\ life[frame[c].task] = "dead"
  /\ \/ /\ Return(c, frame[c], ESRCH)
        /\ UNCHANGED usage
     \/ /\ Go(c, "oops", [frame[c] EXCEPT !.task = NULL])
        /\ UNCHANGED usage
     \/ \E t \in {pid_task[p] : p \in Pid} \ {NULL} :
          /\ usage' = [usage EXCEPT ![t] = @ + 1]
          /\ Go(c, "mm", [frame[c] EXCEPT !.task = t])
  /\ UNCHANGED <<taskVars, total_vm, listVars, privVars>>

\* Mutants: the late error return keeps the reference, or tries again.
CheckUsageLeak(c, u) ==
  IF u > AsLong(frame[c].limit) THEN Return(c, frame[c], E_OVER_LIMIT)
                                ELSE Go(c, "head", frame[c])

CheckUsageRetry(c, u) ==
  IF u > AsLong(frame[c].limit) THEN Go(c, "mm", frame[c])
                                ELSE Go(c, "head", frame[c])

\* The check of the usage u against the limit, both as signed longs.
CheckUsage(c, u) ==
  IF u > AsLong(frame[c].limit)
    THEN Go(c, "put", [frame[c] EXCEPT !.ret = E_OVER_LIMIT])
    ELSE Go(c, "head", frame[c])

\* get_process_memory_usage(), first read of task->mm: NULL means usage 0.
ReadMm(c) ==
  LET m == mm[frame[c].task] IN
  /\ pc[c] = "mm"
  /\ IF m = NULL THEN CheckUsage(c, 0)
                 ELSE Go(c, "vm", [frame[c] EXCEPT !.mm = m])
  /\ UNCHANGED <<taskVars, total_vm, usage, listVars, privVars>>

\* Second read, task->mm->total_vm.  If the task has dropped its mm meanwhile,
\* the build either reloads task->mm and faults on NULL, or uses the pointer
\* it has: total_vm if others still use the space, else whatever is there.
ReadVm(c) ==
  LET m == frame[c].mm IN
  /\ pc[c] = "vm"
  /\ \/ /\ mm_users[m] > 0
        /\ CheckUsage(c, total_vm[m] * PageSize)
     \/ /\ mm_users[m] = 0
        /\ \E v \in 0..MaxPages : CheckUsage(c, v * PageSize)
     \/ /\ mm[frame[c].task] = NULL
        /\ Go(c, "oops", frame[c])
  /\ UNCHANGED <<taskVars, total_vm, usage, listVars, privVars>>

\* Both list_for_each_entry loops start by reading head->next.
ReadHead(c) ==
  /\ pc[c] = "head"
  /\ Go(c, "walk", [frame[c] EXCEPT !.cur = head, !.hd = head])
  /\ UNCHANGED <<taskVars, total_vm, usage, listVars, privVars>>

\* f with the cursor moved past the entry it is on.
Advance(f) == [f EXCEPT !.cur = next[f.cur], !.path = Append(@, f.cur)]

\* Mutant: the search compares nothing.
AddWalkUnchecked(c) ==
  LET f == frame[c] IN
  /\ pc[c] = "walk" /\ f.op = "add"
  /\ IF f.cur = NULL THEN Go(c, "alloc", f) ELSE Go(c, "walk", Advance(f))
  /\ UNCHANGED <<taskVars, total_vm, usage, listVars, privVars>>

\* add: one iteration of the search for an entry with the same pid.
AddWalk(c) ==
  LET f == frame[c] IN
  /\ pc[c] = "walk" /\ f.op = "add"
  /\ \/ f.cur = NULL /\ Go(c, "alloc", f)
     \/ /\ f.cur # NULL /\ entry[f.cur].pid = f.pid
        /\ Go(c, "put", [f EXCEPT !.ret = E_DUPLICATE])
     \/ /\ f.cur # NULL /\ entry[f.cur].pid # f.pid
        /\ Go(c, "walk", Advance(f))
  /\ UNCHANGED <<taskVars, total_vm, usage, listVars, privVars>>

\* kmalloc(GFP_KERNEL) and the two field assignments to the private node.
Kmalloc(c) ==
  LET f == frame[c] IN
  /\ pc[c] = "alloc"
  /\ \/ /\ Go(c, "put", [f EXCEPT !.ret = ENOMEM])
        /\ UNCHANGED entry
     \/ \E n \in {x \in Node : entry[x] = NULL} :
          /\ entry' = [entry EXCEPT ![n] = [pid |-> f.pid, limit |-> f.limit]]
          /\ Go(c, "link", [f EXCEPT !.node = n])
  /\ UNCHANGED <<taskVars, total_vm, usage, head, next, log, privVars>>

\* list_add(): first = head->next is read ...
ListAddRead(c) ==
  /\ pc[c] = "link"
  /\ Go(c, "publish", [frame[c] EXCEPT !.first = head])
  /\ UNCHANGED <<taskVars, total_vm, usage, listVars, privVars>>

\* Mutant: the node is linked behind the entry read instead of before it.
ListAddBehind(c) ==
  LET n == frame[c].node IN
  /\ pc[c] = "publish"
  /\ IF frame[c].first = NULL
       THEN head' = n /\ UNCHANGED next
       ELSE next' = [next EXCEPT ![frame[c].first] = n] /\ UNCHANGED head
  /\ log' = Append(log, n)
  /\ Go(c, "put", frame[c])
  /\ UNCHANGED <<taskVars, total_vm, usage, entry, privVars>>

\* ... and the node is linked in front of what was read.
ListAddPublish(c) ==
  LET n == frame[c].node IN
  /\ pc[c] = "publish"
  /\ next' = [next EXCEPT ![n] = frame[c].first]
  /\ head' = n
  /\ log' = Append(log, n)
  /\ Go(c, "put", frame[c])
  /\ UNCHANGED <<taskVars, total_vm, usage, entry, privVars>>

\* put_task_struct() and return, on the success and the late error paths.
PutTask(c) ==
  /\ pc[c] = "put"
  /\ usage' = [usage EXCEPT ![frame[c].task] = @ - 1]
  /\ Return(c, frame[c], frame[c].ret)
  /\ UNCHANGED <<taskVars, total_vm, listVars, privVars>>

-----------------------------------------------------------------------------
\* get(buffer, max_entries, processes_returned).
GetCall(c, max, null) ==
  LET f == [NoCall EXCEPT !.op = "get", !.max = max] IN
  /\ pc[c] = "idle"
  /\ IF max = 0 \/ null THEN Return(c, f, EINVAL)
                        ELSE Go(c, "head", f)
  /\ UNCHANGED <<taskVars, total_vm, usage, listVars, privVars>>

\* Mutant: the buffer bound is off by one.
GetWalkOffByOne(c) ==
  LET f == frame[c] IN
  /\ pc[c] = "walk" /\ f.op = "get"
  /\ IF f.cur = NULL \/ Len(f.buf) > f.max
       THEN Go(c, "count", f)
       ELSE Go(c, "walk", [Advance(f) EXCEPT !.buf = Append(@, entry[f.cur])])
  /\ UNCHANGED <<taskVars, total_vm, usage, listVars, privVars>>

\* One iteration of the copy loop; copy_to_user may fault at any entry, and
\* what was copied before stays in the user's buffer.
GetWalk(c) ==
  LET f == frame[c] IN
  /\ pc[c] = "walk" /\ f.op = "get"
  /\ \/ /\ f.cur = NULL \/ Len(f.buf) >= f.max
        /\ Go(c, "count", f)
     \/ /\ f.cur # NULL /\ Len(f.buf) < f.max
        /\ \/ Go(c, "walk", [Advance(f) EXCEPT !.buf = Append(@, entry[f.cur])])
           \/ Go(c, "idle", [f EXCEPT !.ret = EFAULT])
  /\ UNCHANGED <<taskVars, total_vm, usage, listVars, privVars>>

\* copy_to_user(processes_returned, &count, sizeof(count)): count is a size_t,
\* the user's object an int, so the word behind the int is written as well.
\* A copy that faults may have stored the first word already.
GetCount(c) ==
  LET f == frame[c]
      n == Len(f.buf) IN
  /\ pc[c] = "count"
  /\ \/ Go(c, "idle", [f EXCEPT !.user = <<n % IntRange, n \div IntRange>>, !.ret = n])
     \/ \E u \in {f.user, <<n % IntRange, NULL>>} :
          Go(c, "idle", [f EXCEPT !.user = u, !.ret = EFAULT])
  /\ UNCHANGED <<taskVars, total_vm, usage, listVars, privVars>>

\* update(pid, memory_limit) searches the list of its own file.
UpdateCall(c, pid, limit, capable) ==
  LET found == pid \in DOMAIN update_list
      err == CASE pid <= 0 \/ limit <= 0 -> EINVAL
               [] ~ capable -> EPERM
               [] OTHER -> IF found THEN 0 ELSE ESRCH IN
  /\ pc[c] = "idle"
  /\ Return(c, [op |-> "update", pid |-> pid], err)
  /\ update_list' = [p \in DOMAIN update_list |->
                       IF p = pid /\ err = 0 THEN limit ELSE update_list[p]]
  /\ UNCHANGED <<taskVars, total_vm, usage, listVars, remove_list>>

\* remove(pid) searches, unlinks and frees in the list of its own file.
RemoveCall(c, pid, capable) ==
  LET found == pid \in DOMAIN remove_list
      err == CASE pid <= 0 -> EINVAL
               [] ~ capable -> EPERM
               [] OTHER -> IF found THEN 0 ELSE ESRCH IN
  /\ pc[c] = "idle"
  /\ Return(c, [op |-> "remove", pid |-> pid], err)
  /\ remove_list' = [p \in DOMAIN remove_list \ (IF err = 0 THEN {pid} ELSE {}) |->
                       remove_list[p]]
  /\ UNCHANGED <<taskVars, total_vm, usage, listVars, update_list>>

-----------------------------------------------------------------------------
\* The address space m grows or shrinks (mmap, brk, munmap).  No code consults
\* the registry here.
ResizeMm(m, v) ==
  /\ mm_users[m] > 0
  /\ total_vm' = [total_vm EXCEPT ![m] = v]
  /\ UNCHANGED <<taskVars, usage, listVars, privVars, pc, frame>>

ProcessStep ==
  \/ /\ TaskNext
     /\ UNCHANGED <<total_vm, usage, listVars, privVars, pc, frame>>
  \/ \E m \in Task, v \in 0..MaxPages : ResizeMm(m, v)

Call(c) == \E pid \in Pid \cup {0}, capable \in BOOLEAN :
  \/ \E limit \in Limit : AddCall(c, pid, limit, capable)
  \/ \E limit \in Limit : UpdateCall(c, pid, limit, capable)
  \/ RemoveCall(c, pid, capable)
  \/ \E max \in 0..MaxEntries, null \in BOOLEAN : GetCall(c, max, null)

Step(c) ==
  \/ FindVpid(c) \/ GetPidTask(c) \/ GetStalePid(c) \/ ReadMm(c) \/ ReadVm(c)
  \/ ReadHead(c) \/ AddWalk(c) \/ Kmalloc(c) \/ ListAddRead(c)
  \/ ListAddPublish(c) \/ PutTask(c) \/ GetWalk(c) \/ GetCount(c)

Next == ProcessStep \/ \E c \in Caller : Call(c) \/ Step(c)

Spec == Init /\ [][Next]_vars

\* A call that has started keeps being scheduled.
FairSpec == Spec /\ \A c \in Caller : WF_vars(Step(c))

-----------------------------------------------------------------------------
\* Type invariant.
NodeOrNull == Node \cup {NULL}

Frame == [op : {"none", "add", "get", "update", "remove"},
          pid : Pid \cup {0}, limit : Limit \cup {0}, max : 0..MaxEntries,
          task : Task \cup {NULL}, mm : Task \cup {NULL}, cur : NodeOrNull,
          node : NodeOrNull, first : NodeOrNull, buf : Seq(Entry),
          user : (Nat \cup {NULL}) \X (Nat \cup {NULL}), ret : Int,
          hd : NodeOrNull, path : Seq(Node)]

PinPcs == {"mm", "vm", "put"}
AddPcs == {"find", "get", "alloc", "link", "publish"} \cup PinPcs
Pcs == {"idle", "oops", "head", "walk", "count"} \cup AddPcs

TypeOK ==
  /\ TaskTypeOK
  /\ total_vm \in [Task -> Nat]
  /\ usage \in [Task -> Int]
  /\ head \in NodeOrNull
  /\ next \in [Node -> NodeOrNull]
  /\ entry \in [Node -> Entry \cup {NULL}]
  /\ log \in Seq(Node)
  /\ update_list = <<>> /\ remove_list = <<>>
  /\ pc \in [Caller -> Pcs]
  /\ frame \in [Caller -> Frame]

\* The nodes that have been linked into the list.
Linked == {log[i] : i \in DOMAIN log}

\* The list that get walks never has a cycle and never leads to a node that is
\* not linked yet, whatever the interleaving of unlocked list_add calls: the
\* head is the node linked last and every node points to an older one.
ListOrder ==
  /\ head = IF log = <<>> THEN NULL ELSE log[Len(log)]
  /\ \A i \in DOMAIN log :
       /\ entry[log[i]] # NULL
       /\ \A j \in DOMAIN log : log[i] = log[j] => i = j
       /\ next[log[i]] = NULL \/ \E j \in 1..(i - 1) : next[log[i]] = log[j]

\* The callers that own a reference on t: those between get_pid_task and
\* put_task_struct, and those that faulted in between.
Holders(t) == {c \in Caller :
  /\ frame[c].op = "add" /\ frame[c].task = t
  /\ pc[c] \notin {"idle", "find", "get"}}

\* Every path of add that took a reference on the task drops it exactly once:
\* the references on a task are those of the calls still using it.
RefsBalanced == \A t \in Task : usage[t] = Cardinality(Holders(t))

\* path follows the next pointers from hd, and stops before cur.
IsWalk(f) ==
  /\ f.cur = IF f.path = <<>> THEN f.hd ELSE next[f.path[Len(f.path)]]
  /\ f.path # <<>> => f.path[1] = f.hd
  /\ \A i \in 1..(Len(f.path) - 1) : f.path[i + 1] = next[f.path[i]]

\* get reports one state of the list: the entries it has copied are those that
\* followed the head it read, in order, none skipped and none twice, although
\* other calls keep linking nodes and copy_to_user may sleep.
GetIsSnapshot == \A c \in Caller :
  LET f == frame[c] IN
  f.op = "get" /\ pc[c] # "head" /\ f.ret # EINVAL =>
    /\ IsWalk(f)
    /\ f.buf = [i \in 1..Len(f.path) |-> entry[f.path[i]]]
    /\ Len(f.buf) <= f.max
    /\ pc[c] = "idle" /\ f.ret >= 0 =>
         f.ret = Len(f.buf) /\ (f.cur = NULL \/ Len(f.buf) = f.max)

\* The nodes a walk from the head reaches: those in every set that the head
\* and the next pointers do not lead out of.
Reachable ==
  {n \in Node : \A S \in SUBSET Node :
     head \in S \cup {NULL} /\ (\A m \in S : next[m] \in S \cup {NULL}) => n \in S}

Listed == {entry[n] : n \in Reachable}

Registry == INSTANCE LimitRegistry WITH limits <- Listed

\* Used by one caller at a time, add and get maintain the documented registry:
\* one limit per pid, and a limit once added is never lost.
ImplementsRegistry == Registry!Spec

\* A node is final once it is linked: no call changes its next pointer, its
\* pid or its limit under a caller that is walking over it.
LinkedIsFinal ==
  [][\A n \in Linked : next'[n] = next[n] /\ entry'[n] = entry[n]]_vars

\* Every call returns, or ends in the fault of a freed struct pid or mm.
CallsReturn == \A c \in Caller : pc[c] # "idle" ~> pc[c] \in {"idle", "oops"}

==============================================================================
