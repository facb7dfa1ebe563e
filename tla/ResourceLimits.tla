--------------------------- MODULE ResourceLimits ---------------------------
(***************************************************************************)
(* kernel/sys.c: resource limits of processes.  do_prlimit() and the calls *)
(* that lead to it: getrlimit, setrlimit, prlimit64, the 32-bit and the    *)
(* old variants.  A call is split where another one can run: at the lookup *)
(* of the target, in the section under task_lock, before the CPU timer is  *)
(* armed behind it, and at the copy to the caller.  A new limit that       *)
(* cannot be copied in ends a call without a step; security modules are    *)
(* left out.                                                               *)
(*                                                                         *)
(* Values of rlim_t are 0..RlimInfinity.  The timer (posix-cpu-timers) is  *)
(* known by its next event only.                                           *)
(***************************************************************************)
EXTENDS Integers

CONSTANTS Process,         \* thread groups
          Thread,          \* the threads that make calls
          Home,            \* [Thread -> Process]
          Uid,             \* [Process -> ids]: all the ids of its credentials
          SysResource,     \* threads with CAP_SYS_RESOURCE
          Resource,        \* the resources, "CPU" and "NOFILE" among them
          LimitArg,        \* the limits [cur, max] that calls ask for
          RlimInfinity,    \* RLIM_INFINITY
          CompatInfinity,  \* COMPAT_RLIM_INFINITY
          OldMax,          \* 0x7FFFFFFF, the largest value of old_getrlimit
          NrOpen,          \* sysctl_nr_open
          MaxLimitCalls,   \* [Thread -> Nat]: bound on the calls of a thread
          NOTHING

Rlimit == [cur : 0..RlimInfinity, max : 0..RlimInfinity]

ASSUME LimitAssumption ==
  /\ Home \in [Thread -> Process] /\ SysResource \subseteq Thread
  /\ {RlimInfinity, CompatInfinity, OldMax, NrOpen} \subseteq Nat /\ MaxLimitCalls \in [Thread -> Nat]
  /\ OldMax <= CompatInfinity /\ CompatInfinity <= RlimInfinity
  /\ LimitArg \subseteq Rlimit
  /\ NOTHING \notin Rlimit \cup Thread /\ "CPU" \in Resource /\ "BAD" \notin Resource

VARIABLES rlim,      \* signal->rlim
          task_lock, \* the thread that holds task_lock of the group leader
          exiting,   \* processes that have been released
          refs,      \* references that calls hold on the task of a process
          nextevt,   \* next event of the CPU timer of a process
          lcall,     \* the call a thread is in
          lcalls     \* calls a thread has made

limitVars == <<rlim, task_lock, exiting, refs, nextevt, lcall, lcalls>>

NoLimitCall == [at |-> "idle", kind |-> "native", tsk |-> NOTHING, ref |-> FALSE, resource |-> NOTHING,
                new |-> NOTHING, want |-> FALSE, old |-> NOTHING, ret |-> "ok"]

LimitInit ==
  /\ rlim = [p \in Process |-> [r \in Resource |-> [cur |-> RlimInfinity, max |-> RlimInfinity]]]
  /\ task_lock = [p \in Process |-> NOTHING]
  /\ exiting = {}
  /\ refs = [p \in Process |-> 0]
  /\ nextevt = [p \in Process |-> RlimInfinity]
  /\ lcall = [t \in Thread |-> NoLimitCall]
  /\ lcalls = [t \in Thread |-> 0]

MayCall(t) == /\ lcall[t].at = "idle" /\ Home[t] \notin exiting
              /\ lcalls[t] < MaxLimitCalls[t] /\ lcalls' = [lcalls EXCEPT ![t] = @ + 1]

-----------------------------------------------------------------------------
LowerOf(a, b) == IF a <= b THEN a ELSE b

\* The conversions on the way in and out: 32-bit callers have an infinity of
\* their own; getrlimit cuts at it, old_getrlimit at the largest int.
FromCompat(v) == IF v = CompatInfinity THEN RlimInfinity ELSE v
RlimIn(kind, new) == IF kind # "compat" \/ new = NOTHING THEN new
                     ELSE [cur |-> FromCompat(new.cur), max |-> FromCompat(new.max)]
RlimOut(kind, old) ==
  LET top == CASE kind = "native" -> RlimInfinity [] kind = "compat" -> CompatInfinity [] kind = "old" -> OldMax IN
  [cur |-> LowerOf(old.cur, top), max |-> LowerOf(old.max, top)]

\* getrlimit, setrlimit and their variants: the target is the caller, and no
\* reference is needed.
OwnLimit(t, kind, r, new) ==
  /\ MayCall(t)
  /\ new # NOTHING => kind # "old" /\ (kind = "compat" => new.max <= CompatInfinity /\ new.cur <= CompatInfinity)
  /\ lcall' = [lcall EXCEPT ![t] = [NoLimitCall EXCEPT !.at = "lock", !.kind = kind, !.tsk = Home[t],
                 !.resource = r, !.new = RlimIn(kind, new), !.want = (new = NOTHING)]]
  /\ UNCHANGED <<rlim, task_lock, exiting, refs, nextevt>>

\* check_prlimit_permission()
MayPrlimit(t, p) == p = Home[t] \/ Uid[p] = Uid[Home[t]] \/ t \in SysResource

\* A call that ends here.
LimitFails(t, err) == lcall' = [lcall EXCEPT ![t] = [NoLimitCall EXCEPT !.ret = err]]

\* prlimit64() up to do_prlimit(): the lookup under RCU, the permission, and
\* get_task_struct().
Prlimit64(t, p, r, new, want) ==
  /\ MayCall(t)
  /\ IF p \in exiting THEN LimitFails(t, "ESRCH") /\ UNCHANGED refs
     ELSE IF ~ MayPrlimit(t, p) THEN LimitFails(t, "EPERM") /\ UNCHANGED refs
     ELSE /\ refs' = [refs EXCEPT ![p] = @ + 1]
          /\ lcall' = [lcall EXCEPT ![t] = [NoLimitCall EXCEPT !.at = "lock", !.tsk = p, !.ref = TRUE,
                          !.resource = r, !.new = new, !.want = want]]
  /\ UNCHANGED <<rlim, task_lock, exiting, nextevt>>

\* Mutant: a soft limit above the hard one is let through.
EarlyErrorNone(r, new) == IF r \notin Resource THEN "EINVAL" ELSE "ok"

\* The errors that do_prlimit() finds before it takes the lock.
EarlyError(r, new) ==
  IF r \notin Resource \/ (new # NOTHING /\ new.cur > new.max) THEN "EINVAL"
  ELSE IF r = "NOFILE" /\ new # NOTHING /\ new.max > NrOpen THEN "EPERM"
  ELSE "ok"

\* Mutant: the limit is changed without the lock.
TaskLockNone(t) ==
  LET c == lcall[t]
      now == rlim[c.tsk][c.resource]
      err == EarlyError(c.resource, c.new)
      raised == c.new # NOTHING /\ c.new.max > now.max /\ t \notin SysResource IN
  /\ c.at = "lock"
  /\ lcall' = [lcall EXCEPT ![t] = IF err # "ok" THEN [c EXCEPT !.at = "return", !.ret = err]
                 ELSE IF raised THEN [c EXCEPT !.at = "unlock", !.ret = "EPERM"] ELSE [c EXCEPT !.at = "read"]]
  /\ UNCHANGED <<rlim, task_lock, exiting, refs, nextevt, lcalls>>

\* do_prlimit() to the check against the hard limit, under task_lock() of the
\* group leader.
TaskLock(t) ==
  LET c == lcall[t]
      now == rlim[c.tsk][c.resource]
      err == EarlyError(c.resource, c.new)
      raised == c.new # NOTHING /\ c.new.max > now.max /\ t \notin SysResource IN
  /\ c.at = "lock"
  /\ IF err # "ok"
       THEN lcall' = [lcall EXCEPT ![t].at = "return", ![t].ret = err] /\ UNCHANGED task_lock
       ELSE /\ task_lock[c.tsk] = NOTHING /\ task_lock' = [task_lock EXCEPT ![c.tsk] = t]
            /\ lcall' = [lcall EXCEPT ![t].at = IF raised THEN "unlock" ELSE "read",
                                      ![t].ret = IF raised THEN "EPERM" ELSE "ok"]
  /\ UNCHANGED <<rlim, exiting, refs, nextevt, lcalls>>

\* *old_rlim = *rlim
ReadOld(t) ==
  LET c == lcall[t] IN
  /\ c.at = "read"
  /\ lcall' = [lcall EXCEPT ![t].old = IF c.want THEN rlim[c.tsk][c.resource] ELSE NOTHING,
                            ![t].at = IF c.new = NOTHING THEN "unlock" ELSE "write"]
  /\ UNCHANGED <<rlim, task_lock, exiting, refs, nextevt, lcalls>>

\* *rlim = *new_rlim
WriteNew(t) ==
  LET c == lcall[t] IN
  /\ c.at = "write"
  /\ rlim' = [rlim EXCEPT ![c.tsk][c.resource] = c.new]
  /\ lcall' = [lcall EXCEPT ![t].at = "unlock"]
  /\ UNCHANGED <<task_lock, exiting, refs, nextevt, lcalls>>

\* Mutant: the timer is armed only for the caller's own process.
TaskUnlockOwn(t) ==
  LET c == lcall[t] IN
  /\ c.at = "unlock"
  /\ task_lock' = [task_lock EXCEPT ![c.tsk] = NOTHING]
  /\ lcall' = [lcall EXCEPT ![t].at =
       IF c.ret = "ok" /\ c.new # NOTHING /\ c.resource = "CPU" /\ c.new.cur # RlimInfinity /\ c.tsk = Home[t]
         THEN "arm" ELSE "return"]
  /\ UNCHANGED <<rlim, exiting, refs, nextevt, lcalls>>

\* task_unlock(); the timer is armed for a new limit on CPU time.
TaskUnlock(t) ==
  LET c == lcall[t] IN
  /\ c.at = "unlock"
  /\ task_lock' = [task_lock EXCEPT ![c.tsk] = NOTHING]
  /\ lcall' = [lcall EXCEPT ![t].at =
       IF c.ret = "ok" /\ c.new # NOTHING /\ c.resource = "CPU" /\ c.new.cur # RlimInfinity
         THEN "arm" ELSE "return"]
  /\ UNCHANGED <<rlim, exiting, refs, nextevt, lcalls>>

\* update_rlimit_cpu() behind task_unlock(): the timer code makes its next
\* event earlier, never later, and fails when the process is gone.
UpdateRlimitCpu(t) ==
  LET c == lcall[t] IN
  /\ c.at = "arm"
  /\ nextevt' = IF c.tsk \in exiting THEN nextevt ELSE [nextevt EXCEPT ![c.tsk] = LowerOf(@, c.new.cur)]
  /\ lcall' = [lcall EXCEPT ![t].at = "return"]
  /\ UNCHANGED <<rlim, task_lock, exiting, refs, lcalls>>

\* The copy of the old limit to the caller, which may fault, and
\* put_task_struct().
LimitReturn(t, fault) ==
  LET c == lcall[t] IN
  /\ c.at = "return"
  /\ fault => c.old # NOTHING
  /\ lcall' = [lcall EXCEPT ![t] = [NoLimitCall EXCEPT !.ret = IF fault THEN "EFAULT" ELSE c.ret,
                  !.old = IF c.old = NOTHING \/ fault THEN NOTHING ELSE RlimOut(c.kind, c.old)]]
  /\ refs' = IF c.ref THEN [refs EXCEPT ![c.tsk] = @ - 1] ELSE refs
  /\ UNCHANGED <<rlim, task_lock, exiting, nextevt, lcalls>>

\* The timer fires: its next event is computed from the limit in force.
TimerFires(p) ==
  /\ p \notin exiting /\ nextevt[p] # RlimInfinity
  /\ nextevt' = [nextevt EXCEPT ![p] = rlim[p]["CPU"].cur]
  /\ UNCHANGED <<rlim, task_lock, exiting, refs, lcall, lcalls>>

\* All threads of a process have ended.
ProcessExits(p) ==
  /\ p \notin exiting /\ \A t \in Thread : Home[t] = p => lcall[t].at = "idle"
  /\ exiting' = exiting \cup {p}
  /\ UNCHANGED <<rlim, task_lock, refs, nextevt, lcall, lcalls>>

LimitCall(t) == \E r \in Resource \cup {"BAD"}, new \in LimitArg \cup {NOTHING} :
  \/ \E kind \in {"native", "compat", "old"} : OwnLimit(t, kind, r, new)
  \/ \E p \in Process, want \in BOOLEAN : Prlimit64(t, p, r, new, want)

LimitStep(t) ==
  \/ TaskLock(t)
  \/ ReadOld(t)
  \/ WriteNew(t)
  \/ TaskUnlock(t)
  \/ UpdateRlimitCpu(t)
  \/ \E fault \in BOOLEAN : LimitReturn(t, fault)

LimitNext ==
  \/ \E t \in Thread : LimitCall(t) \/ LimitStep(t)
  \/ \E p \in Process : TimerFires(p) \/ ProcessExits(p)

LimitSpec == LimitInit /\ [][LimitNext]_limitVars

-----------------------------------------------------------------------------
\* A limit is replaced only by one that do_prlimit() may set: the soft limit is
\* not above the hard limit, and the hard limit that it replaces is not
\* raised by a caller without CAP_SYS_RESOURCE, although limits change while
\* calls are on their way.
ChangeAllowed ==
  [][\A p \in Process, r \in Resource : rlim'[p][r] # rlim[p][r] =>
       /\ rlim'[p][r].cur <= rlim'[p][r].max
       /\ rlim'[p][r].max > rlim[p][r].max =>
            \E t \in SysResource : lcall[t].at = "write" /\ lcall'[t].at = "unlock" /\ lcall[t].tsk = p]_limitVars

\* The old limit that prlimit64 reports is the one that its new limit has
\* replaced: no other call comes between the two.
OldIsReplaced ==
  [][\A t \in Thread : lcall[t].at = "write" /\ lcall'[t].at = "unlock" /\ lcall[t].old # NOTHING =>
       lcall[t].old = rlim[lcall[t].tsk][lcall[t].resource]]_limitVars

\* The CPU timer of a process never fires later than its soft limit, although
\* the timer is armed behind the lock and calls may arm it in another order
\* than they have set the limit: only while a call is on the way to the timer
\* may the next event be later.
TimerCoversLimit ==
  \A p \in Process \ exiting :
    \/ nextevt[p] <= rlim[p]["CPU"].cur
    \/ \E t \in Thread : /\ lcall[t].tsk = p /\ lcall[t].resource = "CPU" /\ lcall[t].ret = "ok"
                          /\ lcall[t].new # NOTHING /\ lcall[t].at \in {"unlock", "arm"}
                          /\ lcall[t].new.cur <= rlim[p]["CPU"].cur

=============================================================================
