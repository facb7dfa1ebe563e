----------------------------- MODULE Priorities -----------------------------
(***************************************************************************)
(* setpriority and getpriority of kernel/sys.c, over the processes, groups *)
(* and sessions of ProcessGroups.                                          *)
(*                                                                         *)
(* A call visits one process, the members of a group under the read lock   *)
(* of tasklist_lock, or the processes of a user under RCU alone.  A visit  *)
(* of setpriority is two steps, since set_one_prio reads the nice value    *)
(* and sets it later.  A process has one thread here, and its identity,    *)
(* the subject of module Credentials, is fixed by the constant Owner.      *)
(***************************************************************************)
EXTENDS ProcessGroups

CONSTANTS Caller,      \* the processes that call setpriority and getpriority
          Owner,       \* uid and euid of a process
          Root,        \* the uid with CAP_SYS_NICE
          MinNice, MaxNice,
          NiceArg,     \* nice values that calls ask for
          NiceRlimit   \* RLIMIT_NICE of every process

ASSUME PrioAssumption ==
  /\ Caller \subseteq Pid /\ Root \in Nat /\ Owner \in [Pid -> Nat]
  /\ MinNice \in Int /\ MaxNice \in Int /\ MinNice <= 0 /\ 0 <= MaxNice
  /\ NiceArg \subseteq Int /\ NiceRlimit \in Nat

EPERM == -1
ESRCH == -3
EACCES == -13          \* also stands for the answer of a security module
EINVAL == -22

VARIABLES nice,        \* task_nice
          frame        \* the call of each caller

vars == <<groupVars, readers, nice, frame>>

\* at: "idle", "lock" (a group was chosen), "walk", "apply" (cur passed the
\* checks) or "done".  op and which are the call, who the process, group or user.
\* error is the local of that name, hit and miss are history: a process was set,
\* a process was refused.  cur is 0 when its process has been reaped meanwhile.
Frame == [at : {"idle", "lock", "walk", "apply", "done"}, op : {"set", "get"},
          which : {"process", "pgrp", "user"}, who : Int, val : MinNice..MaxNice,
          seen : SUBSET Pid, cur : Pid \cup {0}, error : Int,
          hit : BOOLEAN, miss : BOOLEAN]

NoCall == [at |-> "idle", op |-> "get", which |-> "process", who |-> 0, val |-> 0,
           seen |-> {}, cur |-> 0, error |-> 0, hit |-> FALSE, miss |-> FALSE]

\* Variables keep their types; nice values stay between MIN_NICE and MAX_NICE.
TypeOK == /\ GroupTypeOK
          /\ nice \in [Pid -> MinNice..MaxNice]
          /\ frame \in [Caller -> Frame]

Init == /\ GroupInit
        /\ nice = [p \in Pid |-> 0]
        /\ frame = [c \in Caller |-> NoCall]

Idle(c) == c \in Caller => frame[c].at \in {"idle", "done"}
At(c, place) == frame[c].at = place
Move(c, f) == frame' = [frame EXCEPT ![c] = f]

-----------------------------------------------------------------------------
(* The calls. *)

\* The bounds that setpriority puts on its argument.
Normalize(n) == IF n < MinNice THEN MinNice ELSE IF n > MaxNice THEN MaxNice ELSE n

\* nice_to_rlimit
NiceToRlimit(n) == MaxNice - n + 1

\* Entry: an unknown `which' is refused; otherwise the process, the group or the
\* user is found.  The caller's own group is read before the lock is taken.
Begin(c, op, which, who, val) ==
  /\ life[c] = "run" /\ Idle(c)
  /\ \/ which = "bad" /\ Move(c, [NoCall EXCEPT !.at = "done", !.op = op, !.error = EINVAL])
     \/ /\ which # "bad"
        /\ Move(c, [NoCall EXCEPT
             !.at = IF which = "pgrp" THEN "lock" ELSE "walk", !.op = op,
             !.which = which, !.val = IF op = "set" THEN Normalize(val) ELSE 0,
             !.who = IF who # 0 THEN who
                     ELSE CASE which = "process" -> c
                            [] which = "pgrp" -> pgrp[c]
                            [] which = "user" -> Owner[c],
             !.error = ESRCH])
  /\ UNCHANGED <<groupVars, readers, nice>>

\* read_lock(&tasklist_lock); a reader does not wait for other readers.
ReadLock(c) ==
  /\ At(c, "lock") /\ Move(c, [frame[c] EXCEPT !.at = "walk"])
  /\ readers' = readers \cup {c}
  /\ UNCHANGED <<groupVars, nice>>

\* The processes the loop of a call runs over; a single process is looked up
\* once, even if its number is in use again later.
Targets(f) == CASE f.which = "process" -> IF f.hit \/ f.miss THEN {} ELSE {f.who} \cap Attached
                [] f.which = "pgrp" -> GroupMembers(f.who)
                [] f.which = "user" -> {p \in Attached : Owner[p] = f.who}

\* Mutant of SetOnePrioPerm: everyone may.
SetOnePrioAny(c, p) == TRUE

\* set_one_prio_perm
SetOnePrioPerm(c, p) == Owner[p] = Owner[c] \/ Owner[c] = Root

\* can_nice, external
CanNice(c, p, n) == NiceToRlimit(n) <= NiceRlimit \/ Owner[c] = Root

\* The checks of set_one_prio; 0 lets the process be set.
PrioError(c, p, n) ==
  IF ~SetOnePrioPerm(c, p) THEN EPERM
  ELSE IF n < nice[p] /\ ~CanNice(c, p, n) THEN EACCES ELSE 0

\* A visit of setpriority: the checks, where a security module may refuse too.
\* A refusal replaces whatever error there was.
Check(c, p) ==
  LET f == [frame[c] EXCEPT !.seen = @ \cup {p}]
      err == PrioError(c, p, f.val)
  IN /\ At(c, "walk") /\ f.op = "set" /\ p \in Targets(f) \ frame[c].seen
     /\ \E e \in IF err = 0 THEN {0, EACCES} ELSE {err} :
          Move(c, IF e = 0 THEN [f EXCEPT !.at = "apply", !.cur = p]
                  ELSE [f EXCEPT !.error = e, !.miss = TRUE])
     /\ UNCHANGED <<groupVars, readers, nice>>

\* Mutant of Succeed: a success hides earlier refusals.
SucceedAlways(error) == 0

\* A success replaces the initial ESRCH only.
Succeed(error) == IF error = ESRCH THEN 0 ELSE error

\* The rest of the visit: set_user_nice.
SetUserNice(c) ==
  LET f == frame[c] IN
  /\ At(c, "apply")
  /\ nice' = [p \in Pid |-> IF p = f.cur THEN f.val ELSE nice[p]]
  /\ Move(c, [f EXCEPT !.at = "walk", !.cur = 0, !.error = Succeed(@), !.hit = TRUE])
  /\ UNCHANGED <<groupVars, readers>>

Higher(a, b) == IF a > b THEN a ELSE b

\* A visit of getpriority: the highest value so far is kept.
Look(c, p) ==
  LET f == frame[c] IN
  /\ At(c, "walk") /\ f.op = "get" /\ p \in Targets(f) \ f.seen
  /\ Move(c, [f EXCEPT !.seen = @ \cup {p}, !.hit = TRUE,
                       !.error = Higher(@, NiceToRlimit(nice[p]))])
  /\ UNCHANGED <<groupVars, readers, nice>>

\* The end of the loop, the unlock and the return.
Finish(c) ==
  LET f == frame[c] IN
  /\ At(c, "walk") /\ Targets(f) \subseteq f.seen
  /\ Move(c, [f EXCEPT !.at = "done", !.seen = {}, !.who = 0, !.val = 0])
  /\ readers' = readers \ {c}
  /\ UNCHANGED <<groupVars, nice>>

-----------------------------------------------------------------------------

\* A child starts with the nice value of its parent.
ForkNice(c, q) ==
  /\ Idle(c) /\ Fork(c, q)
  /\ nice' = [nice EXCEPT ![q] = nice[c]]
  /\ UNCHANGED frame

\* A walk under RCU keeps the reaped process's memory, not its number.
ReapNice(p) ==
  /\ Reap(p)
  /\ nice' = [nice EXCEPT ![p] = 0]
  /\ frame' = [c \in Caller |->
       IF c = p THEN NoCall
       ELSE [frame[c] EXCEPT !.seen = @ \ {p}, !.cur = IF @ = p THEN 0 ELSE @]]

Who(which) == CASE which = "process" -> Pid \cup {0}
                [] which = "pgrp" -> Pid \cup {0}
                [] which = "user" -> {Owner[p] : p \in Pid} \cup {0}
                [] which = "bad" -> {0}

CallStep(c) ==
  \/ \E which \in {"process", "pgrp", "user", "bad"} : \E who \in Who(which) :
       \/ Begin(c, "get", which, who, 0)
       \/ \E val \in NiceArg : Begin(c, "set", which, who, val)
  \/ ReadLock(c) \/ SetUserNice(c) \/ Finish(c)
  \/ \E p \in Pid : Check(c, p) \/ Look(c, p)

Next == \/ \E c \in Pid : Idle(c) /\ GroupStep(c) /\ UNCHANGED <<nice, frame>>
        \/ \E c, q \in Pid : ForkNice(c, q)
        \/ \E p \in Pid : ReapNice(p)
        \/ \E c \in Caller : CallStep(c)

Spec == Init /\ [][Next]_vars

-----------------------------------------------------------------------------
(* Properties *)

\* The one number that a call returns for many processes tells what happened.
\* setpriority: 0 exactly when some process was found and none was refused, and
\* ESRCH exactly when none was found, so success does not hide an earlier
\* refusal, or a refusal ESRCH.  getpriority: a number that is no error, from 1
\* to the number of nice values, for every process it has found.
ReportsOutcome ==
  \A c \in Caller :
    LET f == frame[c] IN
    At(c, "done") /\ f.error # EINVAL =>
      /\ f.op = "set" => /\ f.error = 0 <=> f.hit /\ ~f.miss
                         /\ f.error = ESRCH <=> ~f.hit /\ ~f.miss
      /\ f.op = "get" => IF f.hit THEN f.error \in 1..(MaxNice - MinNice + 1) ELSE f.error = ESRCH

\* A process gets another nice value only from a caller of its own user or of
\* root, also when its pid named another process at the time of the check.
NiceByPermitted ==
  [][\A p \in Attached \cap Attached' : nice'[p] # nice[p] =>
       \E c \in Caller : /\ At(c, "apply") /\ frame[c].cur = p
                         /\ Owner[c] \in {Owner[p], Root}]_vars
=============================================================================
