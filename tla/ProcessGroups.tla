---------------------------- MODULE ProcessGroups ----------------------------
(***************************************************************************)
(* Process groups and sessions: setpgid and setsid of kernel/sys.c.        *)
(*                                                                         *)
(* A process is named by its pid.  setpgid and setsid work under the write *)
(* lock of tasklist_lock, so each is one step; `readers' are the callers   *)
(* that hold the lock for reading, and writers wait for them.  The lists   *)
(* behind pid_task(nr, PIDTYPE_PGID) are the functions pgrp and session.   *)
(* A refused call changes nothing and is no step; getpgid and getsid only  *)
(* read the two functions.                                                 *)
(* fork, execve, exit, wait and the terminal driver are outside this tree  *)
(* and marked external; a pid number is not given out again while a        *)
(* process, a group or a session uses it.                                  *)
(***************************************************************************)
EXTENDS Integers, FiniteSets

CONSTANTS Pid,         \* pid numbers of processes
          InitPid      \* the process that inherits orphans

ASSUME GroupAssumption == Pid \subseteq Nat \ {0} /\ InitPid \in Pid

VARIABLES life,        \* "free", "run" or "zombie"
          parent,      \* real_parent
          pgrp,        \* task_pgrp
          session,     \* task_session
          leader,      \* signal->leader
          noexec,      \* PF_FORKNOEXEC
          tty,         \* the session whose terminal is signal->tty, 0 when none
          readers      \* callers inside read_lock(&tasklist_lock)

groupVars == <<life, parent, pgrp, session, leader, noexec, tty>>

GroupTypeOK ==
  /\ life \in [Pid -> {"free", "run", "zombie"}]
  /\ parent \in [Pid -> Pid \cup {0}]
  /\ pgrp \in [Pid -> Pid \cup {0}] /\ session \in [Pid -> Pid \cup {0}]
  /\ leader \in [Pid -> BOOLEAN] /\ noexec \in [Pid -> BOOLEAN]
  /\ tty \in [Pid -> Pid \cup {0}]
  /\ readers \subseteq Pid

\* init alone, at the head of a session with a terminal.
GroupInit ==
  /\ life = [p \in Pid |-> IF p = InitPid THEN "run" ELSE "free"]
  /\ parent = [p \in Pid |-> 0]
  /\ pgrp = [p \in Pid |-> IF p = InitPid THEN p ELSE 0]
  /\ session = [p \in Pid |-> IF p = InitPid THEN p ELSE 0]
  /\ leader = [p \in Pid |-> p = InitPid]
  /\ noexec = [p \in Pid |-> FALSE]
  /\ tty = [p \in Pid |-> IF p = InitPid THEN p ELSE 0]
  /\ readers = {}

\* The processes a pid number leads to: zombies too, until they are reaped.
Attached == {p \in Pid : life[p] # "free"}
GroupMembers(g) == {p \in Attached : pgrp[p] = g}
InUse(n) == \E p \in Attached : n \in {p, pgrp[p], session[p]}

-----------------------------------------------------------------------------
(* The calls. *)

\* Mutant of MaySetpgid: any existing group will do.
MaySetpgidAnySession(c, p, g, other) ==
  p \in Attached /\ (p = c \/ parent[p] = c) /\ ~leader[p] /\ (g = p \/ other # 0)

\* What setpgid accepts, for process p and group g; `other' is the member of g
\* that pid_task finds, 0 when there is none.
MaySetpgid(c, p, g, other) ==
  /\ g >= 0
  /\ p \in Attached
  /\ IF parent[p] = c THEN session[p] = session[c] /\ noexec[p] ELSE p = c
  /\ ~leader[p]
  /\ g = p \/ (other # 0 /\ session[other] = session[c])

\* setpgid(pid, pgid), when no security module refuses it
Setpgid(c, pid, pgid) ==
  LET p == IF pid = 0 THEN c ELSE pid
      g == IF pgid = 0 THEN p ELSE pgid
  IN /\ life[c] = "run" /\ readers = {}
     /\ \E other \in IF GroupMembers(g) = {} THEN {0} ELSE GroupMembers(g) :
          MaySetpgid(c, p, g, other)
     /\ pgrp' = [pgrp EXCEPT ![p] = g]
     /\ UNCHANGED <<life, parent, session, leader, noexec, tty, readers>>

\* Mutant of MaySetsid: only leaders are refused.
MaySetsidNoLeader(c) == ~leader[c]

\* ksys_setsid refuses a leader, and a process whose number names a group.
MaySetsid(c) == ~leader[c] /\ GroupMembers(c) = {}

\* proc_clear_tty
ProcClearTty(c) == tty' = [tty EXCEPT ![c] = 0]

\* set_special_pids
SetSpecialPids(c) ==
  /\ session' = [session EXCEPT ![c] = c]
  /\ pgrp' = [pgrp EXCEPT ![c] = c]

\* setsid()
Setsid(c) ==
  /\ life[c] = "run" /\ readers = {}
  /\ MaySetsid(c)
  /\ leader' = [leader EXCEPT ![c] = TRUE]
  /\ SetSpecialPids(c)
  /\ ProcClearTty(c)
  /\ UNCHANGED <<life, parent, noexec, readers>>

-----------------------------------------------------------------------------
(* External: the life of processes and the terminal driver. *)

Fork(c, q) ==
  /\ life[c] = "run" /\ readers = {} /\ ~InUse(q)
  /\ life' = [life EXCEPT ![q] = "run"]
  /\ parent' = [parent EXCEPT ![q] = c]
  /\ pgrp' = [pgrp EXCEPT ![q] = pgrp[c]]
  /\ session' = [session EXCEPT ![q] = session[c]]
  /\ leader' = [leader EXCEPT ![q] = FALSE]
  /\ noexec' = [noexec EXCEPT ![q] = TRUE]
  /\ tty' = [tty EXCEPT ![q] = tty[c]]
  /\ UNCHANGED readers

Execve(c) ==
  /\ life[c] = "run" /\ noexec[c]
  /\ noexec' = [noexec EXCEPT ![c] = FALSE]
  /\ UNCHANGED <<life, parent, pgrp, session, leader, tty, readers>>

\* Children go to init, and a leader takes the terminal from its session.
Exit(p) ==
  /\ life[p] = "run" /\ p # InitPid /\ readers = {}
  /\ life' = [life EXCEPT ![p] = "zombie"]
  /\ parent' = [q \in Pid |-> IF parent[q] = p THEN InitPid ELSE parent[q]]
  /\ tty' = [q \in Pid |-> IF leader[p] /\ session[q] = p THEN 0 ELSE tty[q]]
  /\ UNCHANGED <<pgrp, session, leader, noexec, readers>>

\* release_task, after the parent has waited: every link is gone.
Reap(p) ==
  /\ life[p] = "zombie" /\ readers = {}
  /\ life' = [life EXCEPT ![p] = "free"]
  /\ parent' = [parent EXCEPT ![p] = 0]
  /\ pgrp' = [pgrp EXCEPT ![p] = 0]
  /\ session' = [session EXCEPT ![p] = 0]
  /\ leader' = [leader EXCEPT ![p] = FALSE]
  /\ noexec' = [noexec EXCEPT ![p] = FALSE]
  /\ tty' = [tty EXCEPT ![p] = 0]
  /\ UNCHANGED readers

\* A session leader without a terminal opens one.
OpenTty(c) ==
  /\ life[c] = "run" /\ leader[c] /\ tty[c] = 0
  /\ tty' = [tty EXCEPT ![c] = c]
  /\ UNCHANGED <<life, parent, pgrp, session, leader, noexec, readers>>

\* The caller (0), a process, or nobody; the pid of a thread that is not the
\* leader of its thread group is refused like nobody.
PidArg == Pid \cup {0, -1}

\* The steps of process c that start or reap no process.
GroupStep(c) ==
  \/ \E pid, pgid \in PidArg : Setpgid(c, pid, pgid)
  \/ Setsid(c)
  \/ Execve(c) \/ Exit(c) \/ OpenTty(c)

-----------------------------------------------------------------------------
(* Properties *)

\* Groups, sessions, leaders and terminals fit together whatever setpgid,
\* setsid, forks, exits and reuse of pid numbers do.  The processes of a group
\* are in one session, although setpgid compares sessions with one member of
\* the group only, and with none when a process returns to the group of its own
\* number.  signal->leader, which setpgid and setsid test, is set exactly on
\* the process whose number the session has, and a leader stays in the group of
\* that number.  A process has no terminal but that of its own session.
SessionTree ==
  /\ \A p, q \in Attached : pgrp[p] = pgrp[q] => session[p] = session[q]
  /\ \A p \in Attached : /\ leader[p] <=> session[p] = p
                         /\ leader[p] => pgrp[p] = p
                         /\ tty[p] \in {0, session[p]}

\* A process changes its session only to a new one of its own number, with no
\* process in it and no group of that number left from earlier (setsid refuses
\* otherwise).
FreshSession ==
  [][\A p \in Attached \cap Attached' : session'[p] # session[p] =>
        /\ session'[p] = p
        /\ \A q \in Attached' \ {p} : session'[q] # p /\ pgrp'[q] # p]_<<groupVars, readers>>
=============================================================================
