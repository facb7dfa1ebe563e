----------------------------- MODULE IoThrottle -----------------------------
(***************************************************************************)
(* The get_io_throttle call and the /proc entry of its module: readers of  *)
(* the I/O counters of a task while the task makes the calls of FileIO.    *)
(* The counters are copied one by one and without a lock.  read_bytes and  *)
(* write_bytes, which the block layer counts, are left out.                *)
(***************************************************************************)
EXTENDS FileIO

CONSTANTS Reader,    \* callers of get_io_throttle and readers of the entry
          MaxReads   \* bound on the calls a reader makes

ASSUME ReaderAssumption == MaxReads \in Nat

ESRCH == -3

\* The counters in the order in which they are copied.
Fields == <<"rchar", "wchar", "syscr", "syscw">>

VARIABLES pids,     \* the tasks that find_vpid finds
          pid,      \* the parameter of the module, NULL standing for 0
          reads,    \* calls a reader has made
          reader    \* the call a reader is in

ioVars == <<pids, pid, reads, reader>>
allVars == <<vars, ioVars>>

Zero == [rchar |-> 0, wchar |-> 0, syscr |-> 0, syscw |-> 0]

\* start is history: the counters of all tasks when the task was looked up.
NoRead == [stage |-> "idle", task |-> NULL, todo |-> <<>>, stats |-> Zero, start |-> [t \in Task |-> Zero],
           label |-> NULL, ret |-> 0]

IoInit ==
  /\ Init
  /\ pids = Task
  /\ pid \in Task \cup {NULL}
  /\ reads = [r \in Reader |-> 0]
  /\ reader = [r \in Reader |-> NoRead]

Begin(r) == /\ reader[r].stage = "idle" /\ reads[r] < MaxReads
            /\ reads' = [reads EXCEPT ![r] = @ + 1]

\* A call that ends without a report leaves the result and, for the /proc
\* entry, the pid it names.
Ends(r, ret, label) == reader' = [reader EXCEPT ![r] = [NoRead EXCEPT !.ret = ret, !.label = label]]

\* Mutant: the calls are copied before the bytes.
CopyFromSwapped(r, stage, t) ==
  reader' = [reader EXCEPT ![r] = [NoRead EXCEPT !.stage = stage, !.task = t,
                !.todo = <<"syscr", "syscw", "rchar", "wchar">>, !.start = ioac]]

CopyFrom(r, stage, t) ==
  reader' = [reader EXCEPT ![r] = [NoRead EXCEPT !.stage = stage, !.task = t,
                !.todo = Fields, !.start = ioac]]

\* get_io_throttle(): rcu_read_lock and pid_task(find_vpid(p)).
GetIoStats(r, p) ==
  /\ Begin(r)
  /\ IF p \in pids THEN CopyFrom(r, "syscall", p) ELSE Ends(r, ESRCH, NULL)
  /\ UNCHANGED <<vars, pids, pid>>

\* io_throttle_show(): without a parameter it prints how to give one.
ShowStart(r) ==
  /\ Begin(r)
  /\ IF pid = NULL THEN Ends(r, 0, NULL)
                   ELSE reader' = [reader EXCEPT ![r] = [NoRead EXCEPT !.stage = "lookup"]]
  /\ UNCHANGED <<vars, pids, pid>>

\* The parameter is read again for the lookup, and once more for the message
\* when no task is found.
ShowLookup(r) ==
  /\ reader[r].stage = "lookup"
  /\ IF pid \in pids THEN CopyFrom(r, "show", pid) ELSE Ends(r, 0, pid)
  /\ UNCHANGED <<vars, pids, pid, reads>>

\* Mutant: the counters of a process that is not found any more read as zero.
CopyFieldGone(r) ==
  LET fr == reader[r]
      s == Head(fr.todo) IN
  /\ fr.stage \in {"syscall", "show"} /\ fr.todo # <<>>
  /\ reader' = [reader EXCEPT ![r] = [fr EXCEPT !.todo = Tail(@),
                   !.stats[s] = IF fr.task \in pids THEN ioac[fr.task][s] ELSE 0]]
  /\ UNCHANGED <<vars, pids, pid, reads>>

\* stats->rchar = task->ioac.rchar, and so on.
CopyField(r) ==
  LET fr == reader[r]
      s == Head(fr.todo) IN
  /\ fr.stage \in {"syscall", "show"} /\ fr.todo # <<>>
  /\ reader' = [reader EXCEPT ![r] = [fr EXCEPT !.todo = Tail(@), !.stats[s] = ioac[fr.task][s]]]
  /\ UNCHANGED <<vars, pids, pid, reads>>

\* rcu_read_unlock and copy_to_user.
CopyToUser(r) ==
  /\ reader[r].stage = "syscall" /\ reader[r].todo = <<>>
  /\ \E ret \in {0, EFAULT} : Ends(r, ret, NULL)
  /\ UNCHANGED <<vars, pids, pid, reads>>

\* rcu_read_unlock, and the report under the pid that the parameter has now.
ShowPrint(r) ==
  /\ reader[r].stage = "show" /\ reader[r].todo = <<>>
  /\ Ends(r, 0, pid)
  /\ UNCHANGED <<vars, pids, pid, reads>>

\* The parameter is written through sysfs (mode 0644).
SetPid(p) ==
  /\ p # pid /\ pid' = p
  /\ UNCHANGED <<vars, pids, reads, reader>>

\* A task ends: it makes no more calls and its pid is free.
ExitTask(t) ==
  /\ t \in pids /\ call[t].stage = "idle"
  /\ pids' = pids \ {t}
  /\ calls' = [calls EXCEPT ![t] = MaxCalls]
  /\ UNCHANGED <<fileVars, ioac, moved, call, pid, reads, reader>>

Read(r) ==
  \/ \E p \in Task : GetIoStats(r, p)
  \/ ShowStart(r)
  \/ ShowLookup(r)
  \/ CopyField(r)
  \/ CopyToUser(r)
  \/ ShowPrint(r)

IoNext ==
  \/ Next /\ UNCHANGED ioVars
  \/ \E r \in Reader : Read(r)
  \/ \E p \in Task \cup {NULL} : SetPid(p)
  \/ \E t \in Task : ExitTask(t)

IoSpec == IoInit /\ [][IoNext]_allVars

-----------------------------------------------------------------------------
Reporting(r) == reader[r].stage \in {"syscall", "show"} /\ reader[r].todo = <<>>

\* The report is no snapshot, but every counter in it was current at some
\* moment between the lookup of the task and the report.
ReportIsRecent == \A r \in Reader : Reporting(r) =>
  LET fr == reader[r] IN
  \A i \in DOMAIN Fields : fr.start[fr.task][Fields[i]] <= fr.stats[Fields[i]]
                           /\ fr.stats[Fields[i]] <= ioac[fr.task][Fields[i]]

\* The bytes of a report belong to the calls of the report: there are at most
\* MAX_RW_COUNT for each call and for the one that may not be counted yet.
\* This needs the order in which the counters are copied, after the order in
\* which read_write.c adds them up.
BytesMatchCalls == \A r \in Reader : Reporting(r) =>
  LET s == reader[r].stats IN
  /\ s.rchar <= MaxRw * (s.syscr + 1)
  /\ s.wchar <= MaxRw * (s.syscw + 1)

==============================================================================
