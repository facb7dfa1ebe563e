---------------------------- MODULE MCIoThrottle ----------------------------
(***************************************************************************)
(* An instance of IoThrottle for TLC: a regular file and a pipe, written   *)
(* and read under a file size limit while a reader copies the counters.    *)
(***************************************************************************)
EXTENDS IoThrottle

CONSTANTS plain, pipe

Rw == {"READ", "CAN_READ", "WRITE", "CAN_WRITE"}

MCAttr == [f \in File |->
  CASE f = plain -> [mode |-> Rw \cup {"REG", "PREAD", "PWRITE", "LSEEK", "ATOMIC_POS"},
                     inode |-> "a", sb |-> 1, llseek |-> "generic"]
    [] f = pipe  -> [mode |-> Rw \cup {"STREAM"}, inode |-> "p", sb |-> 2, llseek |-> "noop"]]

\* All tasks are threads of one process: the characters that the process has
\* read when the call starts are in the report, as the struct's comment says
\* (get_io_throttle.c: "Representa estadisticas I/O del proceso").
ProcessTotal ==
  \A r \in Reader : Reporting(r) =>
    \A t \in Task : reader[r].stats.rchar >= reader[r].start[t].rchar

==============================================================================
