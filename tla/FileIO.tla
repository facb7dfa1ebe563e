------------------------------- MODULE FileIO -------------------------------
(***************************************************************************)
(* fs/read_write.c: the read, write, seek and copy calls of concurrent     *)
(* tasks on shared open files.  What a call moves is abstracted to a count *)
(* of bytes; the file position, the size of the inode, the position lock   *)
(* and the I/O counters of the task are kept, and a call is split where    *)
(* another task can see it half done.                                      *)
(*                                                                         *)
(* A file is described by Attr[f]: its mode (the FMODE_, O_ and inode      *)
(* flags that the code tests), its inode, its superblock and the llseek    *)
(* method.  Files with FMODE_UNSIGNED_OFFSET (/dev/mem) are left out.      *)
(***************************************************************************)
EXTENDS Integers, Sequences

CONSTANTS Task,        \* the threads that make the calls
          File,        \* open files, shared by all tasks
          NULL,        \* no file: a bad descriptor
          Attr,        \* [File -> [mode, inode, sb, llseek]]
          Ops,         \* the calls that are made
          Counts,      \* the byte counts asked for
          Offsets,     \* the offsets passed by the caller
          MaxBytes,    \* s_maxbytes of the superblocks
          MaxNonLfs,   \* MAX_NON_LFS
          FsizeLimit,  \* rlimit(RLIMIT_FSIZE), NULL standing for RLIM_INFINITY
          MaxRw,       \* MAX_RW_COUNT
          OffsetMax,   \* the largest loff_t
          MaxCalls     \* bound on the calls a task makes

Inode == {Attr[f].inode : f \in File}

Readers == {"read", "readv", "pread", "preadv"}
Vectored == {"readv", "writev", "preadv", "pwritev"}
Positional == {"read", "write", "readv", "writev"}
Explicit == {"pread", "pwrite", "preadv", "pwritev"}
Unlocked == {"sendfile", "copy_file_range"}

ASSUME FileAssumption ==
  /\ NULL \notin File \cup Task
  /\ Ops \subseteq Positional \cup Explicit \cup Unlocked \cup {"lseek"}
  /\ Counts \subseteq Nat /\ Offsets \subseteq Int
  /\ {MaxBytes, MaxNonLfs, MaxRw, OffsetMax, MaxCalls} \subseteq Nat
  /\ MaxBytes <= OffsetMax /\ MaxNonLfs <= OffsetMax
  /\ FsizeLimit \in Nat \cup {NULL}
  /\ \A f \in File : Attr[f].llseek \in {"generic", "default", "fixed", "no_end", "noop"}

EPERM == -1
EIO == -5
ENXIO == -6
EBADF == -9
EACCES == -13
EFAULT == -14
EXDEV == -18
EISDIR == -21
EINVAL == -22
ETXTBSY == -26
EFBIG == -27
ESPIPE == -29
EOVERFLOW == -75

VARIABLES f_pos,       \* file->f_pos
          pos_lock,    \* file->f_pos_lock: the task that holds it
          i_size,      \* inode->i_size
          ioac,        \* task->ioac
          moved,       \* history: bytes read and written for a task
          calls,       \* calls a task has made
          call         \* the call a task is in

fileVars == <<f_pos, pos_lock, i_size>>
vars == <<fileVars, ioac, moved, calls, call>>

NoCall == [op |-> "none", stage |-> "idle", in |-> NULL, out |-> NULL, count |-> 0,
           pos |-> 0, out_pos |-> 0, max |-> 0, user |-> {}, todo |-> <<>>,
           done |-> 0, ret |-> 0]

Init ==
  /\ f_pos = [f \in File |-> 0]
  /\ pos_lock = [f \in File |-> NULL]
  /\ i_size \in [Inode -> 0..MaxBytes]
  /\ \A f \in File : "STREAM" \in Attr[f].mode => i_size[Attr[f].inode] = 0
  /\ ioac = [t \in Task |-> [rchar |-> 0, wchar |-> 0, syscr |-> 0, syscw |-> 0]]
  /\ moved = [t \in Task |-> [read |-> 0, written |-> 0]]
  /\ calls = [t \in Task |-> 0]
  /\ call = [t \in Task |-> NoCall]

-----------------------------------------------------------------------------
Has(f, flag) == flag \in Attr[f].mode
Size(f) == i_size[Attr[f].inode]
Stream(f) == Has(f, "STREAM")

MinOf(a, b) == IF a <= b THEN a ELSE b
MaxOf(a, b) == IF a >= b THEN a ELSE b

\* A value of type u64.
U64(x) == x % (2 * (OffsetMax + 1))

\* The error of the first check that fails; a check is a pair <<fails, error>>.
FirstError(checks) ==
  LET bad == {i \in DOMAIN checks : checks[i][1]} IN
  IF bad = {} THEN 0 ELSE checks[CHOOSE i \in bad : \A j \in bad : i <= j][2]

\* rw_verify_area() without the security hook: a count negative as ssize_t, a
\* negative position, or an end beyond the largest loff_t.
BadArea(pos, n) == n > OffsetMax \/ pos < 0 \/ pos + n > OffsetMax

\* generic_write_check_limits().
WriteLimits(f, pos, n) ==
  LET max == IF Has(f, "LARGEFILE") THEN MaxBytes ELSE MaxNonLfs
      cut == IF FsizeLimit = NULL THEN n ELSE MinOf(n, FsizeLimit - pos) IN
  IF (FsizeLimit # NULL /\ pos >= FsizeLimit) \/ pos >= max
    THEN [err |-> EFBIG, pos |-> pos, count |-> 0]
    ELSE [err |-> 0, pos |-> pos, count |-> MinOf(cut, max - pos)]

\* Mutant: the limits are checked before O_APPEND moves the position.
WriteChecksEarly(f, pos, n) ==
  LET w == WriteLimits(f, pos, n) IN
  IF n = 0 \/ w.err # 0 \/ ~ Has(f, "APPEND") THEN w ELSE [w EXCEPT !.pos = Size(f)]

\* generic_write_checks(), which every regular file's write method starts with,
\* under the lock of the inode.
WriteChecks(f, pos, n) ==
  IF Has(f, "SWAPFILE") THEN [err |-> ETXTBSY, pos |-> pos, count |-> 0]
  ELSE IF n = 0 THEN [err |-> 0, pos |-> pos, count |-> 0]
  ELSE WriteLimits(f, IF Has(f, "APPEND") THEN Size(f) ELSE pos, n)

\* The modes that a call in one direction needs.
Mode(op) == IF op \in Readers THEN [open |-> "READ", can |-> "CAN_READ"]
                              ELSE [open |-> "WRITE", can |-> "CAN_WRITE"]

\* The checks of vfs_read() and vfs_write().  env is what the environment
\* does: the buffer is bad ("fault"), or the security hook refuses ("denied").
VfsCheck(op, f, pos, n, env) ==
  FirstError(<< <<~ Has(f, Mode(op).open), EBADF>>,
                <<~ Has(f, Mode(op).can), EINVAL>>,
                <<env = "fault", EFAULT>>,
                <<BadArea(pos, n), EINVAL>>,
                <<env = "denied", EACCES>> >>)

\* The checks of do_iter_read() and do_iter_write(); an empty vector passes
\* the area check by.
IterCheck(op, f, pos, n, env) ==
  FirstError(<< <<~ Has(f, Mode(op).open), EBADF>>,
                <<~ Has(f, Mode(op).can), EINVAL>>,
                <<n > 0 /\ BadArea(pos, n), EINVAL>>,
                <<n > 0 /\ env = "denied", EACCES>> >>)

\* vfs_readv(), vfs_writev(): import_iovec() may fail, and cuts the count to
\* MAX_RW_COUNT before the area is verified.
VecCheck(op, f, pos, n, env) ==
  IF env = "fault" THEN EFAULT
  ELSE IF n > OffsetMax THEN EINVAL
  ELSE IterCheck(op, f, pos, MinOf(n, MaxRw), env)

RwCheck(op, f, pos, n, env) ==
  IF op \in Vectored THEN VecCheck(op, f, pos, n, env) ELSE VfsCheck(op, f, pos, n, env)

-----------------------------------------------------------------------------
\* What a call still has to do after the data has moved, in its order.
After(op) ==
  CASE op = "read"    -> <<"rchar", "syscr", "pos">>
    [] op = "write"   -> <<"wchar", "syscw", "pos">>
    [] op = "readv"   -> <<"pos", "rchar", "syscr">>
    [] op = "writev"  -> <<"pos", "wchar", "syscw">>
    [] op \in {"pread", "preadv"}   -> <<"rchar", "syscr">>
    [] op \in {"pwrite", "pwritev"} -> <<"wchar", "syscw">>
    [] op = "sendfile" -> <<"rchar", "wchar", "pos_out", "pos_in", "syscr", "syscw">>
    [] op = "copy_file_range" -> <<"rchar", "wchar", "syscr", "syscw", "pos_in", "pos_out">>

\* Mutant: the error return of read and write forgets fdput_pos.
EarlyLocked(op) == IF op \in Vectored THEN After(op) ELSE <<>>

\* What is left to do when a check fails before the file method is called:
\* the vectored calls count the attempt, read and write only unlock.
Early(op) ==
  IF op \in Vectored THEN After(op) ELSE IF op \in {"read", "write"} THEN <<"pos">> ELSE <<>>

\* The call fr goes on to move data, or ends at once with r.
Proceed(t, fr) ==
  call' = [call EXCEPT ![t] = [fr EXCEPT !.stage = "xfer", !.count = MinOf(@, MaxRw),
                                         !.todo = After(fr.op)]]
Stop(t, fr, r, todo) ==
  call' = [call EXCEPT ![t] = [fr EXCEPT !.stage = "finish", !.ret = r, !.todo = todo]]

Ready(t) == call[t].stage = "idle" /\ calls[t] < MaxCalls

CountCall(t) == calls' = [calls EXCEPT ![t] = @ + 1]

OneFile(op, f, n) ==
  [NoCall EXCEPT !.op = op, !.count = n, !.in = IF op \in Readers THEN f ELSE NULL,
                 !.out = IF op \in Readers THEN NULL ELSE f]

\* ksys_read, ksys_write, do_readv, do_writev up to fdget_pos.
RwCall(t, op, f, n) ==
  LET fr == OneFile(op, f, n) IN
  /\ Ready(t) /\ CountCall(t)
  /\ IF f # NULL
       THEN call' = [call EXCEPT ![t] = [fr EXCEPT !.stage = "lock"]]
       ELSE Stop(t, [NoCall EXCEPT !.op = op], EBADF, IF op \in Vectored THEN Tail(After(op)) ELSE <<>>)
  /\ UNCHANGED <<fileVars, ioac, moved>>

TheFile(fr) == IF fr.op \in Readers THEN fr.in ELSE fr.out

\* fdget_pos() takes the position lock of a file with FMODE_ATOMIC_POS, the
\* position is copied and the checks are made.
FdgetPos(t, env) ==
  LET f == TheFile(call[t])
      at == IF Stream(f) THEN 0 ELSE f_pos[f]
      fr == IF call[t].op \in Readers THEN [call[t] EXCEPT !.pos = at]
                                      ELSE [call[t] EXCEPT !.out_pos = at]
      err == RwCheck(fr.op, f, at, fr.count, env) IN
  /\ call[t].stage = "lock"
  /\ IF Has(f, "ATOMIC_POS")
       THEN pos_lock[f] = NULL /\ pos_lock' = [pos_lock EXCEPT ![f] = t]
       ELSE UNCHANGED pos_lock
  /\ IF err # 0 \/ (fr.op \in Vectored /\ fr.count = 0)
       THEN Stop(t, [fr EXCEPT !.count = 0], err, Early(fr.op))
       ELSE Proceed(t, fr)
  /\ UNCHANGED <<f_pos, i_size, ioac, moved, calls>>

\* pread and pwrite need a file that is not a pipe.
PrwError(op, f, n, pos, env) ==
  IF f = NULL THEN EBADF
  ELSE IF ~ Has(f, IF op \in Readers THEN "PREAD" ELSE "PWRITE") THEN ESPIPE
  ELSE RwCheck(op, f, pos, n, env)

PrwFrame(op, f, n, pos) == [OneFile(op, f, n) EXCEPT !.pos = pos, !.out_pos = pos]

\* ksys_pread64, ksys_pwrite64: no position, no lock.
PrwCall(t, op, f, n, pos, env) ==
  LET err == IF pos < 0 THEN EINVAL ELSE PrwError(op, f, n, pos, env) IN
  /\ Ready(t) /\ CountCall(t)
  /\ IF err # 0 THEN Stop(t, [NoCall EXCEPT !.op = op], err, <<>>)
                ELSE Proceed(t, PrwFrame(op, f, n, pos))
  /\ UNCHANGED <<fileVars, ioac, moved>>

\* do_preadv, do_pwritev: all but a negative position is counted as a call.
PrwvCall(t, op, f, n, pos, env) ==
  LET err == PrwError(op, f, n, pos, env) IN
  /\ Ready(t) /\ CountCall(t)
  /\ IF pos < 0 THEN Stop(t, [NoCall EXCEPT !.op = op], EINVAL, <<>>)
     ELSE IF err # 0 \/ n = 0 THEN Stop(t, [NoCall EXCEPT !.op = op], err, Early(op))
     ELSE Proceed(t, PrwFrame(op, f, n, pos))
  /\ UNCHANGED <<fileVars, ioac, moved>>

\* do_sendfile(): the positions are read without the position locks.  max is
\* MAX_NON_LFS for sendfile with an offset and s_maxbytes otherwise.
SendfileCall(t, in, out, user, n, off, max, env) ==
  LET pos == IF user # {} \/ in = NULL THEN off ELSE f_pos[in]
      len == LET m == MinOf(n, MaxRw) IN IF pos + m > max THEN max - pos ELSE m
      out_pos == IF out = NULL THEN 0 ELSE f_pos[out]
      fr == [NoCall EXCEPT !.op = "sendfile", !.in = in, !.out = out, !.user = user,
                           !.count = len, !.pos = pos, !.out_pos = out_pos, !.max = max]
      err == IF in = NULL THEN EBADF ELSE
        FirstError(<< <<~ Has(in, "READ"), EBADF>>,
                      <<user # {} /\ ~ Has(in, "PREAD"), ESPIPE>>,
                      <<BadArea(pos, n), EINVAL>>,
                      <<env = "denied", EACCES>>,
                      <<out = NULL, EBADF>>,
                      <<out # NULL /\ ~ Has(out, "WRITE"), EBADF>>,
                      <<pos + MinOf(n, MaxRw) > max /\ pos >= max, EOVERFLOW>>,
                      <<out # NULL /\ ~ Stream(out) /\ BadArea(out_pos, len), EINVAL>> >>)
      none == [NoCall EXCEPT !.op = "sendfile", !.max = NULL] IN
  /\ Ready(t) /\ CountCall(t)
  /\ IF user # {} /\ env = "fault" THEN Stop(t, none, EFAULT, <<>>)
     ELSE IF err # 0 THEN Stop(t, [none EXCEPT !.user = user], err, <<>>)
     ELSE Proceed(t, fr)
  /\ UNCHANGED <<fileVars, ioac, moved>>

\* Mutant: an overlap is only seen when the copy runs forwards.
OverlapsForward(in, out, pos, out_pos, n) ==
  /\ Attr[in].inode = Attr[out].inode
  /\ out_pos >= pos /\ out_pos < pos + n

\* The overlap test of generic_copy_file_checks(), in u64 arithmetic.
Overlaps(in, out, pos, out_pos, n) ==
  /\ Attr[in].inode = Attr[out].inode
  /\ U64(out_pos + n) > U64(pos)
  /\ U64(out_pos) < U64(pos + n)

\* generic_file_rw_checks().
FileRwChecks(in, out) ==
  FirstError(<< <<Has(in, "DIR") \/ Has(out, "DIR"), EISDIR>>,
                <<~ Has(in, "REG") \/ ~ Has(out, "REG"), EINVAL>>,
                <<~ Has(in, "READ") \/ ~ Has(out, "WRITE") \/ Has(out, "APPEND"), EBADF>> >>)

\* generic_copy_file_checks() on two open files, for files without a
\* copy_file_range method: the error, or the shortened count.
CopyChecks(in, out, pos, out_pos, n) ==
  LET eof == IF pos >= Size(in) THEN 0 ELSE MinOf(n, U64(Size(in) - pos))
      w == WriteLimits(out, out_pos, eof)
      rw == FileRwChecks(in, out)
      err == FirstError(<< <<rw # 0, rw>>,
                           <<Attr[in].sb # Attr[out].sb, EXDEV>>,
                           <<Has(out, "IMMUTABLE"), EPERM>>,
                           <<Has(in, "SWAPFILE") \/ Has(out, "SWAPFILE"), ETXTBSY>>,
                           <<U64(pos + n) < U64(pos) \/ U64(out_pos + n) < U64(out_pos), EOVERFLOW>>,
                           <<w.err # 0, w.err>>,
                           <<Overlaps(in, out, pos, out_pos, w.count), EINVAL>> >>) IN
  [err |-> err, count |-> w.count]

\* vfs_copy_file_range() up to the copy: the error, or the bytes to copy.
VfsCopyFileRange(in, out, pos, out_pos, n, env) ==
  LET chk == CopyChecks(in, out, pos, out_pos, n)
      len == chk.count IN
  [err |-> FirstError(<< <<env = "flags", EINVAL>>,
                         <<chk.err # 0, chk.err>>,
                         <<BadArea(pos, len) \/ BadArea(out_pos, len), EINVAL>>,
                         <<env = "denied", EACCES>> >>),
   count |-> len]

\* copy_file_range() up to the copy.  user is the
\* set of positions that are given by the caller.
CopyCall(t, in, out, user, n, off, out_off, env) ==
  LET pos == IF "in" \in user \/ in = NULL THEN off ELSE f_pos[in]
      out_pos == IF "out" \in user \/ out = NULL THEN out_off ELSE f_pos[out]
      v == VfsCopyFileRange(in, out, pos, out_pos, n, env)
      fr == [NoCall EXCEPT !.op = "copy_file_range", !.in = in, !.out = out, !.user = user,
                           !.count = v.count, !.pos = pos, !.out_pos = out_pos]
      none == [NoCall EXCEPT !.op = "copy_file_range"] IN
  /\ Ready(t) /\ CountCall(t)
  /\ IF in = NULL \/ out = NULL THEN Stop(t, none, EBADF, <<>>)
     ELSE IF user # {} /\ env = "fault" THEN Stop(t, none, EFAULT, <<>>)
     ELSE IF v.err # 0 \/ v.count = 0 THEN Stop(t, none, v.err, <<>>)
     ELSE Proceed(t, fr)
  /\ UNCHANGED <<fileVars, ioac, moved>>

-----------------------------------------------------------------------------
\* do_splice_direct() takes no stream as input and no O_APPEND output.
Splices(fr) ==
  fr.op \in Unlocked => ~ Stream(fr.in) /\ ~ Has(fr.out, "APPEND")

\* The read, write, splice or copy method of the files: it may fail, and it
\* may move fewer bytes than asked for, but some unless none are available.
Transfer(t) ==
  LET fr == call[t]
      w == IF fr.out = NULL \/ (fr.out # NULL /\ Stream(fr.out))
             THEN [err |-> 0, pos |-> fr.out_pos, count |-> fr.count]
             ELSE WriteChecks(fr.out, fr.out_pos, fr.count)
      avail == IF fr.in = NULL THEN w.count
               ELSE IF Stream(fr.in) THEN w.count
               ELSE MinOf(w.count, MaxOf(0, Size(fr.in) - fr.pos)) IN
  /\ fr.stage = "xfer"
  /\ \/ /\ w.err # 0
        /\ Stop(t, [fr EXCEPT !.count = 0], w.err, fr.todo)
        /\ UNCHANGED <<i_size, moved>>
     \/ /\ Stop(t, [fr EXCEPT !.count = 0], EIO, fr.todo)
        /\ UNCHANGED <<i_size, moved>>
     \/ /\ w.err = 0 /\ Splices(fr)
        /\ \E k \in IF avail = 0 THEN {0} ELSE 1..avail :
             /\ Stop(t, [fr EXCEPT !.done = k, !.count = 0,
                           !.pos = IF fr.in = NULL THEN @ ELSE @ + k,
                           !.out_pos = IF fr.out = NULL THEN @
                                       ELSE IF Stream(fr.out) THEN @ ELSE w.pos + k],
                     k, fr.todo)
             /\ i_size' = IF fr.out # NULL /\ k > 0
                            THEN IF Stream(fr.out) THEN i_size
                                 ELSE [i_size EXCEPT ![Attr[fr.out].inode] = MaxOf(@, w.pos + k)]
                            ELSE i_size
             /\ moved' = [moved EXCEPT ![t] =
                  [read |-> @.read + (IF fr.in # NULL THEN k ELSE 0),
                   written |-> @.written + (IF fr.out # NULL THEN k ELSE 0)]]
  /\ UNCHANGED <<f_pos, pos_lock, ioac, calls>>

\* The next thing the call has to do.
Due(t, s) == call[t].stage = "finish" /\ call[t].todo # <<>> /\ Head(call[t].todo) = s

Did(t, fr) == call' = [call EXCEPT ![t] = [fr EXCEPT !.todo = Tail(@)]]

\* Mutant: a failed call is charged as if it had moved a byte.
AddCharFailed(t, s) ==
  /\ Due(t, s)
  /\ ioac' = [ioac EXCEPT ![t][s] = @ + MaxOf(1, call[t].ret)]
  /\ Did(t, call[t])
  /\ UNCHANGED <<fileVars, moved, calls>>

\* if (ret > 0) add_rchar(current, ret), and the same for wchar.
AddChar(t, s) ==
  /\ Due(t, s)
  /\ ioac' = [ioac EXCEPT ![t][s] = @ + MaxOf(0, call[t].ret)]
  /\ Did(t, call[t])
  /\ UNCHANGED <<fileVars, moved, calls>>

\* inc_syscr(current), inc_syscw(current).
IncSysc(t, s) ==
  /\ Due(t, s)
  /\ ioac' = [ioac EXCEPT ![t][s] = @ + 1]
  /\ Did(t, call[t])
  /\ UNCHANGED <<fileVars, moved, calls>>

\* if (ret >= 0 && ppos) f_pos = pos; fdput_pos().
FdputPos(t) ==
  LET fr == call[t]
      f == TheFile(fr)
      at == IF fr.op \in Readers THEN fr.pos ELSE fr.out_pos IN
  /\ Due(t, "pos")
  /\ f_pos' = IF fr.ret >= 0 /\ ~ Stream(f) THEN [f_pos EXCEPT ![f] = at] ELSE f_pos
  /\ pos_lock' = [pos_lock EXCEPT ![f] = IF Has(f, "ATOMIC_POS") THEN NULL ELSE @]
  /\ Did(t, fr)
  /\ UNCHANGED <<i_size, ioac, moved, calls>>

\* sendfile and copy_file_range store the new position in the file or, for
\* copy_file_range, in the caller's variable, which may fault.
StorePos(t, s) ==
  LET fr == call[t]
      side == IF s = "pos_in" THEN "in" ELSE "out"
      f == IF s = "pos_in" THEN fr.in ELSE fr.out
      at == IF s = "pos_in" THEN fr.pos ELSE fr.out_pos IN
  /\ Due(t, s)
  /\ f_pos' = IF fr.done > 0 /\ side \notin fr.user THEN [f_pos EXCEPT ![f] = at] ELSE f_pos
  /\ \E fault \in IF fr.op = "copy_file_range" /\ fr.done > 0 /\ side \in fr.user
                    THEN BOOLEAN ELSE {FALSE} :
       Did(t, IF fault THEN [fr EXCEPT !.ret = EFAULT] ELSE fr)
  /\ UNCHANGED <<pos_lock, i_size, ioac, moved, calls>>

\* Mutant: a sendfile that reaches the limit exactly reports an overflow.
ReturnLimit(t) ==
  LET fr == call[t]
      r == IF fr.op = "sendfile" /\ fr.max # NULL /\ fr.pos >= fr.max THEN EOVERFLOW ELSE fr.ret IN
  /\ fr.stage = "finish" /\ fr.todo = <<>>
  /\ call' = [call EXCEPT ![t] = [NoCall EXCEPT !.ret = r]]
  /\ UNCHANGED <<fileVars, ioac, moved, calls>>

\* The end of a call.  do_sendfile() overrides the result if the position has
\* passed the limit; sendfile then stores it in the caller's variable.
Return(t) ==
  LET fr == call[t]
      r == IF fr.op = "sendfile" /\ fr.max # NULL /\ fr.pos > fr.max THEN EOVERFLOW ELSE fr.ret IN
  /\ fr.stage = "finish" /\ fr.todo = <<>>
  /\ \E e \in {r} \cup (IF fr.op = "sendfile" /\ fr.user # {} THEN {EFAULT} ELSE {}) :
       call' = [call EXCEPT ![t] = [NoCall EXCEPT !.ret = e]]
  /\ UNCHANGED <<fileVars, ioac, moved, calls>>

-----------------------------------------------------------------------------
\* The outcome of a seek: the new position and the result.
Seek(pos, r) == [pos |-> pos, ret |-> r]

\* vfs_setpos().
VfsSetpos(f, off, max) ==
  IF off < 0 \/ off > max THEN Seek(f_pos[f], EINVAL) ELSE Seek(off, off)

\* generic_file_llseek_size(): SEEK_DATA and SEEK_HOLE compare as unsigned.
GenericLlseek(f, off, whence, max, eof) ==
  CASE whence = "SET" -> VfsSetpos(f, off, max)
    [] whence = "END" -> VfsSetpos(f, off + eof, max)
    [] whence = "CUR" -> IF off = 0 THEN Seek(f_pos[f], f_pos[f])
                                    ELSE VfsSetpos(f, f_pos[f] + off, max)
    [] whence \in {"DATA", "HOLE"} ->
         IF off < 0 \/ off >= eof THEN Seek(f_pos[f], ENXIO)
         ELSE VfsSetpos(f, IF whence = "HOLE" THEN eof ELSE off, max)

\* default_llseek(): signed comparisons, and no upper limit.
DefaultLlseek(f, off, whence) ==
  CASE whence \in {"DATA", "HOLE"} /\ off >= Size(f) -> Seek(f_pos[f], ENXIO)
    [] whence = "CUR" /\ off = 0 -> Seek(f_pos[f], f_pos[f])
    [] OTHER -> VfsSetpos(f, CASE whence = "END" -> off + Size(f)
                               [] whence = "CUR" -> off + f_pos[f]
                               [] whence = "HOLE" -> Size(f)
                               [] OTHER -> off, OffsetMax)

\* The llseek method of the file.  The size of a fixed-size device is that of
\* its inode; "no_end" is no_seek_end_llseek.
Llseek(f, off, whence) ==
  LET kind == Attr[f].llseek
      known == CASE kind = "fixed" -> {"SET", "CUR", "END"}
                 [] kind = "no_end" -> {"SET", "CUR"}
                 [] OTHER -> {"SET", "CUR", "END", "DATA", "HOLE"} IN
  CASE kind = "noop" -> Seek(f_pos[f], f_pos[f])
    [] kind = "default" -> DefaultLlseek(f, off, whence)
    [] whence \notin known -> Seek(f_pos[f], EINVAL)
    [] kind = "generic" -> GenericLlseek(f, off, whence, MaxBytes, Size(f))
    [] kind = "fixed" -> GenericLlseek(f, off, whence, Size(f), Size(f))
    [] kind = "no_end" -> GenericLlseek(f, off, whence, OffsetMax, 0)

\* Mutant: lseek uses fdget() and so runs inside other calls' sections.
LseekUnlocked(t, f, off, whence) ==
  /\ Ready(t) /\ CountCall(t)
  /\ f # NULL
  /\ f_pos' = [f_pos EXCEPT ![f] = Llseek(f, off, whence).pos]
  /\ UNCHANGED <<pos_lock, i_size, ioac, moved, call>>

\* ksys_lseek(): fdget_pos, vfs_llseek, fdput_pos.
Lseek(t, f, off, whence) ==
  LET s == IF f = NULL THEN Seek(0, EBADF)
           ELSE IF whence = "BAD" THEN Seek(f_pos[f], EINVAL)
           ELSE IF ~ Has(f, "LSEEK") THEN Seek(f_pos[f], ESPIPE)
           ELSE Llseek(f, off, whence) IN
  /\ Ready(t) /\ CountCall(t)
  /\ IF f = NULL
       THEN UNCHANGED f_pos
       ELSE /\ Has(f, "ATOMIC_POS") => pos_lock[f] = NULL
            /\ f_pos' = [f_pos EXCEPT ![f] = s.pos]
  /\ call' = [call EXCEPT ![t] = [NoCall EXCEPT !.ret = s.ret]]
  /\ UNCHANGED <<pos_lock, i_size, ioac, moved>>

-----------------------------------------------------------------------------
\* Another process truncates the file.
Truncate(i, n) ==
  /\ n < i_size[i]
  /\ i_size' = [i_size EXCEPT ![i] = n]
  /\ UNCHANGED <<f_pos, pos_lock, ioac, moved, calls, call>>

Fd == File \cup {NULL}
Env == {"ok", "fault", "denied"}

Call(t) == Ready(t) /\ \E f \in Fd, n \in Counts :
  \/ \E op \in Ops \cap Positional : RwCall(t, op, f, n)
  \/ \E op \in (Ops \cap Explicit) \ Vectored, pos \in Offsets, env \in Env :
       PrwCall(t, op, f, n, pos, env)
  \/ \E op \in Ops \cap Explicit \cap Vectored, pos \in Offsets, env \in Env :
       PrwvCall(t, op, f, n, pos, env)
  \/ /\ "sendfile" \in Ops
     /\ \E out \in Fd, env \in Env :
          \/ SendfileCall(t, f, out, {}, n, 0, MaxBytes, env)
          \/ \E max \in {MaxNonLfs, MaxBytes}, off \in Offsets :
               SendfileCall(t, f, out, {"in"}, n, off, max, env)
  \/ /\ "copy_file_range" \in Ops
     /\ \E out \in Fd, env \in Env \cup {"flags"} :
          \/ CopyCall(t, f, out, {}, n, 0, 0, env)
          \/ /\ NULL \notin {f, out}
             /\ \E off \in Offsets :
                  \/ CopyCall(t, f, out, {"in"}, n, off, 0, env)
                  \/ CopyCall(t, f, out, {"out"}, n, 0, off, env)
                  \/ \E out_off \in Offsets : CopyCall(t, f, out, {"in", "out"}, n, off, out_off, env)

SeekCall(t) == Ready(t) /\ "lseek" \in Ops /\
  \E f \in Fd, off \in Offsets, whence \in {"SET", "CUR", "END", "DATA", "HOLE", "BAD"} :
    Lseek(t, f, off, whence)

Step(t) ==
  \/ \E env \in Env : FdgetPos(t, env)
  \/ Transfer(t)
  \/ \E s \in {"rchar", "wchar"} : AddChar(t, s)
  \/ \E s \in {"syscr", "syscw"} : IncSysc(t, s)
  \/ FdputPos(t)
  \/ \E s \in {"pos_in", "pos_out"} : StorePos(t, s)
  \/ Return(t)

Next == \/ \E t \in Task : Call(t) \/ SeekCall(t) \/ Step(t)
        \/ \E i \in Inode, n \in 0..MaxBytes : Truncate(i, n)

Spec == Init /\ [][Next]_vars

\* A task in a call keeps running; the position lock is a mutex that is handed
\* to its waiters in turn.
FairSpec == Spec /\ \A t \in Task : SF_vars(Step(t))

-----------------------------------------------------------------------------
\* The call holds the position of its file: from fdget_pos to fdput_pos.
HoldsPos(t) == /\ call[t].op \in Positional
               /\ \/ call[t].stage = "xfer"
                  \/ call[t].stage = "finish" /\ \E i \in DOMAIN call[t].todo : call[t].todo[i] = "pos"

\* read, write, readv, writev and lseek on one open file do not lose each
\* other's position: from fdget_pos to fdput_pos of a call the position of the
\* file is moved by that call or by sendfile and copy_file_range, which store
\* it without the lock, but by no other call.
PositionKept ==
  [][\A t \in Task : LET f == TheFile(call[t]) IN
       HoldsPos(t) /\ Has(f, "ATOMIC_POS") /\ f_pos'[f] # f_pos[f] =>
         \E u \in Task : call'[u] # call[u] /\ (u = t \/ call[u].op \in Unlocked)]_vars

\* rchar and wchar of a task are the bytes its calls have moved, except those
\* of a call that has not come to its accounting yet: on every path, short
\* or failed transfers included, a byte is counted once.
AccountExact == \A t \in Task :
  LET left(s) == IF \E i \in DOMAIN call[t].todo : call[t].todo[i] = s THEN call[t].done ELSE 0 IN
  /\ moved[t].read = ioac[t].rchar + (IF call[t].in = NULL THEN 0 ELSE left("rchar"))
  /\ moved[t].written = ioac[t].wchar + (IF call[t].out = NULL THEN 0 ELSE left("wchar"))

\* No write, append, splice or copy extends a file past RLIMIT_FSIZE, the
\* limit of the superblock or, without O_LARGEFILE, MAX_NON_LFS, although the
\* size may change between the checks of the call and the write; and no seek
\* leaves a position below 0.
GrowsWithinLimits ==
  [][/\ \A f \in File : f_pos'[f] >= 0
     /\ \A i \in Inode : i_size'[i] > i_size[i] =>
          /\ i_size'[i] <= MaxBytes
          /\ FsizeLimit # NULL => i_size'[i] <= FsizeLimit
          /\ (\A f \in File : Attr[f].inode = i => ~ Has(f, "LARGEFILE")) => i_size'[i] <= MaxNonLfs]_vars

\* copy_file_range never copies between overlapping ranges of one inode.
NoOverlappingCopy == \A t \in Task :
  LET fr == call[t] IN
  fr.op = "copy_file_range" /\ fr.stage = "xfer" /\ Attr[fr.in].inode = Attr[fr.out].inode =>
    fr.pos + fr.count <= fr.out_pos \/ fr.out_pos + fr.count <= fr.pos

\* A call that moved data reports how much, unless the caller's own position
\* variable could not be written.
ReportsMoved ==
  [][\A t \in Task : call[t].done > 0 /\ call'[t].stage = "idle" =>
       call'[t].ret = call[t].done \/ (call'[t].ret = EFAULT /\ call[t].user # {})]_vars

\* Every call returns: no path keeps the position lock of a file.
CallsReturn == \A t \in Task : call[t].stage # "idle" ~> call[t].stage = "idle"

==============================================================================
