---------------------------- MODULE AddressSpace ----------------------------
(***************************************************************************)
(* The address space of a process with several threads, as two families of *)
(* calls change it: prctl(PR_SET_MM) of kernel/sys.c, which moves the      *)
(* marks of the layout, replaces the auxiliary vector and the executable;  *)
(* and the call tamalloc_stats of project 2, which maps memory.  sys_brk,  *)
(* vm_mmap and the file checks are external.                               *)
(*                                                                         *)
(* Addresses are small numbers.  A call is split at its locks, so that     *)
(* calls of other threads come in between; the vector is copied word by    *)
(* word, since nothing orders two copies.                                  *)
(***************************************************************************)
EXTENDS Integers

CONSTANTS MmThread,      \* the threads of the process
          CapResource,   \* the ones with CAP_SYS_RESOURCE
          CapRestore,    \* the ones that are checkpoint_restore_ns_capable
          MmapMinAddr, TaskSize, MaxAddr,
          FirstLayout,   \* the layout that exec has left
          MapArg,        \* the layouts that PR_SET_MM_MAP is called with
          DataLimits,    \* values of RLIMIT_DATA
          VectorSize,    \* AT_VECTOR_SIZE
          ExeFile,       \* files that may become the executable
          PageSize, WordSize,
          MaxMmCalls,    \* [MmThread -> Nat]: bound on the calls of a thread
          NIL

Field == {"start_code", "end_code", "start_data", "end_data", "start_brk", "brk", "start_stack",
          "arg_start", "arg_end", "env_start", "env_end"}
OnStack == {"start_stack", "arg_start", "arg_end", "env_start", "env_end"}
Layout == [Field -> 0..MaxAddr]

InSpace(addr) == MmapMinAddr <= addr /\ addr < TaskSize

OrderedPairs(m) ==
  /\ m.start_code < m.end_code
  /\ m.start_data <= m.end_data
  /\ m.start_brk <= m.brk
  /\ m.arg_start <= m.arg_end
  /\ m.env_start <= m.env_end

ASSUME MmAssumption ==
  /\ NIL \notin MmThread /\ NIL \notin ExeFile /\ NIL \notin Layout
  /\ {MmapMinAddr, TaskSize, MaxAddr} \subseteq Nat /\ DataLimits \subseteq Nat
  /\ MapArg \subseteq Layout /\ FirstLayout \in Layout
  /\ (\A f \in Field : InSpace(FirstLayout[f])) /\ OrderedPairs(FirstLayout)
  /\ VectorSize \in Nat /\ VectorSize >= 2
  /\ PageSize \in Nat \ {0} /\ WordSize \in Nat \ {0} /\ WordSize % PageSize = 0
  /\ MaxMmCalls \in [MmThread -> Nat]

VARIABLES mm,             \* the layout
          saved_auxv,     \* the auxiliary vector: words that are 0 (AT_NULL) or 1
          exe_file,
          mmap_readers, mmap_writer,   \* mmap_lock
          arg_lock,       \* the thread that holds it
          rlimit_data,    \* the soft RLIMIT_DATA of the process
          mapped,         \* bytes that tamalloc_stats has mapped
          mmcall,         \* the call a thread is in
          mmcalls         \* calls a thread has made

mmLocks == <<mmap_readers, mmap_writer, arg_lock>>
mmState == <<mm, saved_auxv, exe_file, rlimit_data, mapped>>
mmVars == <<mmLocks, mmState, mmcall, mmcalls>>

\* map is the copy of the layout a call works on, len the words of the vector
\* it copies and word the next one; asked and got are the bytes of
\* tamalloc_stats; touched is history: the call has changed the address space.
NoMmCall == [at |-> "idle", opt |-> "MAP", addr |-> 0, map |-> NIL, exe |-> NIL, len |-> 0, word |-> 1,
             vma |-> TRUE, asked |-> 0, got |-> 0, ret |-> "ok", touched |-> FALSE]

MmInit == /\ mm = FirstLayout
          /\ saved_auxv = [i \in 1..VectorSize |-> 0]
          /\ exe_file = NIL
          /\ mmap_readers = {} /\ mmap_writer = NIL /\ arg_lock = NIL
          /\ rlimit_data \in DataLimits
          /\ mapped = 0
          /\ mmcall = [t \in MmThread |-> NoMmCall]
          /\ mmcalls = [t \in MmThread |-> 0]

\* A thread makes a call: it goes on as c.
Call(t, c) == /\ mmcall[t].at = "idle" /\ mmcalls[t] < MaxMmCalls[t]
              /\ mmcalls' = [mmcalls EXCEPT ![t] = @ + 1]
              /\ mmcall' = [mmcall EXCEPT ![t] = c]
Fail(err) == [NoMmCall EXCEPT !.ret = err]
Done(t, err, touched) == mmcall' = [mmcall EXCEPT ![t] = [NoMmCall EXCEPT !.ret = err, !.touched = touched]]
Goes(t, place) == mmcall' = [mmcall EXCEPT ![t].at = place] /\ UNCHANGED mmcalls

-----------------------------------------------------------------------------
\* check_data_rlimit() of the memory manager
DataFits(m) == (m.brk - m.start_brk) + (m.end_data - m.start_data) <= rlimit_data

\* validate_prctl_map_addr(): every refusal is EINVAL.
ValidMap(m) == (\A f \in Field : InSpace(m[f])) /\ OrderedPairs(m) /\ DataFits(m)

\* The vector that a call has put together: words of the caller, here 1, and
\* AT_NULL at the end.
AuxvWord(i) == IF i > VectorSize - 2 THEN 0 ELSE 1

-----------------------------------------------------------------------------
\* prctl_set_mm() to the locks, for an option that moves one mark, for
\* PR_SET_MM_EXE_FILE and for an option that does not exist.  misused stands
\* for an argument that must be 0.
PrctlSetMm(t, opt, addr, exe, misused) ==
  /\ Call(t, IF misused THEN Fail("EINVAL")
             ELSE IF t \notin CapResource THEN Fail("EPERM")
             ELSE IF opt = "EXE_FILE" THEN [NoMmCall EXCEPT !.at = "exe", !.opt = opt, !.exe = exe]
             ELSE IF ~ InSpace(addr) THEN Fail("EINVAL")
             ELSE [NoMmCall EXCEPT !.at = "mmap_lock", !.opt = opt, !.addr = addr])
  /\ UNCHANGED <<mmLocks, mmState>>

\* prctl_set_auxv() to the copy.
PrctlSetAuxv(t, len, fault) ==
  /\ Call(t, IF t \notin CapResource THEN Fail("EPERM")
             ELSE IF len > VectorSize THEN Fail("EINVAL")
             ELSE IF fault THEN Fail("EFAULT")
             ELSE [NoMmCall EXCEPT !.at = IF len = 0 THEN "idle" ELSE "auxv", !.opt = "AUXV", !.len = len])
  /\ UNCHANGED <<mmLocks, mmState>>

\* prctl_set_mm_map() to the locks.  argument is the fate of the checks that
\* look at the arguments only: the size of the map, of the vector, the copies.
\* PR_SET_MM_MAP_SIZE is a call that ends here.
PrctlSetMmMap(t, map, exe, vector, argument) ==
  /\ Call(t, IF argument # "ok" THEN Fail(argument)
             ELSE IF ~ ValidMap(map) THEN Fail("EINVAL")
             ELSE IF exe # NIL /\ t \notin CapRestore THEN Fail("EPERM")
             ELSE [NoMmCall EXCEPT !.at = IF exe # NIL THEN "exe" ELSE "mmap_lock",
                     !.map = map, !.exe = exe, !.len = IF vector THEN VectorSize ELSE 0])
  /\ UNCHANGED <<mmLocks, mmState>>

\* prctl_set_mm_exe_file(): the descriptor, the kind of file, the permission
\* and replace_mm_exe_file().
PrctlSetMmExeFile(t, err) ==
  LET c == mmcall[t] IN
  /\ c.at = "exe"
  /\ exe_file' = IF err = "ok" THEN c.exe ELSE exe_file
  /\ IF err = "ok" /\ c.opt = "MAP" THEN mmcall' = [mmcall EXCEPT ![t].at = "mmap_lock", ![t].touched = TRUE]
                                      ELSE Done(t, err, err = "ok")
  /\ UNCHANGED <<mmLocks, mm, saved_auxv, rlimit_data, mapped, mmcalls>>

\* Mutant: mmap_lock is not taken.
MmapReadLockNot(t, vma) ==
  /\ mmcall[t].at = "mmap_lock"
  /\ mmcall' = [mmcall EXCEPT ![t].at = "arg_lock", ![t].vma = vma]
  /\ UNCHANGED <<mmLocks, mmState, mmcalls>>

\* mmap_read_lock() and find_vma()
MmapReadLock(t, vma) ==
  /\ mmcall[t].at = "mmap_lock" /\ mmap_writer = NIL
  /\ mmap_readers' = mmap_readers \cup {t}
  /\ ~ vma => mmcall[t].opt \in OnStack
  /\ mmcall' = [mmcall EXCEPT ![t].at = "arg_lock", ![t].vma = vma]
  /\ UNCHANGED <<mmap_writer, arg_lock, mmState, mmcalls>>

\* The copy of the layout that an option has moved one mark in.
Moved(c) == [mm EXCEPT ![c.opt] = c.addr]

\* Mutant: the map is checked again under the locks.
VerdictAgain(c) == IF c.opt = "MAP" THEN IF ValidMap(c.map) THEN "ok" ELSE "EINVAL"
                   ELSE IF c.opt \notin Field \/ ~ ValidMap(Moved(c)) THEN "EINVAL"
                   ELSE IF c.opt \in OnStack /\ ~ c.vma THEN "EFAULT"
                   ELSE "ok"

\* The verdict on a call under arg_lock.
Verdict(c) == IF c.opt = "MAP" THEN "ok"
              ELSE IF c.opt \notin Field \/ ~ ValidMap(Moved(c)) THEN "EINVAL"
              ELSE IF c.opt \in OnStack /\ ~ c.vma THEN "EFAULT"
              ELSE "ok"

\* What is known when arg_lock is held and the layout has been read.
Checked(c) == [c EXCEPT !.map = IF c.opt \in Field THEN Moved(c) ELSE @, !.ret = Verdict(c),
                        !.at = IF Verdict(c) = "ok" THEN "store" ELSE "unlock"]

\* Mutant: arg_lock is not taken.
ArgLockNot(t) ==
  /\ mmcall[t].at = "arg_lock"
  /\ mmcall' = [mmcall EXCEPT ![t] = Checked(mmcall[t])]
  /\ UNCHANGED <<mmLocks, mmState, mmcalls>>

\* spin_lock(&mm->arg_lock)
ArgLock(t) ==
  /\ mmcall[t].at = "arg_lock" /\ arg_lock = NIL
  /\ arg_lock' = t
  /\ mmcall' = [mmcall EXCEPT ![t] = Checked(mmcall[t])]
  /\ UNCHANGED <<mmap_readers, mmap_writer, mmState, mmcalls>>

\* All eleven marks are written back.
StoreLayout(t) ==
  /\ mmcall[t].at = "store"
  /\ mm' = mmcall[t].map
  /\ mmcall' = [mmcall EXCEPT ![t].at = "unlock", ![t].touched = TRUE]
  /\ UNCHANGED <<mmLocks, saved_auxv, exe_file, rlimit_data, mapped, mmcalls>>

\* spin_unlock(&mm->arg_lock)
ArgUnlock(t) ==
  LET c == mmcall[t] IN
  /\ c.at = "unlock"
  /\ arg_lock' = NIL
  /\ Goes(t, IF c.opt = "MAP" /\ c.len > 0 THEN "auxv" ELSE "release")
  /\ UNCHANGED <<mmap_readers, mmap_writer, mmState>>

\* One word of the memcpy to saved_auxv.
CopyAuxv(t) ==
  LET c == mmcall[t] IN
  /\ c.at = "auxv"
  /\ saved_auxv' = [saved_auxv EXCEPT ![c.word] = AuxvWord(c.word)]
  /\ IF c.word = c.len /\ c.opt = "AUXV" THEN Done(t, "ok", TRUE)
     ELSE mmcall' = [mmcall EXCEPT ![t].word = c.word + 1, ![t].touched = TRUE,
                                   ![t].at = IF c.word < c.len THEN "auxv" ELSE "release"]
  /\ UNCHANGED <<mmLocks, mm, exe_file, rlimit_data, mapped, mmcalls>>

\* mmap_read_unlock(): the end of the call.
MmapReadUnlock(t) ==
  /\ mmcall[t].at = "release"
  /\ mmap_readers' = mmap_readers \ {t}
  /\ Done(t, mmcall[t].ret, mmcall[t].touched)
  /\ UNCHANGED <<mmap_writer, arg_lock, mmState, mmcalls>>

-----------------------------------------------------------------------------
\* sys_brk(): under mmap_lock for writing it compares the new end of the heap
\* with its start and with the limit, and sets it a few steps later.
BrkLock(t, brk) ==
  /\ mmap_readers = {} /\ mmap_writer = NIL
  /\ mmap_writer' = t
  /\ Call(t, IF brk < TaskSize /\ mm.start_brk <= brk /\ DataFits([mm EXCEPT !.brk = brk])
               THEN [NoMmCall EXCEPT !.at = "brk", !.opt = "SYS_BRK", !.addr = brk]
               ELSE [NoMmCall EXCEPT !.at = "brk_unlock", !.opt = "SYS_BRK", !.ret = "ENOMEM"])
  /\ UNCHANGED <<mmap_readers, arg_lock, mmState>>

BrkStore(t) ==
  /\ mmcall[t].at = "brk"
  /\ mm' = [mm EXCEPT !.brk = mmcall[t].addr]
  /\ Goes(t, "brk_unlock")
  /\ UNCHANGED <<mmLocks, saved_auxv, exe_file, rlimit_data, mapped>>

BrkUnlock(t) ==
  /\ mmcall[t].at = "brk_unlock"
  /\ mmap_writer' = NIL
  /\ Done(t, mmcall[t].ret, FALSE)
  /\ UNCHANGED <<mmap_readers, arg_lock, mmState, mmcalls>>

\* The limit as setrlimit leaves it (module ResourceLimits).
SetDataLimit(v) == /\ v # rlimit_data /\ rlimit_data' = v
                   /\ UNCHANGED <<mmLocks, mm, saved_auxv, exe_file, mapped, mmcall, mmcalls>>

-----------------------------------------------------------------------------
\* Mutant: the size is rounded down.
PageAlignDown(size) == (size \div PageSize) * PageSize

\* PAGE_ALIGN() of an unsigned long
PageAlign(size) == (((size + PageSize - 1) % WordSize) \div PageSize) * PageSize

\* tamalloc_stats() to vm_mmap().
TamallocStats(t, size) ==
  /\ Call(t, IF size = 0 THEN Fail("EINVAL")
             ELSE IF PageAlign(size) = 0 THEN Fail("ENOMEM")
             ELSE [NoMmCall EXCEPT !.at = "vm_mmap", !.opt = "TAMALLOC", !.asked = size])
  /\ UNCHANGED <<mmLocks, mmState>>

\* vm_mmap() maps that much or fails; it holds mmap_lock for writing.
VmMmap(t, err) ==
  LET len == PageAlign(mmcall[t].asked) IN
  /\ mmcall[t].at = "vm_mmap" /\ mmap_readers = {} /\ mmap_writer = NIL
  /\ (len = 0 \/ mapped + len >= WordSize) => err
  /\ mapped' = IF err THEN mapped ELSE mapped + len
  /\ mmcall' = [mmcall EXCEPT ![t] = IF err THEN Fail("ENOMEM")
                                     ELSE [NoMmCall EXCEPT !.asked = mmcall[t].asked, !.got = len]]
  /\ UNCHANGED <<mmLocks, mm, saved_auxv, exe_file, rlimit_data, mmcalls>>

-----------------------------------------------------------------------------
MmCall(t) ==
  \/ \E opt \in Field \cup {"BAD"}, addr \in 0..MaxAddr, misused \in BOOLEAN : PrctlSetMm(t, opt, addr, NIL, misused)
  \/ \E exe \in ExeFile : PrctlSetMm(t, "EXE_FILE", 0, exe, FALSE)
  \/ \E len \in 0..VectorSize + 1, fault \in BOOLEAN : PrctlSetAuxv(t, len, fault)
  \/ \E map \in MapArg, exe \in ExeFile \cup {NIL}, vector \in BOOLEAN, argument \in {"ok", "EINVAL", "EFAULT"} :
       PrctlSetMmMap(t, map, exe, vector, argument)
  \/ \E brk \in 0..MaxAddr : BrkLock(t, brk)
  \/ \E size \in 0..WordSize - 1 : TamallocStats(t, size)

MmStep(t) ==
  \/ \E err \in {"ok", "EBADF", "EACCES"} : PrctlSetMmExeFile(t, err)
  \/ \E vma \in BOOLEAN : MmapReadLock(t, vma)
  \/ ArgLock(t)
  \/ StoreLayout(t)
  \/ ArgUnlock(t)
  \/ CopyAuxv(t)
  \/ MmapReadUnlock(t)
  \/ BrkStore(t)
  \/ BrkUnlock(t)
  \/ \E err \in BOOLEAN : VmMmap(t, err)

MmNext == \/ \E t \in MmThread : MmCall(t) \/ MmStep(t)
          \/ \E v \in DataLimits : SetDataLimit(v)

MmSpec == MmInit /\ [][MmNext]_mmVars

-----------------------------------------------------------------------------
\* Whatever calls of several threads do to the layout, its marks stay in the
\* address space, every start before its end, and the auxiliary vector ends
\* with AT_NULL: what prctl_set_mm() validates is still so when it is written.
LayoutValid == /\ \A f \in Field : InSpace(mm[f])
               /\ OrderedPairs(mm)
               /\ \A i \in {VectorSize - 1, VectorSize} : saved_auxv[i] = 0

\* prctl_set_mm() writes back all eleven marks, but an option changes only its
\* own: no mark that another thread has moved meanwhile falls back.
NoLostMark ==
  [][\A t \in MmThread : mmcall[t].at = "store" /\ mmcall'[t].at # "store" /\ mmcall[t].opt # "MAP" =>
       \A f \in Field \ {mmcall[t].opt} : mm'[f] = mm[f]]_mmVars

\* A prctl call that fails has changed nothing, neither the executable nor the
\* layout nor the vector: PR_SET_MM_MAP replaces the executable when nothing
\* behind it can fail any more.
AllOrNothing == \A t \in MmThread : mmcall[t].at = "idle" /\ mmcall[t].ret # "ok" => ~ mmcall[t].touched

\* Memory that tamalloc_stats grants has room for what was asked, in whole
\* pages, for every size of the word.
RoomForCaller ==
  \A t \in MmThread : mmcall[t].got > 0 => mmcall[t].got >= mmcall[t].asked /\ mmcall[t].got % PageSize = 0
=============================================================================
