---------------------------- MODULE FileIOLemmas ----------------------------
(***************************************************************************)
(* The calls on files, step by step, for any tasks, files and limits: the  *)
(* invariant of a call between its steps, and what its first steps, up to  *)
(* the transfer of bytes, do to it.  FileIOProofs draws the conclusions.   *)
(***************************************************************************)
EXTENDS FileIO, TLAPS

\* The time that a leaf may take.
USE SMTT(20), ZenonT(20)

Writers == {"write", "writev", "pwrite", "pwritev"}
RwOps == Readers \cup Writers \cup Unlocked
Chars == {"rchar", "wchar"}
Stores == {"pos_in", "pos_out"}
Steps == Chars \cup Stores \cup {"syscr", "syscw", "pos"}

\* What the order of the steps after a transfer has to be.
MustPrecede(a, b) ==
  \/ a = "rchar" /\ b = "syscr"
  \/ a = "wchar" /\ b = "syscw"
  \/ a \in Chars /\ b \in Stores

Belongs(s, op) ==
  /\ s \in {"rchar", "syscr"} => op \in Readers \cup Unlocked
  /\ s \in {"wchar", "syscw"} => op \in Writers \cup Unlocked
  /\ s = "pos" => op \in Positional
  /\ s \in Stores => op \in Unlocked

Pend(q) == {q[i] : i \in DOMAIN q}

TodoOK(q, op) ==
  /\ q \in Seq(Steps)
  /\ \A i, j \in DOMAIN q : q[i] = q[j] => i = j
  /\ \A i, j \in DOMAIN q : MustPrecede(q[i], q[j]) => i < j
  /\ "rchar" \in Pend(q) => "syscr" \in Pend(q)
  /\ "wchar" \in Pend(q) => "syscw" \in Pend(q)
  /\ \A s \in Pend(q) : Belongs(s, op)

\* A call makes at most eight checks.
LEMMA Least == ASSUME NEW S \in SUBSET (1..8), S # {} PROVE \E n \in S : \A m \in S : n <= m
<1> SUFFICES ASSUME \A n \in S : \E m \in S : m < n PROVE FALSE
  OBVIOUS
<1>1. 1 \notin S /\ 2 \notin S
  OBVIOUS
<1>2. 3 \notin S /\ 4 \notin S
  BY <1>1
<1>3. 5 \notin S /\ 6 \notin S
  BY <1>1, <1>2
<1>4. 7 \notin S /\ 8 \notin S
  BY <1>1, <1>2, <1>3
<1>5. PICK x : x \in S
  OBVIOUS
<1>6. x = 1 \/ x = 2 \/ x = 3 \/ x = 4 \/ x = 5 \/ x = 6 \/ x = 7 \/ x = 8
  BY <1>5
<1> QED BY <1>1, <1>2, <1>3, <1>4, <1>5, <1>6

LEMMA FirstErrorIs ==
  ASSUME NEW n \in 0..8, NEW checks, DOMAIN checks = 1..n, \E i \in 1..n : checks[i][1]
  PROVE  \E i \in 1..n : checks[i][1] /\ FirstError(checks) = checks[i][2]
<1> DEFINE bad == {i \in 1..n : checks[i][1]}
<1>1. bad \in SUBSET (1..8) /\ bad # {}
  OBVIOUS
<1>2. \E i \in bad : \A j \in bad : i <= j
  <2> HIDE DEF bad
  <2> QED BY <1>1, Least
<1> DEFINE i == CHOOSE i \in bad : \A j \in bad : i <= j
<1>3. i \in bad
  BY <1>2
<1>4. FirstError(checks) = checks[i][2]
  BY <1>1 DEF FirstError
<1> QED BY Zenon, <1>3, <1>4

LEMMA AfterOK == \A op \in RwOps : TodoOK(After(op), op)
<1>1. TodoOK(After("read"), "read")
  BY DEF TodoOK, After, Steps, Chars, Stores, MustPrecede, Belongs, Pend, Readers,
     Writers, Positional, Unlocked
<1>2. TodoOK(After("write"), "write")
  BY DEF TodoOK, After, Steps, Chars, Stores, MustPrecede, Belongs, Pend, Readers,
     Writers, Positional, Unlocked
<1>3. TodoOK(After("readv"), "readv")
  BY DEF TodoOK, After, Steps, Chars, Stores, MustPrecede, Belongs, Pend, Readers,
     Writers, Positional, Unlocked
<1>4. TodoOK(After("writev"), "writev")
  BY DEF TodoOK, After, Steps, Chars, Stores, MustPrecede, Belongs, Pend, Readers,
     Writers, Positional, Unlocked
<1>5. TodoOK(After("pread"), "pread")
  BY DEF TodoOK, After, Steps, Chars, Stores, MustPrecede, Belongs, Pend, Readers,
     Writers, Positional, Unlocked
<1>6. TodoOK(After("pwrite"), "pwrite")
  BY DEF TodoOK, After, Steps, Chars, Stores, MustPrecede, Belongs, Pend, Readers,
     Writers, Positional, Unlocked
<1>7. TodoOK(After("preadv"), "preadv")
  BY DEF TodoOK, After, Steps, Chars, Stores, MustPrecede, Belongs, Pend, Readers,
     Writers, Positional, Unlocked
<1>8. TodoOK(After("pwritev"), "pwritev")
  BY DEF TodoOK, After, Steps, Chars, Stores, MustPrecede, Belongs, Pend, Readers,
     Writers, Positional, Unlocked
<1>9. TodoOK(After("sendfile"), "sendfile")
  BY DEF TodoOK, After, Steps, Chars, Stores, MustPrecede, Belongs, Pend, Readers,
     Writers, Positional, Unlocked
<1>10. TodoOK(After("copy_file_range"), "copy_file_range")
  BY DEF TodoOK, After, Steps, Chars, Stores, MustPrecede, Belongs, Pend, Readers,
     Writers, Positional, Unlocked
<1> QED BY Zenon, <1>1, <1>2, <1>3, <1>4, <1>5, <1>6, <1>7, <1>8, <1>9, <1>10 DEF RwOps, Readers, Writers, Unlocked

LEMMA PopOK ==
  ASSUME NEW q, NEW op, TodoOK(q, op), q # <<>>
  PROVE  /\ TodoOK(Tail(q), op) /\ Head(q) \in Pend(q)
         /\ Pend(Tail(q)) = Pend(q) \ {Head(q)}
         /\ Len(Tail(q)) < Len(q)
         /\ Head(q) \in Stores => Pend(Tail(q)) \cap Chars = {}
         /\ Head(q) = "syscr" => "rchar" \notin Pend(q)
         /\ Head(q) = "syscw" => "wchar" \notin Pend(q)
<1> DEFINE n == Len(q)
           r == Tail(q)
<1>1. /\ q \in Seq(Steps) /\ n \in Nat /\ n > 0 /\ DOMAIN q = 1..n /\ Head(q) = q[1] /\ 1 \in 1..n
      /\ r \in Seq(Steps) /\ Len(r) = n - 1 /\ DOMAIN r = 1..(n - 1) /\ \A i \in 1..(n - 1) : r[i] = q[i + 1]
  BY DEF TodoOK
<1> HIDE DEF n, r
<1>2. \A i, j \in 1..n : (q[i] = q[j] => i = j) /\ (MustPrecede(q[i], q[j]) => i < j)
  BY Zenon, <1>1 DEF TodoOK
<1>3. \A i \in 1..(n - 1) : i + 1 \in 1..n /\ i + 1 # 1
  BY <1>1
<1>4. \A i \in 1..n : i # 1 => i - 1 \in 1..(n - 1) /\ (i - 1) + 1 = i
  BY <1>1
<1>5. Pend(r) = Pend(q) \ {q[1]}
  <2>1. ASSUME NEW i \in 1..(n - 1) PROVE r[i] \in Pend(q) /\ r[i] # q[1]
    BY <1>1, <1>2, <1>3 DEF Pend
  <2>2. ASSUME NEW i \in 1..n, q[i] # q[1] PROVE q[i] \in Pend(r)
    <3>1. i # 1
      BY <2>2
    <3>2. PICK j \in 1..(n - 1) : j + 1 = i
      BY <1>4, <3>1
    <3>3. r[j] = q[i] /\ j \in DOMAIN r
      BY <1>1, <3>2
    <3> QED BY Zenon, <3>3 DEF Pend
  <2>3. \A x \in Pend(r) : x \in Pend(q) \ {q[1]}
    <3>1. \A x \in Pend(r) : \E i \in 1..(n - 1) : x = r[i]
      BY Zenon, <1>1 DEF Pend
    <3> QED BY Zenon, <2>1, <3>1
  <2>4. \A x \in Pend(q) \ {q[1]} : x \in Pend(r)
    <3>1. \A x \in Pend(q) : \E i \in 1..n : x = q[i]
      BY Zenon, <1>1 DEF Pend
    <3> QED BY Zenon, <2>2, <3>1
  <2> QED BY Zenon, <2>3, <2>4
<1>6. \A s \in Pend(q) : ~ MustPrecede(s, q[1])
  <2>1. \A i \in 1..n : ~ (i < 1)
    BY <1>1
  <2>2. \A i \in 1..n : ~ MustPrecede(q[i], q[1])
    BY Zenon, <1>1, <1>2, <2>1
  <2>3. \A s \in Pend(q) : \E i \in 1..n : s = q[i]
    BY Zenon, <1>1 DEF Pend
  <2> QED BY <2>2, <2>3
<1>7. TodoOK(r, op)
  <2>1. \A i, j \in DOMAIN r : (r[i] = r[j] => i = j) /\ (MustPrecede(r[i], r[j]) => i < j)
    BY <1>1, <1>2, <1>3
  <2>2. "rchar" \in Pend(r) => "syscr" \in Pend(r)
    BY Zenon, <1>5, <1>6 DEF TodoOK, MustPrecede
  <2>3. "wchar" \in Pend(r) => "syscw" \in Pend(r)
    BY Zenon, <1>5, <1>6 DEF TodoOK, MustPrecede
  <2> QED BY Zenon, <1>1, <1>5, <2>1, <2>2, <2>3 DEF TodoOK
<1>8. q[1] \in Pend(q)
  BY Zenon, <1>1 DEF Pend
<1>9. q[1] \in Stores => Pend(r) \cap Chars = {}
  BY Zenon, <1>5, <1>6 DEF MustPrecede
<1>10. (q[1] = "syscr" => "rchar" \notin Pend(q)) /\ (q[1] = "syscw" => "wchar" \notin Pend(q))
  BY Zenon, <1>6 DEF MustPrecede
<1>11. Len(r) < n
  BY <1>1
<1> QED BY Zenon, <1>1, <1>5, <1>7, <1>8, <1>9, <1>10, <1>11 DEF r, n

-----------------------------------------------------------------------------
Stages == {"idle", "lock", "xfer", "finish"}
OpNames == RwOps \cup {"none"}

Frame == [op : OpNames, stage : Stages, in : Fd, out : Fd, count : Int, pos : Int,
          out_pos : Int, max : Int \cup {NULL}, user : SUBSET {"in", "out"},
          todo : Seq(Steps), done : Nat, ret : Int]

\* The files of a call.
Sides(fr) ==
  /\ fr.op \in Readers => fr.in \in File /\ fr.out = NULL
  /\ fr.op \in Writers => fr.out \in File /\ fr.in = NULL
  /\ fr.op \in Unlocked => fr.in \in File /\ fr.out \in File

Apart(fr) == Attr[fr.in].inode = Attr[fr.out].inode =>
  fr.pos + fr.count <= fr.out_pos \/ fr.out_pos + fr.count <= fr.pos

IdleOK(fr) == fr.todo = <<>> /\ fr.done = 0 /\ fr.in = NULL /\ fr.out = NULL /\ fr.op = "none"

LockOK(fr) == fr.todo = <<>> /\ fr.done = 0 /\ fr.op \in Positional /\ Sides(fr)
              /\ fr.pos = 0 /\ fr.out_pos = 0

XferOK(fr) ==
  /\ fr.todo = After(fr.op) /\ fr.done = 0 /\ fr.op \in RwOps /\ Sides(fr)
  /\ fr.count <= MaxRw /\ fr.pos >= 0 /\ fr.out_pos >= 0
  /\ fr.op = "sendfile" => fr.max \in Int /\ fr.pos + fr.count <= fr.max
  /\ fr.op = "copy_file_range" => Apart(fr)

FinishOK(fr) ==
  /\ fr.op \in RwOps /\ TodoOK(fr.todo, fr.op) /\ fr.done <= MaxRw
  /\ Pend(fr.todo) \cap Chars # {} => MaxOf(0, fr.ret) = fr.done
  /\ \/ fr.done = 0
     \/ fr.ret = fr.done
     \/ fr.ret = EFAULT /\ fr.user # {}
  /\ fr.done > 0 \/ Pend(fr.todo) \cap (Stores \cup {"pos"}) # {} =>
       Sides(fr) /\ fr.pos >= 0 /\ fr.out_pos >= 0
  /\ fr.op = "sendfile" /\ fr.done > 0 => fr.max \in Int /\ fr.pos <= fr.max

CallOK(fr) ==
  /\ fr \in Frame
  /\ fr.stage = "idle" => IdleOK(fr)
  /\ fr.stage = "lock" => LockOK(fr)
  /\ fr.stage = "xfer" => XferOK(fr)
  /\ fr.stage = "finish" => FinishOK(fr)

Account == [rchar : Nat, wchar : Nat, syscr : Nat, syscw : Nat]

TypeOK ==
  /\ f_pos \in [File -> Nat] /\ i_size \in [Inode -> Nat]
  /\ pos_lock \in [File -> Task \cup {NULL}]
  /\ ioac \in [Task -> Account] /\ moved \in [Task -> [read : Nat, written : Nat]]
  /\ calls \in [Task -> Nat]
  /\ call \in [Task -> Frame]

\* The call in a frame has the position of its file.
Holding(fr) ==
  /\ fr.op \in Positional
  /\ fr.stage = "xfer" \/ (fr.stage = "finish" /\ "pos" \in Pend(fr.todo))

LockInv == \A t \in Task : LET f == TheFile(call[t]) IN
  Holding(call[t]) /\ Has(f, "ATOMIC_POS") => pos_lock[f] = t

CallInv == TypeOK /\ \A t \in Task : CallOK(call[t])

\* A call whose bytes are counted and which is not.
Extra(fr, char, sysc) == IF sysc \in Pend(fr.todo) /\ char \notin Pend(fr.todo) THEN 1 ELSE 0

RateInv == \A t \in Task :
  /\ ioac[t].rchar <= MaxRw * (ioac[t].syscr + Extra(call[t], "rchar", "syscr"))
  /\ ioac[t].wchar <= MaxRw * (ioac[t].syscw + Extra(call[t], "wchar", "syscw"))

-----------------------------------------------------------------------------
LEMMA FirstErrorProp ==
  ASSUME NEW n \in 0..8, NEW checks, DOMAIN checks = 1..n,
         \A i \in 1..n : checks[i][1] => checks[i][2] \in Int /\ checks[i][2] < 0
  PROVE  /\ FirstError(checks) \in Int /\ FirstError(checks) <= 0
         /\ FirstError(checks) = 0 => \A i \in 1..n : ~ checks[i][1]
<1>1. CASE \E i \in 1..n : checks[i][1]
  <2>1. PICK i \in 1..n : checks[i][1] /\ FirstError(checks) = checks[i][2]
    BY Zenon, <1>1, FirstErrorIs
  <2> QED BY <2>1
<1>2. CASE ~ \E i \in 1..n : checks[i][1]
  BY <1>2 DEF FirstError
<1> QED BY <1>1, <1>2

LEMMA FewChecks == 3 \in 0..8 /\ 4 \in 0..8 /\ 5 \in 0..8 /\ 7 \in 0..8 /\ 8 \in 0..8
  OBVIOUS

LEMMA Errors ==
  \A e \in {EPERM, EIO, ENXIO, EBADF, EACCES, EFAULT, EXDEV, EISDIR, EINVAL, ETXTBSY, EFBIG, ESPIPE, EOVERFLOW} :
    e \in Int /\ e < 0
  BY DEF EPERM, EIO, ENXIO, EBADF, EACCES, EFAULT, EXDEV, EISDIR, EINVAL, ETXTBSY, EFBIG, ESPIPE, EOVERFLOW

LEMMA VfsCheckType ==
  ASSUME NEW op, NEW f, NEW pos, NEW n, NEW env
  PROVE  VfsCheck(op, f, pos, n, env) \in Int /\ VfsCheck(op, f, pos, n, env) <= 0
<1> DEFINE c == << <<~ Has(f, Mode(op).open), EBADF>>,
                <<~ Has(f, Mode(op).can), EINVAL>>,
                <<env = "fault", EFAULT>>,
                <<BadArea(pos, n), EINVAL>>,
                <<env = "denied", EACCES>> >>
<1>1. DOMAIN c = 1..5 /\ \A i \in 1..5 : c[i][2] \in {EBADF, EINVAL, EFAULT, EACCES}
  OBVIOUS
<1>2. VfsCheck(op, f, pos, n, env) = FirstError(c)
  BY DEF VfsCheck
<1> HIDE DEF c
<1> QED BY Zenon, <1>1, <1>2, FewChecks, FirstErrorProp, Errors

LEMMA IterCheckType ==
  ASSUME NEW op, NEW f, NEW pos, NEW n, NEW env
  PROVE  IterCheck(op, f, pos, n, env) \in Int /\ IterCheck(op, f, pos, n, env) <= 0
<1> DEFINE c == << <<~ Has(f, Mode(op).open), EBADF>>,
                <<~ Has(f, Mode(op).can), EINVAL>>,
                <<n > 0 /\ BadArea(pos, n), EINVAL>>,
                <<n > 0 /\ env = "denied", EACCES>> >>
<1>1. DOMAIN c = 1..4 /\ \A i \in 1..4 : c[i][2] \in {EBADF, EINVAL, EACCES}
  OBVIOUS
<1>2. IterCheck(op, f, pos, n, env) = FirstError(c)
  BY DEF IterCheck
<1> HIDE DEF c
<1> QED BY Zenon, <1>1, <1>2, FewChecks, FirstErrorProp, Errors

LEMMA RwCheckType ==
  ASSUME NEW op, NEW f, NEW pos, NEW n, NEW env
  PROVE  RwCheck(op, f, pos, n, env) \in Int /\ RwCheck(op, f, pos, n, env) <= 0
  BY VfsCheckType, IterCheckType, Errors DEF RwCheck, VecCheck

LEMMA PrwErrorType ==
  ASSUME NEW op, NEW f, NEW n, NEW pos, NEW env
  PROVE  PrwError(op, f, n, pos, env) \in Int /\ PrwError(op, f, n, pos, env) <= 0
  BY RwCheckType, Errors DEF PrwError

Stopped(fr, r, q) == [fr EXCEPT !.stage = "finish", !.ret = r, !.todo = q]
Going(fr) == [fr EXCEPT !.stage = "xfer", !.count = MinOf(@, MaxRw), !.todo = After(fr.op)]

LEMMA StoppedFields ==
  ASSUME NEW fr \in Frame, NEW r \in Int, NEW q \in Seq(Steps), NEW g, g = Stopped(fr, r, q)
  PROVE  /\ g \in Frame /\ g.stage = "finish" /\ g.ret = r /\ g.todo = q
         /\ g.op = fr.op /\ g.in = fr.in /\ g.out = fr.out /\ g.pos = fr.pos /\ g.out_pos = fr.out_pos
         /\ g.count = fr.count /\ g.max = fr.max /\ g.user = fr.user /\ g.done = fr.done
  BY Zenon DEF Stopped, Frame, Stages

LEMMA GoingFields ==
  ASSUME NEW fr \in Frame, fr.op \in RwOps, NEW g, g = Going(fr)
  PROVE  /\ g \in Frame /\ g.stage = "xfer" /\ g.ret = fr.ret /\ g.todo = After(fr.op)
         /\ g.op = fr.op /\ g.in = fr.in /\ g.out = fr.out /\ g.pos = fr.pos /\ g.out_pos = fr.out_pos
         /\ g.count <= MaxRw /\ g.count <= fr.count /\ g.max = fr.max /\ g.user = fr.user /\ g.done = fr.done
<1>1. After(fr.op) \in Seq(Steps) /\ fr.count \in Int /\ MaxRw \in Int
  BY AfterOK, FileAssumption DEF TodoOK, Frame
<1>2. MinOf(fr.count, MaxRw) \in Int /\ MinOf(fr.count, MaxRw) <= MaxRw /\ MinOf(fr.count, MaxRw) <= fr.count
  BY <1>1 DEF MinOf
<1>3. g = [fr EXCEPT !.stage = "xfer", !.count = MinOf(fr.count, MaxRw), !.todo = After(fr.op)]
  BY DEF Going
<1> QED BY Zenon, <1>1, <1>2, <1>3 DEF Frame, Stages

LEMMA StoppedOK ==
  ASSUME NEW fr \in Frame, fr.op \in RwOps, fr.done = 0, NEW r \in Int, r <= 0, NEW q, TodoOK(q, fr.op),
         Pend(q) \cap (Stores \cup {"pos"}) # {} => Sides(fr) /\ fr.pos >= 0 /\ fr.out_pos >= 0
  PROVE  CallOK(Stopped(fr, r, q))
<1>1. PICK g : g = Stopped(fr, r, q)
  OBVIOUS
<1>2. q \in Seq(Steps)
  BY DEF TodoOK
<1>3. /\ g \in Frame /\ g.stage = "finish" /\ g.ret = r /\ g.todo = q /\ g.done = 0
      /\ g.op = fr.op /\ g.in = fr.in /\ g.out = fr.out /\ g.pos = fr.pos /\ g.out_pos = fr.out_pos
  BY <1>1, <1>2, StoppedFields
<1>4. Sides(fr) => Sides(g)
  BY Zenon, <1>3 DEF Sides
<1>5. MaxOf(0, r) = 0 /\ 0 <= MaxRw /\ ~ (0 > 0)
  BY FileAssumption DEF MaxOf
<1>6. FinishOK(g)
  BY Zenon, <1>3, <1>4, <1>5 DEF FinishOK
<1> QED BY Zenon, <1>1, <1>3, <1>6 DEF CallOK

LEMMA GoingOK ==
  ASSUME NEW fr \in Frame, fr.op \in RwOps, fr.done = 0, Sides(fr), fr.pos >= 0, fr.out_pos >= 0,
         fr.op = "sendfile" => fr.max \in Int /\ fr.pos + fr.count <= fr.max,
         fr.op = "copy_file_range" => Apart(fr)
  PROVE  CallOK(Going(fr))
<1>1. PICK g : g = Going(fr)
  OBVIOUS
<1>2. /\ g \in Frame /\ g.stage = "xfer" /\ g.todo = After(fr.op) /\ g.max = fr.max
      /\ g.op = fr.op /\ g.in = fr.in /\ g.out = fr.out /\ g.pos = fr.pos /\ g.out_pos = fr.out_pos
      /\ g.count <= MaxRw /\ g.count <= fr.count /\ g.done = 0
  BY Zenon, <1>1, GoingFields
<1>3. /\ fr.pos \in Int /\ fr.out_pos \in Int /\ fr.count \in Int /\ g.count \in Int
  BY Zenon, <1>2 DEF Frame
<1>4. Sides(g)
  BY Zenon, <1>2 DEF Sides
<1>5. fr.op = "sendfile" => g.pos + g.count <= g.max
  BY <1>2, <1>3
<1>6. Apart(fr) => Apart(g)
  BY <1>2, <1>3 DEF Apart
<1>7. XferOK(g)
  BY Zenon, <1>2, <1>4, <1>5, <1>6 DEF XferOK
<1> QED BY Zenon, <1>1, <1>2, <1>7 DEF CallOK

-----------------------------------------------------------------------------
LEMMA OneCall ==
  ASSUME CallInv, NEW t \in Task, NEW g, CallOK(g), call' = [call EXCEPT ![t] = g]
  PROVE  /\ call' \in [Task -> Frame] /\ \A u \in Task : CallOK(call[u])'
         /\ call'[t] = g /\ \A u \in Task : u # t => call'[u] = call[u]
<1>1. call \in [Task -> Frame] /\ g \in Frame /\ \A u \in Task : CallOK(call[u])
  BY Zenon DEF CallInv, TypeOK, CallOK
<1>2. /\ call' \in [Task -> Frame] /\ call'[t] = g
      /\ \A u \in Task : u # t => call'[u] = call[u]
  BY <1>1
<1>3. \A u \in Task : CallOK(call'[u])
  BY Zenon, <1>1, <1>2
<1> QED BY <1>2, <1>3

LEMMA NoCallFields ==
  /\ NoCall \in Frame /\ NoCall.stage = "idle" /\ NoCall.op = "none" /\ NoCall.in = NULL /\ NoCall.out = NULL
  /\ NoCall.done = 0 /\ NoCall.todo = <<>> /\ NoCall.pos = 0 /\ NoCall.out_pos = 0 /\ NoCall.count = 0
  /\ NoCall.user = {} /\ NoCall.max = 0 /\ NoCall.ret = 0
<1>1. "none" \in OpNames /\ "idle" \in Stages /\ NULL \in Fd /\ <<>> \in Seq(Steps) /\ {} \in SUBSET {"in", "out"}
  BY DEF OpNames, Stages, Fd
<1> QED BY <1>1 DEF NoCall, Frame

\* The frame of a call that is refused before its files are known.
LEMMA NamedFields ==
  ASSUME NEW op \in OpNames, NEW g, g = [NoCall EXCEPT !.op = op]
  PROVE  /\ g \in Frame /\ g.op = op /\ g.done = 0 /\ g.todo = <<>> /\ g.user = {}
  BY NoCallFields DEF Frame

\* A call that is not being made.
LEMMA IdleCall == \A r \in Int : CallOK([NoCall EXCEPT !.ret = r])
<1> TAKE r \in Int
<1> DEFINE g == [NoCall EXCEPT !.ret = r]
<1>1. /\ g \in Frame /\ g.stage = "idle" /\ g.op = "none" /\ g.in = NULL /\ g.out = NULL /\ g.done = 0
      /\ g.todo = <<>>
  BY NoCallFields DEF Frame
<1> HIDE DEF g
<1>2. CallOK(g)
  BY Zenon, <1>1 DEF CallOK, IdleOK
<1> QED BY <1>2 DEF g

\* A call on no file, or with a bad argument, has nothing to do with a file.
LEMMA RefusedCall ==
  ASSUME NEW op \in RwOps, NEW r \in Int, r <= 0, NEW q, TodoOK(q, op),
         Pend(q) \cap (Stores \cup {"pos"}) = {}, NEW fr \in Frame, fr.op = op, fr.done = 0
  PROVE  CallOK(Stopped(fr, r, q))
  BY Zenon, StoppedOK

LEMMA EmptyTodo == \A op : TodoOK(<<>>, op) /\ Pend(<<>>) = {}
  BY DEF TodoOK, Pend

\* The frame of a call on one file.
LEMMA OneFileFields ==
  ASSUME NEW op \in RwOps \ Unlocked, NEW f \in Fd, NEW n \in Int, NEW g, g = OneFile(op, f, n)
  PROVE  /\ g \in Frame /\ g.op = op /\ g.count = n /\ g.done = 0 /\ g.stage = "idle" /\ g.todo = <<>>
         /\ g.pos = 0 /\ g.out_pos = 0 /\ g.user = {} /\ TheFile(g) = f
         /\ f \in File => Sides(g)
<1>1. op \in OpNames /\ NULL \in Fd /\ (op \in Readers \/ op \in Writers) /\ ~ (op \in Readers /\ op \in Writers)
  BY DEF OpNames, Fd, RwOps, Unlocked, Readers, Writers
<1>2. CASE op \in Readers
  <2>1. g = [NoCall EXCEPT !.op = op, !.count = n, !.in = f, !.out = NULL]
    BY <1>2 DEF OneFile
  <2>2. /\ g \in Frame /\ g.op = op /\ g.count = n /\ g.done = 0 /\ g.stage = "idle" /\ g.todo = <<>>
        /\ g.pos = 0 /\ g.out_pos = 0 /\ g.user = {} /\ g.in = f /\ g.out = NULL
    BY Zenon, <1>1, <2>1, NoCallFields DEF Frame
  <2> QED BY <1>1, <1>2, <2>2 DEF Sides, TheFile
<1>3. CASE op \in Writers
  <2>1. g = [NoCall EXCEPT !.op = op, !.count = n, !.in = NULL, !.out = f]
    BY Zenon, <1>1, <1>3 DEF OneFile
  <2>2. /\ g \in Frame /\ g.op = op /\ g.count = n /\ g.done = 0 /\ g.stage = "idle" /\ g.todo = <<>>
        /\ g.pos = 0 /\ g.out_pos = 0 /\ g.user = {} /\ g.in = NULL /\ g.out = f
    BY Zenon, <1>1, <2>1, NoCallFields DEF Frame
  <2> QED BY <1>1, <1>3, <2>2 DEF Sides, TheFile
<1> QED BY <1>1, <1>2, <1>3

-----------------------------------------------------------------------------
\* A call is counted only after its bytes.
Paired(q) == /\ "syscr" \in Pend(q) => "rchar" \in Pend(q)
             /\ "syscw" \in Pend(q) => "wchar" \in Pend(q)

LEMMA AfterPend == \A op \in RwOps :
  /\ "rchar" \in Pend(After(op)) <=> op \in Readers \cup Unlocked
  /\ "syscr" \in Pend(After(op)) <=> op \in Readers \cup Unlocked
  /\ "wchar" \in Pend(After(op)) <=> op \in Writers \cup Unlocked
  /\ "syscw" \in Pend(After(op)) <=> op \in Writers \cup Unlocked
  /\ "pos" \in Pend(After(op)) <=> op \in Positional
<1> DEFINE P(op) ==
      /\ "rchar" \in Pend(After(op)) <=> op \in Readers \cup Unlocked
      /\ "syscr" \in Pend(After(op)) <=> op \in Readers \cup Unlocked
      /\ "wchar" \in Pend(After(op)) <=> op \in Writers \cup Unlocked
      /\ "syscw" \in Pend(After(op)) <=> op \in Writers \cup Unlocked
      /\ "pos" \in Pend(After(op)) <=> op \in Positional
<1>1. P("read") /\ P("write")
  BY DEF After, Pend, Readers, Writers, Positional, Unlocked
<1>2. P("readv") /\ P("writev")
  BY DEF After, Pend, Readers, Writers, Positional, Unlocked
<1>3. P("pread") /\ P("preadv")
  BY DEF After, Pend, Readers, Writers, Positional, Unlocked
<1>4. P("pwrite") /\ P("pwritev")
  BY DEF After, Pend, Readers, Writers, Positional, Unlocked
<1>5. P("sendfile")
  BY DEF After, Pend, Readers, Writers, Positional, Unlocked
<1>6. P("copy_file_range")
  BY DEF After, Pend, Readers, Writers, Positional, Unlocked
<1>7. \A op \in RwOps : op \in {"read", "write", "readv", "writev", "pread", "preadv", "pwrite", "pwritev", "sendfile", "copy_file_range"}
  BY DEF RwOps, Readers, Writers, Unlocked
<1> HIDE DEF P
<1>8. \A op \in RwOps : P(op)
  BY Zenon, <1>1, <1>2, <1>3, <1>4, <1>5, <1>6, <1>7
<1> QED BY <1>8 DEF P

LEMMA AfterPaired == \A op \in RwOps : Paired(After(op)) /\ After(op) \in Seq(Steps)
  BY Zenon, AfterPend, AfterOK DEF Paired, TodoOK

\* What is left to do after a failed check.
LEMMA EarlyOK ==
  ASSUME NEW op \in RwOps
  PROVE  /\ TodoOK(Early(op), op) /\ Paired(Early(op))
         /\ "pos" \in Pend(Early(op)) => op \in Positional
         /\ op \notin Unlocked => Pend(Early(op)) \cap Stores = {}
<1>1. CASE op \in Vectored
  <2>1. Early(op) = After(op)
    BY <1>1 DEF Early
  <2>2. \A s \in Pend(After(op)) : Belongs(s, op)
    BY Zenon, AfterOK DEF TodoOK
  <2> QED BY Zenon, <2>1, <2>2, AfterOK, AfterPend, AfterPaired DEF Belongs
<1>2. CASE op \notin Vectored /\ op \in {"read", "write"}
  <2>1. Early(op) = <<"pos">>
    BY <1>2 DEF Early
  <2>2. Pend(<<"pos">>) = {"pos"}
    BY DEF Pend
  <2>3. op \in Positional
    BY <1>2 DEF Positional
  <2>4. TodoOK(<<"pos">>, op)
    BY <2>2, <2>3 DEF TodoOK, Steps, Stores, Chars, MustPrecede, Belongs
  <2> QED BY <2>1, <2>2, <2>3, <2>4 DEF Paired, Stores
<1>3. CASE op \notin Vectored /\ op \notin {"read", "write"}
  <2>1. Early(op) = <<>>
    BY <1>3 DEF Early
  <2> QED BY <2>1, EmptyTodo DEF Paired
<1> QED BY <1>1, <1>2, <1>3

\* A call begins in the frame g.
Begun(g) == CallOK(g) /\ g.done = 0 /\ Paired(g.todo) /\ ~ Holding(g)

LEMMA RwCallOK ==
  ASSUME CallInv, NEW t \in Task, NEW op \in Positional, NEW f \in Fd, NEW n \in Counts, RwCall(t, op, f, n)
  PROVE  \E g : Begun(g) /\ call' = [call EXCEPT ![t] = g]
<1>1. op \in RwOps \ Unlocked /\ op \in OpNames /\ n \in Int
  BY FileAssumption DEF Positional, RwOps, Readers, Writers, Unlocked, OpNames
<1>2. CASE f # NULL
  <2>1. PICK h : h = OneFile(op, f, n)
    OBVIOUS
  <2>2. f \in File
    BY <1>2 DEF Fd
  <2>3. /\ h \in Frame /\ h.op = op /\ h.done = 0 /\ h.todo = <<>> /\ h.pos = 0 /\ h.out_pos = 0 /\ Sides(h)
    BY <1>1, <2>1, <2>2, OneFileFields
  <2> DEFINE g == [h EXCEPT !.stage = "lock"]
  <2>4. call' = [call EXCEPT ![t] = g]
    BY <1>2, <2>1 DEF RwCall
  <2>5. /\ g \in Frame /\ g.op = op /\ g.done = 0 /\ g.todo = <<>> /\ g.stage = "lock" /\ g.in = h.in
        /\ g.out = h.out
        /\ g.pos = 0 /\ g.out_pos = 0
    BY <2>3 DEF Frame, Stages
  <2> HIDE DEF g
  <2>6. LockOK(g)
    BY Zenon, <2>3, <2>5 DEF LockOK, Sides
  <2>7. CallOK(g) /\ ~ Holding(g)
    BY Zenon, <2>5, <2>6 DEF CallOK, Holding
  <2>8. Paired(g.todo)
    BY <2>5, EmptyTodo DEF Paired
  <2> QED BY Zenon, <2>4, <2>5, <2>7, <2>8 DEF Begun
<1>3. CASE f = NULL
  <2> DEFINE q == IF op \in Vectored THEN Tail(After(op)) ELSE <<>>
  <2>1. TodoOK(q, op) /\ Paired(q) /\ Pend(q) \cap (Stores \cup {"pos"}) = {}
    <3>1. CASE op \in Vectored
      <4>1. op \in {"readv", "writev"}
        BY <3>1 DEF Vectored, Positional
      <4>2. After(op) # <<>> /\ Head(After(op)) = "pos"
        <5>1. After("readv") = <<"pos", "rchar", "syscr">> /\ After("writev") = <<"pos", "wchar", "syscw">>
          BY DEF After
        <5> QED BY <4>1, <5>1
      <4>3. TodoOK(q, op) /\ Pend(q) = Pend(After(op)) \ {"pos"}
        BY <1>1, <3>1, <4>2, AfterOK, PopOK
      <4>4. op \notin Unlocked /\ \A s \in Pend(q) : Belongs(s, op)
        BY Zenon, <1>1, <4>3 DEF TodoOK
      <4>5. Paired(q)
        BY <1>1, <4>3, AfterPaired DEF Paired
      <4> HIDE DEF q
      <4> QED BY Zenon, <4>3, <4>4, <4>5 DEF Belongs
    <3>2. CASE op \notin Vectored
      BY <3>2, EmptyTodo DEF Paired
    <3> QED BY <3>1, <3>2
  <2>2. PICK h : h = [NoCall EXCEPT !.op = op]
    BY Zenon
  <2>3. h \in Frame /\ h.op = op /\ h.done = 0
    BY Zenon, <1>1, <2>2, NamedFields
  <2>4. EBADF \in Int /\ EBADF <= 0
    BY DEF EBADF
  <2> DEFINE g == Stopped(h, EBADF, q)
  <2>5. call' = [call EXCEPT ![t] = g]
    BY <1>3, <2>2 DEF RwCall, Stop, Stopped
  <2> HIDE DEF q
  <2>6. CallOK(g)
    BY Zenon, <1>1, <2>1, <2>3, <2>4, RefusedCall
  <2>7. q \in Seq(Steps)
    BY <2>1 DEF TodoOK
  <2>8. g.todo = q /\ g.done = 0 /\ g.op = op /\ g.stage = "finish"
    BY <2>3, <2>4, <2>7, StoppedFields
  <2> HIDE DEF g
  <2>9. ~ Holding(g)
    BY <2>1, <2>8 DEF Holding
  <2> QED BY Zenon, <2>1, <2>5, <2>6, <2>8, <2>9 DEF Begun
<1> QED BY <1>2, <1>3

-----------------------------------------------------------------------------
\* A call that is refused with r and has the steps q to do.
LEMMA BegunRefused ==
  ASSUME NEW t, NEW h \in Frame, h.op \in RwOps, h.done = 0, NEW r \in Int, r <= 0,
    NEW q, TodoOK(q, h.op), Paired(q),
         Pend(q) \cap (Stores \cup {"pos"}) = {}, Stop(t, h, r, q)
  PROVE  \E g : Begun(g) /\ call' = [call EXCEPT ![t] = g]
<1> DEFINE g == Stopped(h, r, q)
<1>1. call' = [call EXCEPT ![t] = g]
  BY DEF Stop, Stopped
<1>2. CallOK(g)
  BY RefusedCall
<1>3. q \in Seq(Steps)
  BY DEF TodoOK
<1>4. g.todo = q /\ g.done = 0 /\ g.stage = "finish"
  BY <1>3, StoppedFields
<1> HIDE DEF g
<1>5. ~ Holding(g)
  BY <1>4 DEF Holding
<1> QED BY Zenon, <1>1, <1>2, <1>4, <1>5 DEF Begun

\* A call that needs no position lock goes on to move data.
LEMMA BegunGoing ==
  ASSUME NEW t, NEW h \in Frame, h.op \in RwOps \ Positional, h.done = 0, Sides(h), h.pos >= 0, h.out_pos >= 0,
         h.op = "sendfile" => h.max \in Int /\ h.pos + h.count <= h.max,
         h.op = "copy_file_range" => Apart(h), Proceed(t, h)
  PROVE  \E g : Begun(g) /\ call' = [call EXCEPT ![t] = g]
<1> DEFINE g == Going(h)
<1>1. call' = [call EXCEPT ![t] = g]
  BY DEF Proceed, Going
<1>2. CallOK(g)
  BY GoingOK
<1>3. g.todo = After(h.op) /\ g.done = 0 /\ g.op = h.op
  BY GoingFields
<1> HIDE DEF g
<1>4. ~ Holding(g)
  BY <1>3 DEF Holding
<1> QED BY Zenon, <1>1, <1>2, <1>3, <1>4, AfterPaired DEF Begun

LEMMA ExplicitOps == \A op \in Explicit : op \in RwOps \ Unlocked /\ op \in RwOps \ Positional /\ op \in OpNames
  BY DEF Explicit, RwOps, Readers, Writers, Positional, Unlocked, OpNames

\* The frame of a call at an explicit position.
LEMMA PrwFrameFields ==
  ASSUME NEW op \in Explicit, NEW f \in File, NEW n \in Int, NEW pos \in Int, NEW h, h = PrwFrame(op, f, n, pos)
  PROVE  h \in Frame /\ h.op = op /\ h.done = 0 /\ Sides(h) /\ h.pos = pos /\ h.out_pos = pos
<1>1. PICK g : g = OneFile(op, f, n)
  OBVIOUS
<1>2. g \in Frame /\ g.op = op /\ g.done = 0 /\ Sides(g)
  BY <1>1, ExplicitOps, OneFileFields DEF Fd
<1>3. h = [g EXCEPT !.pos = pos, !.out_pos = pos]
  BY <1>1 DEF PrwFrame
<1>4. h \in Frame /\ h.op = op /\ h.done = 0 /\ h.in = g.in /\ h.out = g.out /\ h.pos = pos /\ h.out_pos = pos
  BY Zenon, <1>2, <1>3 DEF Frame
<1> QED BY <1>2, <1>4 DEF Sides

LEMMA PrwGoes ==
  ASSUME NEW t, NEW op \in Explicit, NEW f \in Fd, NEW n \in Counts, NEW pos \in Offsets, NEW env,
         ~ (pos < 0), PrwError(op, f, n, pos, env) = 0, Proceed(t, PrwFrame(op, f, n, pos))
  PROVE  \E g : Begun(g) /\ call' = [call EXCEPT ![t] = g]
<1>1. n \in Int /\ pos \in Int /\ pos >= 0
  BY FileAssumption
<1>2. f \in File
  BY Errors DEF PrwError, Fd
<1>3. PICK h : h = PrwFrame(op, f, n, pos)
  OBVIOUS
<1>4. h \in Frame /\ h.op = op /\ h.done = 0 /\ Sides(h) /\ h.pos = pos /\ h.out_pos = pos
  BY <1>1, <1>2, <1>3, PrwFrameFields
<1>5. op \in RwOps \ Positional /\ op # "sendfile" /\ op # "copy_file_range"
  BY ExplicitOps DEF Unlocked
<1> QED BY <1>1, <1>3, <1>4, <1>5, BegunGoing

LEMMA PrwRefused ==
  ASSUME NEW t, NEW op \in RwOps, NEW r \in Int, r <= 0, NEW q, q = <<>> \/ (op \in Explicit /\ q = Early(op)),
         Stop(t, [NoCall EXCEPT !.op = op], r, q)
  PROVE  \E g : Begun(g) /\ call' = [call EXCEPT ![t] = g]
<1>1. PICK h : h = [NoCall EXCEPT !.op = op]
  OBVIOUS
<1>2. h \in Frame /\ h.op = op /\ h.done = 0
  BY Zenon, <1>1, NamedFields DEF OpNames
<1>3. TodoOK(<<>>, op) /\ Paired(<<>>) /\ Pend(<<>>) \cap (Stores \cup {"pos"}) = {}
  BY EmptyTodo DEF Paired
<1>4. op \in Explicit => TodoOK(Early(op), op) /\ Paired(Early(op))
      /\ Pend(Early(op)) \cap (Stores \cup {"pos"}) = {}
  BY EarlyOK, ExplicitOps
<1> QED BY Zenon, <1>1, <1>2, <1>3, <1>4, BegunRefused

LEMMA PrwCallOK ==
  ASSUME NEW t \in Task, NEW op \in Explicit, NEW f \in Fd, NEW n \in Counts, NEW pos \in Offsets, NEW env,
         PrwCall(t, op, f, n, pos, env) \/ PrwvCall(t, op, f, n, pos, env)
  PROVE  \E g : Begun(g) /\ call' = [call EXCEPT ![t] = g]
<1> DEFINE e == PrwError(op, f, n, pos, env)
<1>1. e \in Int /\ e <= 0 /\ EINVAL \in Int /\ EINVAL <= 0 /\ EINVAL # 0 /\ op \in RwOps
  BY PrwErrorType, ExplicitOps DEF EINVAL
<1>2. \/ Stop(t, [NoCall EXCEPT !.op = op], EINVAL, <<>>)
      \/ Stop(t, [NoCall EXCEPT !.op = op], e, <<>>)
      \/ Stop(t, [NoCall EXCEPT !.op = op], e, Early(op))
      \/ ~ (pos < 0) /\ e = 0 /\ Proceed(t, PrwFrame(op, f, n, pos))
  BY <1>1 DEF PrwCall, PrwvCall
<1> HIDE DEF e
<1>3. CASE ~ (pos < 0) /\ e = 0 /\ Proceed(t, PrwFrame(op, f, n, pos))
  BY Zenon, <1>3, PrwGoes DEF e
<1> QED BY Zenon, <1>1, <1>2, <1>3, PrwRefused

-----------------------------------------------------------------------------
LEMMA MinMaxType == \A a, b \in Int :
  /\ MinOf(a, b) \in Int /\ MinOf(a, b) <= a /\ MinOf(a, b) <= b /\ MinOf(a, b) \in {a, b}
  /\ MaxOf(a, b) \in Int /\ MaxOf(a, b) >= a /\ MaxOf(a, b) >= b /\ MaxOf(a, b) \in {a, b}
  BY DEF MinOf, MaxOf

\* Within the range of loff_t an offset is the same as u64.
LEMMA U64Same == \A x \in 0..OffsetMax : U64(x) = x
<1>1. \A m \in Nat : \A x \in 0..m : x % (2 * (m + 1)) = x
  OBVIOUS
<1> QED BY <1>1, FileAssumption DEF U64

LEMMA U64Type == \A x \in Int : U64(x) \in Nat
<1>1. \A m \in Nat : \A x \in Int : x % (2 * (m + 1)) \in Nat
  OBVIOUS
<1> QED BY <1>1, FileAssumption DEF U64

LEMMA SizeType == ASSUME TypeOK, NEW f \in File PROVE Size(f) \in Nat /\ Attr[f].inode \in Inode
  BY DEF TypeOK, Size, Inode

\* generic_write_check_limits(): what may be written ends within the limits.
LEMMA WriteLimitsProp ==
  ASSUME NEW f \in File, NEW pos \in Int, NEW n \in Int, NEW w, w = WriteLimits(f, pos, n)
  PROVE  /\ w.err \in Int /\ w.err <= 0 /\ w.pos = pos /\ w.count \in Int
         /\ w.err = 0 => /\ w.count <= n /\ (n >= 0 => w.count >= 0)
                         /\ pos + w.count <= IF Has(f, "LARGEFILE") THEN MaxBytes ELSE MaxNonLfs
                         /\ FsizeLimit # NULL => pos + w.count <= FsizeLimit
<1> DEFINE max == IF Has(f, "LARGEFILE") THEN MaxBytes ELSE MaxNonLfs
           cut == IF FsizeLimit = NULL THEN n ELSE MinOf(n, FsizeLimit - pos)
<1>1. max \in Nat /\ (FsizeLimit # NULL => FsizeLimit \in Nat)
  BY FileAssumption
<1>2. /\ cut \in Int /\ cut <= n /\ (FsizeLimit # NULL => pos + cut <= FsizeLimit)
      /\ n >= 0 /\ ~ (FsizeLimit # NULL /\ pos >= FsizeLimit) => cut >= 0
  BY <1>1 DEF MinOf
<1>3. w = IF (FsizeLimit # NULL /\ pos >= FsizeLimit) \/ pos >= max
            THEN [err |-> EFBIG, pos |-> pos, count |-> 0]
            ELSE [err |-> 0, pos |-> pos, count |-> MinOf(cut, max - pos)]
  BY DEF WriteLimits
<1> HIDE DEF cut
<1>4. /\ MinOf(cut, max - pos) \in Int /\ MinOf(cut, max - pos) <= cut /\ pos + MinOf(cut, max - pos) <= max
      /\ cut >= 0 /\ pos < max => MinOf(cut, max - pos) >= 0
  BY <1>1, <1>2 DEF MinOf
<1> HIDE DEF max
<1>5. EFBIG \in Int /\ EFBIG < 0
  BY DEF EFBIG
<1>6. /\ w.err \in Int /\ w.err <= 0 /\ w.pos = pos /\ w.count \in Int
      /\ w.err = 0 => /\ w.count = MinOf(cut, max - pos) /\ ~ (pos >= max)
                      /\ ~ (FsizeLimit # NULL /\ pos >= FsizeLimit)
  BY <1>3, <1>4, <1>5
<1>7. w.err = 0 => w.count <= n /\ (n >= 0 => w.count >= 0) /\ pos + w.count <= max
      /\ (FsizeLimit # NULL => pos + w.count <= FsizeLimit)
  BY <1>1, <1>2, <1>4, <1>6
<1> QED BY <1>6, <1>7 DEF max

\* generic_write_checks().
LEMMA WriteChecksProp ==
  ASSUME TypeOK, NEW f \in File, NEW pos \in Nat, NEW n \in Int, NEW w, w = WriteChecks(f, pos, n)
  PROVE  /\ w.err \in Int /\ w.err <= 0 /\ w.pos \in Nat /\ w.count \in Int
         /\ w.err = 0 => w.count <= n
         /\ w.err = 0 /\ w.count > 0 =>
              /\ w.pos + w.count <= IF Has(f, "LARGEFILE") THEN MaxBytes ELSE MaxNonLfs
              /\ FsizeLimit # NULL => w.pos + w.count <= FsizeLimit
<1> DEFINE p == IF Has(f, "APPEND") THEN Size(f) ELSE pos
<1>1. p \in Nat
  BY SizeType
<1>2. ETXTBSY \in Int /\ ETXTBSY < 0
  BY DEF ETXTBSY
<1>3. CASE Has(f, "SWAPFILE") \/ n = 0
  BY <1>2, <1>3 DEF WriteChecks
<1>4. CASE ~ (Has(f, "SWAPFILE") \/ n = 0)
  <2>1. w = WriteLimits(f, p, n)
    BY <1>4 DEF WriteChecks
  <2> HIDE DEF p
  <2> QED BY <1>1, <2>1, WriteLimitsProp
<1> QED BY <1>3, <1>4

SendfileErrors(in, out, user, pos, out_pos, n, len, max, env) ==
  << <<~ Has(in, "READ"), EBADF>>,
     <<user # {} /\ ~ Has(in, "PREAD"), ESPIPE>>,
     <<BadArea(pos, n), EINVAL>>,
     <<env = "denied", EACCES>>,
     <<out = NULL, EBADF>>,
     <<out # NULL /\ ~ Has(out, "WRITE"), EBADF>>,
     <<pos + MinOf(n, MaxRw) > max /\ pos >= max, EOVERFLOW>>,
     <<out # NULL /\ ~ Stream(out) /\ BadArea(out_pos, len), EINVAL>> >>

LEMMA SendfileErrorsProp ==
  ASSUME NEW in, NEW out, NEW user, NEW pos, NEW out_pos, NEW n, NEW len, NEW max, NEW env,
         NEW e, e = FirstError(SendfileErrors(in, out, user, pos, out_pos, n, len, max, env))
  PROVE  /\ e \in Int /\ e <= 0
         /\ e = 0 => ~ BadArea(pos, n) /\ out # NULL /\ ~ (pos + MinOf(n, MaxRw) > max /\ pos >= max)
<1> DEFINE c == SendfileErrors(in, out, user, pos, out_pos, n, len, max, env)
<1>1. DOMAIN c = 1..8 /\ \A i \in 1..8 : c[i][2] \in {EBADF, ESPIPE, EINVAL, EACCES, EOVERFLOW}
  BY DEF SendfileErrors
<1>2. /\ BadArea(pos, n) => c[3][1]
      /\ out = NULL => c[5][1]
      /\ pos + MinOf(n, MaxRw) > max /\ pos >= max => c[7][1]
  BY Zenon DEF SendfileErrors
<1> HIDE DEF c
<1>3. e \in Int /\ e <= 0 /\ (e = 0 => \A i \in 1..8 : ~ c[i][1])
  BY Zenon, <1>1, FewChecks, FirstErrorProp, Errors DEF c
<1> QED BY <1>2, <1>3

-----------------------------------------------------------------------------
LEMMA UnlockedOps == \A op \in Unlocked :
  op \in RwOps /\ op \in OpNames /\ op \notin Positional /\ op \notin Readers /\ op \notin Writers
  BY DEF Unlocked, RwOps, OpNames, Positional, Readers, Writers

LEMMA TwoSides == ASSUME NEW h, h.op \in Unlocked, h.in \in File, h.out \in File PROVE Sides(h)
  BY UnlockedOps DEF Sides

LEMMA SendfileCallOK ==
  ASSUME TypeOK, NEW t \in Task, NEW in \in Fd, NEW out \in Fd, NEW user \in SUBSET {"in", "out"}, NEW n \in Counts,
         NEW off \in Int, NEW max \in Nat, NEW env, SendfileCall(t, in, out, user, n, off, max, env)
  PROVE  \E g : Begun(g) /\ call' = [call EXCEPT ![t] = g]
<1> DEFINE pos == IF user # {} \/ in = NULL THEN off ELSE f_pos[in]
           m == MinOf(n, MaxRw)
           len == IF pos + m > max THEN max - pos ELSE m
           out_pos == IF out = NULL THEN 0 ELSE f_pos[out]
           e == IF in = NULL THEN EBADF ELSE
                  FirstError(SendfileErrors(in, out, user, pos, out_pos, n, len, max, env))
           fr == [NoCall EXCEPT !.op = "sendfile", !.in = in, !.out = out, !.user = user,
                           !.count = len, !.pos = pos, !.out_pos = out_pos, !.max = max]
           none == [NoCall EXCEPT !.op = "sendfile", !.max = NULL]
<1>1. "sendfile" \in Unlocked /\ "sendfile" \in RwOps
  BY DEF Unlocked, RwOps
<1>2. pos \in Int /\ out_pos \in Nat /\ m \in Int /\ n \in Nat
  <2>1. n \in Nat /\ MaxRw \in Nat /\ f_pos \in [File -> Nat]
    BY FileAssumption DEF TypeOK
  <2>2. m \in Int
    BY <2>1 DEF MinOf
  <2>3. (in # NULL => f_pos[in] \in Nat) /\ (out # NULL => f_pos[out] \in Nat)
    BY <2>1 DEF Fd
  <2> QED BY <2>1, <2>2, <2>3
<1>3. \/ Stop(t, none, EFAULT, <<>>)
      \/ Stop(t, [none EXCEPT !.user = user], e, <<>>)
      \/ e = 0 /\ Proceed(t, fr)
  BY DEF SendfileCall, SendfileErrors
<1> HIDE DEF m
<1>4. len \in Int /\ pos + len <= max
  BY <1>2
<1>5. EFAULT \in Int /\ EFAULT <= 0 /\ EBADF \in Int /\ EBADF < 0
  BY DEF EFAULT, EBADF
<1> HIDE DEF pos, len, out_pos
<1>6. e \in Int /\ e <= 0 /\ (e = 0 => in # NULL /\ out # NULL /\ ~ BadArea(pos, n))
  BY <1>5, SendfileErrorsProp
<1> HIDE DEF e
<1>7. CASE Stop(t, none, EFAULT, <<>>) \/ Stop(t, [none EXCEPT !.user = user], e, <<>>)
  <2>1. PICK h, r : Stop(t, h, r, <<>>) /\ h \in {none, [none EXCEPT !.user = user]} /\ r \in {EFAULT, e}
    BY <1>7
  <2>2. none \in Frame /\ none.op = "sendfile" /\ none.done = 0
    BY Zenon, <1>1, UnlockedOps, NoCallFields DEF Frame
  <2> HIDE DEF none
  <2>3. h \in Frame /\ h.op = "sendfile" /\ h.done = 0
    BY <2>1, <2>2 DEF Frame
  <2>4. TodoOK(<<>>, h.op) /\ Paired(<<>>) /\ Pend(<<>>) \cap (Stores \cup {"pos"}) = {}
    BY EmptyTodo DEF Paired
  <2> QED BY Zenon, <1>1, <1>5, <1>6, <2>1, <2>3, <2>4, BegunRefused
<1>8. CASE e = 0 /\ Proceed(t, fr)
  <2>1. PICK h : h = fr
    OBVIOUS
  <2>2. /\ h \in Frame /\ h.op = "sendfile" /\ h.in = in /\ h.out = out /\ h.count = len
        /\ h.pos = pos /\ h.out_pos = out_pos /\ h.max = max /\ h.done = 0
    <3>1. out_pos \in Int /\ max \in Int
      BY <1>2
    <3>2. "sendfile" \in OpNames
      BY <1>1, UnlockedOps
    <3> QED BY Zenon, <1>2, <1>4, <2>1, <3>1, <3>2, NoCallFields DEF Frame
  <2>3. in \in File /\ out \in File /\ pos >= 0
    BY <1>2, <1>6, <1>8 DEF BadArea, Fd
  <2>4. Sides(h)
    BY <1>1, <2>2, <2>3, TwoSides
  <2>5. Proceed(t, h)
    BY <1>8, <2>1
  <2> HIDE DEF fr
  <2> QED BY <1>1, <1>2, <1>4, <2>2, <2>3, <2>4, <2>5, UnlockedOps, BegunGoing
<1> QED BY <1>3, <1>7, <1>8

CopyErrors(in, out, pos, out_pos, n, w) ==
  << <<FileRwChecks(in, out) # 0, FileRwChecks(in, out)>>,
     <<Attr[in].sb # Attr[out].sb, EXDEV>>,
     <<Has(out, "IMMUTABLE"), EPERM>>,
     <<Has(in, "SWAPFILE") \/ Has(out, "SWAPFILE"), ETXTBSY>>,
     <<U64(pos + n) < U64(pos) \/ U64(out_pos + n) < U64(out_pos), EOVERFLOW>>,
     <<w.err # 0, w.err>>,
     <<Overlaps(in, out, pos, out_pos, w.count), EINVAL>> >>

LEMMA FileRwChecksType ==
  ASSUME NEW in, NEW out PROVE FileRwChecks(in, out) \in Int /\ FileRwChecks(in, out) <= 0
<1> DEFINE c == << <<Has(in, "DIR") \/ Has(out, "DIR"), EISDIR>>,
                <<~ Has(in, "REG") \/ ~ Has(out, "REG"), EINVAL>>,
                <<~ Has(in, "READ") \/ ~ Has(out, "WRITE") \/ Has(out, "APPEND"), EBADF>> >>
<1>1. DOMAIN c = 1..3 /\ \A i \in 1..3 : c[i][2] \in {EISDIR, EINVAL, EBADF}
  OBVIOUS
<1>2. FileRwChecks(in, out) = FirstError(c)
  BY DEF FileRwChecks
<1> HIDE DEF c
<1> QED BY Zenon, <1>1, <1>2, FewChecks, FirstErrorProp, Errors

\* Copies are between ranges that are apart, as u64.
LEMMA CopyErrorsProp ==
  ASSUME NEW in, NEW out, NEW pos, NEW out_pos, NEW n, NEW w, w.err \in Int, w.err <= 0,
         NEW e, e = FirstError(CopyErrors(in, out, pos, out_pos, n, w))
  PROVE  e \in Int /\ e <= 0 /\ (e = 0 => w.err = 0 /\ ~ Overlaps(in, out, pos, out_pos, w.count))
<1> DEFINE c == CopyErrors(in, out, pos, out_pos, n, w)
           rw == FileRwChecks(in, out)
<1>1. DOMAIN c = 1..7
  BY DEF CopyErrors
<1>2. rw \in Int /\ rw <= 0
  BY FileRwChecksType
<1>3. /\ (c[1][1] => rw # 0) /\ c[1][2] = rw
      /\ (c[6][1] <=> w.err # 0) /\ c[6][2] = w.err
      /\ (Overlaps(in, out, pos, out_pos, w.count) => c[7][1]) /\ c[7][2] = EINVAL
      /\ \A i \in 2..5 : c[i][2] \in {EXDEV, EPERM, ETXTBSY, EOVERFLOW}
  <2>1. (c[1][1] => rw # 0) /\ c[1][2] = rw
    BY Zenon DEF CopyErrors
  <2>2. (c[6][1] <=> w.err # 0) /\ c[6][2] = w.err
    BY Zenon DEF CopyErrors
  <2>3. (Overlaps(in, out, pos, out_pos, w.count) => c[7][1]) /\ c[7][2] = EINVAL
    BY DEF CopyErrors
  <2>4. \A i \in 2..5 : c[i][2] \in {EXDEV, EPERM, ETXTBSY, EOVERFLOW}
    BY DEF CopyErrors
  <2> QED BY Zenon, <2>1, <2>2, <2>3, <2>4
<1> HIDE DEF c, rw
<1>4. \A i \in 1..7 : c[i][1] => c[i][2] \in Int /\ c[i][2] < 0
  <2>1. \A i \in 2..5 : c[i][2] \in Int /\ c[i][2] < 0
    BY <1>3, Errors
  <2>2. \A i \in {1, 6, 7} : c[i][1] => c[i][2] \in Int /\ c[i][2] < 0
    BY <1>2, <1>3, Errors
  <2>3. \A i \in 1..7 : i \in 2..5 \/ i \in {1, 6, 7}
    OBVIOUS
  <2> QED BY Zenon, <2>1, <2>2, <2>3
<1>5. e \in Int /\ e <= 0 /\ (e = 0 => \A i \in 1..7 : ~ c[i][1])
  BY Zenon, <1>1, <1>4, FewChecks, FirstErrorProp DEF c
<1> QED BY <1>3, <1>5

-----------------------------------------------------------------------------
LEMMA CopyChecksProp ==
  ASSUME TypeOK, NEW in \in File, NEW out \in File, NEW pos \in Int, NEW out_pos \in Int, NEW n \in Nat,
         NEW v, v = CopyChecks(in, out, pos, out_pos, n)
  PROVE  /\ v.err \in Int /\ v.err <= 0 /\ v.count \in Int
         /\ v.err = 0 => v.count >= 0 /\ ~ Overlaps(in, out, pos, out_pos, v.count)
<1> DEFINE eof == IF pos >= Size(in) THEN 0 ELSE MinOf(n, U64(Size(in) - pos))
           w == WriteLimits(out, out_pos, eof)
           e == FirstError(CopyErrors(in, out, pos, out_pos, n, w))
<1>1. eof \in Nat
  <2>1. Size(in) - pos \in Int
    BY SizeType
  <2>2. U64(Size(in) - pos) \in Nat
    BY <2>1, U64Type
  <2> QED BY <2>2 DEF MinOf
<1>2. v = [err |-> e, count |-> w.count]
  BY DEF CopyChecks, CopyErrors
<1> HIDE DEF eof
<1>3. w.err \in Int /\ w.err <= 0 /\ w.count \in Int /\ (w.err = 0 => w.count >= 0)
  BY <1>1, WriteLimitsProp
<1> HIDE DEF w
<1>4. e \in Int /\ e <= 0 /\ (e = 0 => ~ Overlaps(in, out, pos, out_pos, w.count) /\ w.err = 0)
  BY <1>3, CopyErrorsProp
<1> HIDE DEF e
<1> QED BY <1>2, <1>3, <1>4

RangeErrors(chk, pos, out_pos, env) ==
  << <<env = "flags", EINVAL>>,
     <<chk.err # 0, chk.err>>,
     <<BadArea(pos, chk.count) \/ BadArea(out_pos, chk.count), EINVAL>>,
     <<env = "denied", EACCES>> >>

LEMMA CopyRangeProp ==
  ASSUME TypeOK, NEW in \in File, NEW out \in File, NEW pos \in Int, NEW out_pos \in Int, NEW n \in Nat, NEW env,
         NEW v, v = VfsCopyFileRange(in, out, pos, out_pos, n, env)
  PROVE  /\ v.err \in Int /\ v.err <= 0 /\ v.count \in Int
         /\ v.err = 0 =>
              /\ pos >= 0 /\ out_pos >= 0
              /\ Attr[in].inode = Attr[out].inode => pos + v.count <= out_pos \/ out_pos + v.count <= pos
<1>1. PICK k : k = CopyChecks(in, out, pos, out_pos, n)
  OBVIOUS
<1>2. /\ k.err \in Int /\ k.err <= 0 /\ k.count \in Int
      /\ k.err = 0 => k.count >= 0 /\ ~ Overlaps(in, out, pos, out_pos, k.count)
  BY <1>1, CopyChecksProp
<1> DEFINE c == RangeErrors(k, pos, out_pos, env)
           e == FirstError(c)
<1>3. v = [err |-> e, count |-> k.count]
  BY <1>1 DEF VfsCopyFileRange, RangeErrors
<1>4. DOMAIN c = 1..4
  BY DEF RangeErrors
<1>5. (c[2][1] <=> k.err # 0) /\ c[2][2] = k.err
  BY Zenon DEF RangeErrors
<1>6. /\ BadArea(pos, k.count) \/ BadArea(out_pos, k.count) => c[3][1]
      /\ \A i \in {1, 3, 4} : c[i][2] \in {EINVAL, EACCES}
  <2>1. BadArea(pos, k.count) \/ BadArea(out_pos, k.count) => c[3][1]
    BY Zenon DEF RangeErrors
  <2>2. c[1][2] = EINVAL /\ c[3][2] = EINVAL /\ c[4][2] = EACCES
    BY DEF RangeErrors
  <2> QED BY Zenon, <2>1, <2>2
<1> HIDE DEF c
<1>7. \A i \in 1..4 : c[i][1] => c[i][2] \in Int /\ c[i][2] < 0
  <2>1. \A i \in {1, 3, 4} : c[i][2] \in Int /\ c[i][2] < 0
    BY <1>6, Errors
  <2>2. c[2][1] => c[2][2] \in Int /\ c[2][2] < 0
    BY <1>2, <1>5
  <2>3. \A i \in 1..4 : i \in {1, 3, 4} \/ i = 2
    OBVIOUS
  <2> QED BY Zenon, <2>1, <2>2, <2>3
<1>8. e \in Int /\ e <= 0 /\ (e = 0 => \A i \in 1..4 : ~ c[i][1])
  BY Zenon, <1>4, <1>7, FewChecks, FirstErrorProp
<1> HIDE DEF e
<1>9. ASSUME e = 0
      PROVE  /\ pos >= 0 /\ out_pos >= 0
             /\ Attr[in].inode = Attr[out].inode => pos + k.count <= out_pos \/ out_pos + k.count <= pos
  <2>1. k.err = 0 /\ ~ BadArea(pos, k.count) /\ ~ BadArea(out_pos, k.count)
    BY <1>5, <1>6, <1>8, <1>9
  <2>2. /\ k.count >= 0 /\ pos \in 0..OffsetMax /\ out_pos \in 0..OffsetMax
        /\ pos + k.count \in 0..OffsetMax /\ out_pos + k.count \in 0..OffsetMax
    BY <1>2, <2>1, FileAssumption DEF BadArea
  <2>3. /\ U64(pos) = pos /\ U64(out_pos) = out_pos
        /\ U64(pos + k.count) = pos + k.count /\ U64(out_pos + k.count) = out_pos + k.count
    BY <2>2, U64Same
  <2>4. ~ Overlaps(in, out, pos, out_pos, k.count)
    BY <1>2, <2>1
  <2> QED BY <1>2, <2>2, <2>3, <2>4 DEF Overlaps
<1> QED BY <1>2, <1>3, <1>8, <1>9

LEMMA CopyCallOK ==
  ASSUME TypeOK, NEW t \in Task, NEW in \in Fd, NEW out \in Fd, NEW user \in SUBSET {"in", "out"}, NEW n \in Counts,
         NEW off \in Int, NEW out_off \in Int, NEW env, CopyCall(t, in, out, user, n, off, out_off, env)
  PROVE  \E g : Begun(g) /\ call' = [call EXCEPT ![t] = g]
<1> DEFINE pos == IF "in" \in user \/ in = NULL THEN off ELSE f_pos[in]
           out_pos == IF "out" \in user \/ out = NULL THEN out_off ELSE f_pos[out]
           v == VfsCopyFileRange(in, out, pos, out_pos, n, env)
           fr == [NoCall EXCEPT !.op = "copy_file_range", !.in = in, !.out = out, !.user = user,
                           !.count = v.count, !.pos = pos, !.out_pos = out_pos]
           none == [NoCall EXCEPT !.op = "copy_file_range"]
<1>1. "copy_file_range" \in Unlocked /\ "copy_file_range" \in RwOps /\ "copy_file_range" \in OpNames
  BY DEF Unlocked, RwOps, OpNames
<1>2. \/ Stop(t, none, EBADF, <<>>)
      \/ Stop(t, none, EFAULT, <<>>)
      \/ in \in File /\ out \in File /\ (Stop(t, none, v.err, <<>>) \/ (v.err = 0 /\ Proceed(t, fr)))
  BY DEF CopyCall, Fd
<1>3. EFAULT \in Int /\ EFAULT <= 0 /\ EBADF \in Int /\ EBADF <= 0
  BY DEF EFAULT, EBADF
<1>4. ASSUME in \in File, out \in File
      PROVE  /\ pos \in Int /\ out_pos \in Int /\ v.err \in Int /\ v.err <= 0 /\ v.count \in Int
             /\ v.err = 0 =>
                  /\ pos >= 0 /\ out_pos >= 0
                  /\ Attr[in].inode = Attr[out].inode => pos + v.count <= out_pos \/ out_pos + v.count <= pos
  <2>1. pos \in Int /\ out_pos \in Int /\ n \in Nat
    BY <1>4, FileAssumption DEF TypeOK
  <2> HIDE DEF pos, out_pos
  <2> QED BY <1>4, <2>1, CopyRangeProp
<1> HIDE DEF v, pos, out_pos
<1>5. CASE \E r \in Int : r <= 0 /\ Stop(t, none, r, <<>>)
  <2>1. PICK h, r : h = none /\ r \in Int /\ r <= 0 /\ Stop(t, h, r, <<>>)
    BY <1>5
  <2>2. h \in Frame /\ h.op = "copy_file_range" /\ h.done = 0
    BY Zenon, <1>1, <2>1, NamedFields
  <2>3. TodoOK(<<>>, h.op) /\ Paired(<<>>) /\ Pend(<<>>) \cap (Stores \cup {"pos"}) = {}
    BY EmptyTodo DEF Paired
  <2> QED BY Zenon, <1>1, <2>1, <2>2, <2>3, BegunRefused
<1>6. CASE in \in File /\ out \in File /\ v.err = 0 /\ Proceed(t, fr)
  <2>1. PICK h : h = fr
    OBVIOUS
  <2>2. pos \in Int /\ out_pos \in Int /\ v.count \in Int /\ in \in Fd /\ out \in Fd
    BY <1>4, <1>6
  <2>3. /\ h \in Frame /\ h.op = "copy_file_range" /\ h.in = in /\ h.out = out /\ h.count = v.count
        /\ h.pos = pos /\ h.out_pos = out_pos /\ h.done = 0
    BY Zenon, <1>1, <2>1, <2>2, NoCallFields DEF Frame
  <2>4. Sides(h)
    BY <1>1, <1>6, <2>3, TwoSides
  <2>5. Proceed(t, h)
    BY <1>6, <2>1
  <2> HIDE DEF fr
  <2>6. Apart(h) /\ h.pos >= 0 /\ h.out_pos >= 0
    BY <1>4, <1>6, <2>3 DEF Apart
  <2> QED BY <1>1, <2>3, <2>4, <2>5, <2>6, UnlockedOps, BegunGoing
<1> QED BY <1>2, <1>3, <1>4, <1>5, <1>6

-----------------------------------------------------------------------------
LEMMA OpsAre == Ops \subseteq RwOps \cup {"lseek"} /\ Ops \cap Positional \subseteq RwOps
  BY FileAssumption DEF RwOps, Positional, Explicit, Unlocked, Readers, Writers

\* Every call starts in an idle task and touches nothing but its own frame.
LEMMA CallBegins ==
  ASSUME CallInv, NEW t \in Task, Call(t)
  PROVE  /\ call[t].stage = "idle" /\ UNCHANGED <<f_pos, pos_lock, i_size, ioac, moved>>
         /\ calls' = [calls EXCEPT ![t] = @ + 1]
         /\ \E g : Begun(g) /\ call' = [call EXCEPT ![t] = g]
<1> DEFINE Goal == /\ UNCHANGED <<f_pos, pos_lock, i_size, ioac, moved>>
                   /\ calls' = [calls EXCEPT ![t] = @ + 1]
                   /\ \E g : Begun(g) /\ call' = [call EXCEPT ![t] = g]
<1>0. TypeOK /\ MaxNonLfs \in Nat /\ MaxBytes \in Nat /\ Offsets \subseteq Int /\ 0 \in Int
  BY FileAssumption DEF CallInv
<1>1. PICK f \in Fd, n \in Counts :
  \/ \E op \in Ops \cap Positional : RwCall(t, op, f, n)
  \/ \E op \in (Ops \cap Explicit) \ Vectored, pos \in Offsets, env \in Env : PrwCall(t, op, f, n, pos, env)
  \/ \E op \in Ops \cap Explicit \cap Vectored, pos \in Offsets, env \in Env : PrwvCall(t, op, f, n, pos, env)
  \/ /\ "sendfile" \in Ops
     /\ \E out \in Fd, env \in Env :
          \/ SendfileCall(t, f, out, {}, n, 0, MaxBytes, env)
          \/ \E max \in {MaxNonLfs, MaxBytes}, off \in Offsets :
               SendfileCall(t, f, out, {"in"}, n, off, max, env)
  \/ /\ "copy_file_range" \in Ops
     /\ \E out \in Fd, env \in Env \cup {"flags"} :
          \/ CopyCall(t, f, out, {}, n, 0, 0, env)
          \/ /\ NULL \notin {f, out}
             /\ \E off \in Offsets :
                  \/ CopyCall(t, f, out, {"in"}, n, off, 0, env)
                  \/ CopyCall(t, f, out, {"out"}, n, 0, off, env)
                  \/ \E out_off \in Offsets : CopyCall(t, f, out, {"in", "out"}, n, off, out_off, env)
  BY Zenon DEF Call
<1>2. ASSUME NEW op \in Ops \cap Positional, RwCall(t, op, f, n) PROVE Goal
  BY Zenon, <1>2, RwCallOK DEF RwCall, CountCall, fileVars
<1>3. ASSUME NEW op \in Explicit, NEW pos \in Offsets, NEW env, PrwCall(t, op, f, n, pos, env) \/ PrwvCall(t, op, f, n, pos, env)
      PROVE Goal
  <2>1. \E g : Begun(g) /\ call' = [call EXCEPT ![t] = g]
    BY <1>3, PrwCallOK, Zenon
  <2>2. UNCHANGED <<f_pos, pos_lock, i_size, ioac, moved>> /\ calls' = [calls EXCEPT ![t] = @ + 1]
    BY <1>3 DEF PrwCall, PrwvCall, CountCall, fileVars
  <2> QED BY Zenon, <2>1, <2>2
<1>4. ASSUME NEW out \in Fd, NEW env, NEW user \in SUBSET {"in", "out"}, NEW off \in Int, NEW max \in Nat, SendfileCall(t, f, out, user, n, off, max, env)
      PROVE Goal
  <2>1. \E g : Begun(g) /\ call' = [call EXCEPT ![t] = g]
    BY <1>0, <1>4, SendfileCallOK, Zenon
  <2>2. UNCHANGED <<f_pos, pos_lock, i_size, ioac, moved>> /\ calls' = [calls EXCEPT ![t] = @ + 1]
    BY <1>4, Zenon DEF SendfileCall, CountCall, fileVars
  <2> QED BY Zenon, <2>1, <2>2
<1>5. ASSUME NEW out \in Fd, NEW env, NEW user \in SUBSET {"in", "out"}, NEW off \in Int, NEW out_off \in Int, CopyCall(t, f, out, user, n, off, out_off, env)
      PROVE Goal
  BY Zenon, <1>0, <1>5, CopyCallOK DEF CopyCall, CountCall, fileVars
<1>6. call[t].stage = "idle"
  BY DEF Call, Ready
<1>7. {} \in SUBSET {"in", "out"} /\ {"in"} \in SUBSET {"in", "out"} /\ {"out"} \in SUBSET {"in", "out"}
      /\ {"in", "out"} \in SUBSET {"in", "out"}
  OBVIOUS
<1> HIDE DEF Goal
<1>8. Goal
  BY <1>0, <1>1, <1>2, <1>3, <1>4, <1>5, <1>7, Zenon
<1> QED BY Zenon, <1>6, <1>8 DEF Goal

\* A seek leaves the position at 0 or above.
LEMMA SetposOK ==
  ASSUME TypeOK, NEW f \in File, NEW off \in Int, NEW max \in Int, NEW s, s = VfsSetpos(f, off, max)
  PROVE  s.pos \in Nat /\ s.ret \in Int
<1>1. f_pos[f] \in Nat /\ EINVAL \in Int
  BY DEF TypeOK, EINVAL
<1> QED BY <1>1 DEF VfsSetpos, Seek

LEMMA SeekTo == ASSUME NEW p, NEW r PROVE Seek(p, r).pos = p /\ Seek(p, r).ret = r
  BY DEF Seek

SeekOK(s) == s.pos \in Nat /\ s.ret \in Int

LEMMA GenericLlseekOK ==
  ASSUME TypeOK, NEW f \in File, NEW off \in Int, NEW whence, whence \in {"SET", "CUR", "END", "DATA", "HOLE"},
         NEW max \in Int, NEW eof \in Int
  PROVE  SeekOK(GenericLlseek(f, off, whence, max, eof))
<1>1. f_pos[f] \in Nat /\ ENXIO \in Int
  BY DEF TypeOK, ENXIO
<1>2. \A x \in Int : SeekOK(VfsSetpos(f, x, max))
  BY SetposOK DEF SeekOK
<1>3. SeekOK(Seek(f_pos[f], ENXIO)) /\ SeekOK(Seek(f_pos[f], f_pos[f]))
  BY <1>1, SeekTo DEF SeekOK
<1>4. off + eof \in Int /\ f_pos[f] + off \in Int
  BY <1>1
<1> QED BY <1>2, <1>3, <1>4 DEF GenericLlseek

LEMMA DefaultLlseekOK ==
  ASSUME TypeOK, NEW f \in File, NEW off \in Int, NEW whence
  PROVE  SeekOK(DefaultLlseek(f, off, whence))
<1>1. f_pos[f] \in Nat /\ ENXIO \in Int /\ Size(f) \in Nat /\ OffsetMax \in Int
  BY SizeType, FileAssumption DEF TypeOK, ENXIO
<1>2. \A x \in Int : SeekOK(VfsSetpos(f, x, OffsetMax))
  BY <1>1, SetposOK DEF SeekOK
<1>3. SeekOK(Seek(f_pos[f], ENXIO)) /\ SeekOK(Seek(f_pos[f], f_pos[f]))
  BY <1>1, SeekTo DEF SeekOK
<1> DEFINE x == CASE whence = "END" -> off + Size(f)
                  [] whence = "CUR" -> off + f_pos[f]
                  [] whence = "HOLE" -> Size(f)
                  [] OTHER -> off
<1>4. x \in Int
  BY <1>1
<1>5. DefaultLlseek(f, off, whence) \in {Seek(f_pos[f], ENXIO), Seek(f_pos[f], f_pos[f]), VfsSetpos(f, x, OffsetMax)}
  BY DEF DefaultLlseek
<1> HIDE DEF x
<1> QED BY <1>2, <1>3, <1>4, <1>5

LEMMA LlseekOK ==
  ASSUME TypeOK, NEW f \in File, NEW off \in Int, NEW whence, whence \in {"SET", "CUR", "END", "DATA", "HOLE"}
  PROVE  SeekOK(Llseek(f, off, whence))
<1>1. f_pos[f] \in Nat /\ EINVAL \in Int /\ Size(f) \in Int /\ OffsetMax \in Int /\ MaxBytes \in Int /\ 0 \in Int
  BY SizeType, FileAssumption DEF TypeOK, EINVAL
<1>2. SeekOK(Seek(f_pos[f], EINVAL)) /\ SeekOK(Seek(f_pos[f], f_pos[f]))
  BY <1>1, SeekTo DEF SeekOK
<1>3. Attr[f].llseek \in {"generic", "default", "fixed", "no_end", "noop"}
  BY FileAssumption
<1>4. Llseek(f, off, whence) \in
        {Seek(f_pos[f], f_pos[f]), DefaultLlseek(f, off, whence), Seek(f_pos[f], EINVAL),
         GenericLlseek(f, off, whence, MaxBytes, Size(f)), GenericLlseek(f, off, whence, Size(f), Size(f)),
         GenericLlseek(f, off, whence, OffsetMax, 0)}
  BY <1>3 DEF Llseek
<1> QED BY <1>1, <1>2, <1>4, GenericLlseekOK, DefaultLlseekOK

\* lseek
LEMMA SeekEffect ==
  ASSUME CallInv, NEW t \in Task, SeekCall(t)
  PROVE  /\ call[t].stage = "idle" /\ UNCHANGED <<pos_lock, i_size, ioac, moved>>
         /\ calls' = [calls EXCEPT ![t] = @ + 1]
         /\ \E r \in Int : call' = [call EXCEPT ![t] = [NoCall EXCEPT !.ret = r]]
         /\ \/ UNCHANGED f_pos
            \/ \E f \in File, p \in Nat : /\ Has(f, "ATOMIC_POS") => pos_lock[f] = NULL
                                          /\ f_pos' = [f_pos EXCEPT ![f] = p]
<1>1. PICK f \in Fd, off \in Offsets, whence \in {"SET", "CUR", "END", "DATA", "HOLE", "BAD"} :
      Lseek(t, f, off, whence)
  BY DEF SeekCall
<1>2. /\ call[t].stage = "idle" /\ UNCHANGED <<pos_lock, i_size, ioac, moved>>
      /\ calls' = [calls EXCEPT ![t] = @ + 1]
  BY <1>1 DEF Lseek, Ready, CountCall
<1> DEFINE s == IF f = NULL THEN Seek(0, EBADF)
                ELSE IF whence = "BAD" THEN Seek(f_pos[f], EINVAL)
                ELSE IF ~ Has(f, "LSEEK") THEN Seek(f_pos[f], ESPIPE)
                ELSE Llseek(f, off, whence)
<1>3. /\ call' = [call EXCEPT ![t] = [NoCall EXCEPT !.ret = s.ret]]
      /\ f = NULL => UNCHANGED f_pos
      /\ f # NULL => /\ Has(f, "ATOMIC_POS") => pos_lock[f] = NULL
                     /\ f_pos' = [f_pos EXCEPT ![f] = s.pos]
  BY <1>1 DEF Lseek
<1>4. SeekOK(s)
  <2>1. CASE f = NULL
    <3>1. EBADF \in Int
      BY DEF EBADF
    <3> QED BY <2>1, <3>1, SeekTo DEF SeekOK
  <2>2. CASE f # NULL
    <3>1. f \in File /\ TypeOK /\ off \in Int
      BY <2>2, FileAssumption DEF Fd, CallInv
    <3>2. f_pos[f] \in Nat /\ EINVAL \in Int /\ ESPIPE \in Int
      BY <3>1 DEF TypeOK, EINVAL, ESPIPE
    <3>3. SeekOK(Seek(f_pos[f], EINVAL)) /\ SeekOK(Seek(f_pos[f], ESPIPE))
      BY <3>2, SeekTo DEF SeekOK
    <3>4. whence # "BAD" => SeekOK(Llseek(f, off, whence))
      BY <3>1, LlseekOK
    <3> QED BY <2>2, <3>3, <3>4
  <2> QED BY <2>1, <2>2
<1> HIDE DEF s
<1> QED BY Zenon, <1>2, <1>3, <1>4 DEF SeekOK, Fd

-----------------------------------------------------------------------------
LEMMA PosOps == \A op \in Positional : op \in RwOps \ Unlocked /\ op # "sendfile" /\ op # "copy_file_range"
  BY DEF Positional, RwOps, Readers, Writers, Unlocked

LEMMA OpKinds == \A op \in RwOps : (op \in Readers => op \notin Writers)
  /\ (op \in Unlocked => op \notin Readers /\ op \notin Writers)
  BY DEF RwOps, Readers, Writers, Unlocked

\* The frame with the position of the file.
AtPos(fr, at) == IF fr.op \in Readers THEN [fr EXCEPT !.pos = at] ELSE [fr EXCEPT !.out_pos = at]

LEMMA AtPosFields ==
  ASSUME NEW fr \in Frame, NEW at \in Nat, NEW g, g = AtPos(fr, at)
  PROVE  /\ g \in Frame /\ g.op = fr.op /\ g.in = fr.in /\ g.out = fr.out /\ g.done = fr.done /\ g.count = fr.count
         /\ g.pos \in {at, fr.pos} /\ g.out_pos \in {at, fr.out_pos} /\ TheFile(g) = TheFile(fr)
  BY DEF AtPos, Frame, TheFile

LEMMA ZeroCountFields ==
  ASSUME NEW fr \in Frame, NEW g, g = [fr EXCEPT !.count = 0]
  PROVE  /\ g \in Frame /\ g.op = fr.op /\ g.in = fr.in /\ g.out = fr.out /\ g.done = fr.done
         /\ g.pos = fr.pos /\ g.out_pos = fr.out_pos /\ g.max = fr.max /\ g.user = fr.user
  BY DEF Frame

\* fdget_pos(): the position lock, the position and the checks.
LEMMA FdgetEffect ==
  ASSUME CallInv, NEW t \in Task, NEW env, FdgetPos(t, env), NEW f, f = TheFile(call[t])
  PROVE  /\ call[t].stage = "lock" /\ f \in File /\ UNCHANGED <<f_pos, i_size, ioac, moved, calls>>
         /\ IF Has(f, "ATOMIC_POS") THEN pos_lock[f] = NULL /\ pos_lock' = [pos_lock EXCEPT ![f] = t]
                                    ELSE UNCHANGED pos_lock
         /\ \E g : /\ CallOK(g) /\ g.done = 0 /\ Paired(g.todo) /\ TheFile(g) = f /\ g.stage # "idle"
                   /\ call' = [call EXCEPT ![t] = g]
<1>1. PICK h : h = call[t]
  OBVIOUS
<1>2. h \in Frame /\ h.stage = "lock" /\ LockOK(h) /\ TypeOK
  BY <1>1 DEF CallInv, CallOK, FdgetPos
<1>3. /\ h.done = 0 /\ h.op \in Positional /\ h.op \in RwOps \ Unlocked /\ h.op # "sendfile"
      /\ h.op # "copy_file_range"
      /\ Sides(h) /\ h.pos = 0 /\ h.out_pos = 0
  BY <1>2, PosOps DEF LockOK
<1>4. f \in File
  BY <1>1, <1>3, Zenon DEF TheFile, Sides, RwOps
<1>5. PICK at : at = IF Stream(f) THEN 0 ELSE f_pos[f]
  OBVIOUS
<1>6. at \in Nat
  BY <1>2, <1>4, <1>5 DEF TypeOK
<1>7. PICK fr : fr = AtPos(h, at)
  OBVIOUS
<1>8. /\ fr \in Frame /\ fr.op = h.op /\ fr.in = h.in /\ fr.out = h.out /\ fr.done = h.done /\ fr.count = h.count
      /\ fr.pos \in {at, h.pos} /\ fr.out_pos \in {at, h.out_pos} /\ TheFile(fr) = TheFile(h)
  BY <1>2, <1>6, <1>7, AtPosFields, Zenon
<1>9. fr.pos >= 0 /\ fr.out_pos >= 0 /\ fr.done = 0
  BY <1>3, <1>6, <1>8
<1>10. Sides(fr)
  BY <1>3, <1>8 DEF Sides
<1>11. PICK err : err = RwCheck(fr.op, f, at, fr.count, env)
  OBVIOUS
<1>12. err \in Int /\ err <= 0
  BY <1>11, RwCheckType
<1>13. \/ Stop(t, [fr EXCEPT !.count = 0], err, Early(fr.op))
       \/ Proceed(t, fr)
  BY <1>1, <1>5, <1>7, <1>11 DEF FdgetPos, AtPos
<1>14. /\ UNCHANGED <<f_pos, i_size, ioac, moved, calls>>
       /\ IF Has(f, "ATOMIC_POS") THEN pos_lock[f] = NULL /\ pos_lock' = [pos_lock EXCEPT ![f] = t]
                                  ELSE UNCHANGED pos_lock
  BY DEF FdgetPos
<1> DEFINE Goal == \E g : /\ CallOK(g) /\ g.done = 0 /\ Paired(g.todo) /\ TheFile(g) = f /\ g.stage # "idle"
                          /\ call' = [call EXCEPT ![t] = g]
<1>15. ASSUME Stop(t, [fr EXCEPT !.count = 0], err, Early(fr.op)) PROVE Goal
  <2>1. PICK z : z = [fr EXCEPT !.count = 0]
    BY Zenon
  <2>2. /\ z \in Frame /\ z.op = fr.op /\ z.in = fr.in /\ z.out = fr.out /\ z.done = fr.done
        /\ z.pos = fr.pos /\ z.out_pos = fr.out_pos
    BY <1>8, <2>1, ZeroCountFields, Zenon
  <2>3. Sides(z)
    BY <1>10, <2>2 DEF Sides
  <2>4. PICK g : g = Stopped(z, err, Early(z.op))
    OBVIOUS
  <2>5. TodoOK(Early(z.op), z.op) /\ Paired(Early(z.op)) /\ z.op \in RwOps
    BY <1>3, <1>8, <2>2, EarlyOK
  <2>6. Early(z.op) \in Seq(Steps)
    BY <2>5 DEF TodoOK
  <2>7. g.stage = "finish" /\ g.todo = Early(z.op) /\ g.op = z.op /\ g.in = z.in /\ g.out = z.out /\ g.done = z.done
    BY <1>12, <2>2, <2>4, <2>6, StoppedFields
  <2>8. z.done = 0 /\ z.pos >= 0 /\ z.out_pos >= 0
    BY <1>9, <2>2
  <2>9. CallOK(g)
    BY <1>12, <2>2, <2>3, <2>4, <2>5, <2>8, StoppedOK, Zenon
  <2>10. call' = [call EXCEPT ![t] = g]
    BY <1>15, <2>1, <2>2, <2>4 DEF Stop, Stopped
  <2>11. TheFile(g) = f
    BY <1>1, <1>8, <2>2, <2>7 DEF TheFile
  <2>12. g.done = 0 /\ g.stage # "idle" /\ Paired(g.todo)
    BY <2>5, <2>7, <2>8
  <2> QED BY Zenon, <2>9, <2>10, <2>11, <2>12
<1>16. ASSUME Proceed(t, fr) PROVE Goal
  <2>1. PICK g : g = Going(fr)
    OBVIOUS
  <2>2. g.stage = "xfer" /\ g.todo = After(fr.op) /\ g.op = fr.op /\ g.in = fr.in /\ g.out = fr.out
        /\ g.done = fr.done
    BY <1>3, <1>8, <2>1, GoingFields
  <2>3. CallOK(g)
    BY <1>3, <1>8, <1>9, <1>10, <2>1, GoingOK
  <2>4. call' = [call EXCEPT ![t] = g]
    BY <1>16, <2>1 DEF Proceed, Going
  <2>5. TheFile(g) = f
    BY <1>1, <1>8, <2>2 DEF TheFile
  <2>6. Paired(g.todo)
    BY <1>3, <1>8, <2>2, AfterPaired
  <2>7. g.done = 0 /\ g.stage # "idle"
    BY <1>9, <2>2
  <2> QED BY Zenon, <2>3, <2>4, <2>5, <2>6, <2>7
<1>17. Goal
  BY <1>13, <1>15, <1>16
<1>18. call[t].stage = "lock"
  BY <1>1, <1>2
<1> QED BY Zenon, <1>4, <1>14, <1>17, <1>18

-----------------------------------------------------------------------------
Room(fr) == IF fr.out = NULL \/ (fr.out # NULL /\ Stream(fr.out))
              THEN [err |-> 0, pos |-> fr.out_pos, count |-> fr.count]
              ELSE WriteChecks(fr.out, fr.out_pos, fr.count)
Avail(fr, w) == IF fr.in = NULL THEN w.count
                ELSE IF Stream(fr.in) THEN w.count
                ELSE MinOf(w.count, MaxOf(0, Size(fr.in) - fr.pos))
Within(f, e) == /\ e <= IF Has(f, "LARGEFILE") THEN MaxBytes ELSE MaxNonLfs
                /\ FsizeLimit # NULL => e <= FsizeLimit

\* What a transfer may move.
LEMMA RoomOK ==
  ASSUME TypeOK, NEW fr \in Frame, XferOK(fr), NEW w, w = Room(fr)
  PROVE  /\ w.err \in Int /\ w.err <= 0 /\ w.pos \in Nat /\ w.count \in Int /\ (w.err = 0 => w.count <= fr.count)
         /\ fr.out # NULL /\ ~ Stream(fr.out) /\ w.err = 0 /\ w.count > 0 => Within(fr.out, w.pos + w.count)
<1>1. fr.out_pos \in Nat /\ fr.count \in Int /\ fr.out \in Fd
  BY DEF XferOK, Frame
<1>2. CASE fr.out = NULL \/ Stream(fr.out)
  <2>1. w.err = 0 /\ w.pos = fr.out_pos /\ w.count = fr.count
    BY <1>2 DEF Room
  <2> QED BY <1>1, <1>2, <2>1
<1>3. CASE fr.out # NULL /\ ~ Stream(fr.out)
  <2>1. w = WriteChecks(fr.out, fr.out_pos, fr.count) /\ fr.out \in File
    BY <1>1, <1>3 DEF Room, Fd
  <2> QED BY <1>1, <2>1, WriteChecksProp DEF Within
<1> QED BY <1>2, <1>3

LEMMA AvailOK ==
  ASSUME TypeOK, NEW fr \in Frame, NEW w, w.count \in Int
  PROVE  Avail(fr, w) \in Int /\ Avail(fr, w) <= w.count
<1>1. CASE fr.in = NULL \/ Stream(fr.in)
  BY <1>1 DEF Avail
<1>2. CASE fr.in # NULL /\ ~ Stream(fr.in)
  <2>1. fr.in \in File /\ fr.pos \in Int
    BY <1>2 DEF Frame, Fd
  <2>2. Size(fr.in) - fr.pos \in Int
    BY <2>1, SizeType
  <2>3. MaxOf(0, Size(fr.in) - fr.pos) \in Int
    BY <2>2, MinMaxType
  <2> QED BY Zenon, <1>2, <2>3, MinMaxType DEF Avail
<1> QED BY <1>1, <1>2

\* The frame after a transfer.
Ran(fr, k, p) == [fr EXCEPT !.done = k, !.count = 0,
                            !.pos = IF fr.in = NULL THEN @ ELSE @ + k,
                            !.out_pos = IF fr.out = NULL THEN @ ELSE IF Stream(fr.out) THEN @ ELSE p]

Moved(fr, k) == [fr EXCEPT !.done = k, !.count = 0]

LEMMA DoneFields ==
  ASSUME NEW fr \in Frame, NEW k \in Nat, NEW m, m = Moved(fr, k)
  PROVE  /\ m \in Frame /\ m.op = fr.op /\ m.in = fr.in /\ m.out = fr.out /\ m.done = k
         /\ m.max = fr.max /\ m.user = fr.user /\ m.pos = fr.pos /\ m.out_pos = fr.out_pos
<1>1. PICK z : z = [fr EXCEPT !.count = 0]
  BY Zenon
<1>2. /\ z \in Frame /\ z.op = fr.op /\ z.in = fr.in /\ z.out = fr.out
      /\ z.pos = fr.pos /\ z.out_pos = fr.out_pos /\ z.max = fr.max /\ z.user = fr.user
  BY <1>1, ZeroCountFields
<1>3. m = [z EXCEPT !.done = k]
  BY Zenon, <1>1, <1>2 DEF Frame, Moved
<1>4. /\ m \in Frame /\ m.op = z.op /\ m.in = z.in /\ m.out = z.out /\ m.done = k
      /\ m.max = z.max /\ m.user = z.user /\ m.pos = z.pos /\ m.out_pos = z.out_pos
  BY Zenon, <1>2, <1>3 DEF Frame
<1> QED BY <1>2, <1>4

LEMMA RanFields ==
  ASSUME NEW fr \in Frame, NEW k \in Nat, NEW p \in Nat, NEW g, g = Ran(fr, k, p)
  PROVE  /\ g \in Frame /\ g.op = fr.op /\ g.in = fr.in /\ g.out = fr.out /\ g.done = k
         /\ g.max = fr.max /\ g.user = fr.user
         /\ g.pos \in {fr.pos, fr.pos + k} /\ g.out_pos \in {fr.out_pos, p}
<1>1. fr.pos \in Int /\ fr.out_pos \in Int /\ p \in Int
  BY DEF Frame
<1>2. PICK a : a = IF fr.in = NULL THEN fr.pos ELSE fr.pos + k
  OBVIOUS
<1>3. PICK b : b = IF fr.out = NULL THEN fr.out_pos ELSE IF Stream(fr.out) THEN fr.out_pos ELSE p
  OBVIOUS
<1>4. a \in Int /\ b \in Int /\ a \in {fr.pos, fr.pos + k} /\ b \in {fr.out_pos, p}
  BY <1>1, <1>2, <1>3
<1>5. g = [fr EXCEPT !.done = k, !.count = 0, !.pos = a, !.out_pos = b]
  BY <1>2, <1>3 DEF Ran
<1>6. PICK m : m = Moved(fr, k)
  OBVIOUS
<1>7. /\ m \in Frame /\ m.op = fr.op /\ m.in = fr.in /\ m.out = fr.out /\ m.done = k
      /\ m.max = fr.max /\ m.user = fr.user
  BY <1>6, DoneFields
<1>8. g = [m EXCEPT !.pos = a, !.out_pos = b]
  BY <1>5, <1>6 DEF Frame, Moved
<1>9. /\ g \in Frame /\ g.op = m.op /\ g.in = m.in /\ g.out = m.out /\ g.done = m.done
      /\ g.max = m.max /\ g.user = m.user /\ g.pos = a /\ g.out_pos = b
  BY Zenon, <1>4, <1>7, <1>8 DEF Frame
<1> QED BY <1>4, <1>7, <1>9

\* The frame of a transfer that moved k bytes.
LEMMA RanOK ==
  ASSUME NEW fr \in Frame, XferOK(fr), NEW k \in Nat, k <= fr.count \/ k = 0, NEW p \in Nat,
         NEW g, g = Stopped(Ran(fr, k, p), k, fr.todo)
  PROVE  /\ CallOK(g) /\ g.stage = "finish" /\ g.todo = fr.todo /\ g.op = fr.op /\ g.in = fr.in /\ g.out = fr.out
         /\ g.done = k
<1>1. PICK h : h = Ran(fr, k, p)
  OBVIOUS
<1>2. /\ h \in Frame /\ h.op = fr.op /\ h.in = fr.in /\ h.out = fr.out /\ h.done = k
      /\ h.max = fr.max /\ h.user = fr.user
      /\ h.pos \in {fr.pos, fr.pos + k} /\ h.out_pos \in {fr.out_pos, p}
  BY <1>1, RanFields
<1>3. /\ fr.op \in RwOps /\ fr.todo = After(fr.op) /\ fr.todo \in Seq(Steps) /\ TodoOK(fr.todo, fr.op) /\ Sides(fr)
      /\ fr.pos \in Int /\ fr.out_pos \in Int /\ fr.pos >= 0 /\ fr.out_pos >= 0 /\ fr.count \in Int
  BY Zenon, AfterOK DEF XferOK, TodoOK, Frame
<1>4. k \in Int /\ MaxRw \in Nat /\ fr.count <= MaxRw
  BY FileAssumption DEF XferOK
<1>5. /\ g \in Frame /\ g.stage = "finish" /\ g.ret = k /\ g.todo = fr.todo
      /\ g.op = h.op /\ g.in = h.in /\ g.out = h.out /\ g.pos = h.pos /\ g.out_pos = h.out_pos
      /\ g.max = h.max /\ g.user = h.user /\ g.done = h.done
  BY <1>1, <1>2, <1>3, <1>4, StoppedFields
<1>6. g.op = fr.op /\ g.in = fr.in /\ g.out = fr.out /\ g.done = k
  BY <1>2, <1>5
<1>7. g.pos >= 0 /\ g.out_pos >= 0 /\ g.done <= MaxRw /\ MaxOf(0, g.ret) = g.done /\ g.ret = g.done
  BY <1>2, <1>3, <1>4, <1>5, <1>6 DEF MaxOf
<1>8. Sides(g)
  BY <1>3, <1>6 DEF Sides
<1>9. g.op = "sendfile" /\ g.done > 0 => g.max \in Int /\ g.pos <= g.max
  <2>1. SUFFICES ASSUME fr.op = "sendfile", k > 0 PROVE g.max \in Int /\ g.pos <= g.max
    BY <1>6
  <2>2. fr.max \in Int /\ fr.pos + fr.count <= fr.max
    BY <2>1 DEF XferOK
  <2>3. g.max = fr.max /\ g.pos \in {fr.pos, fr.pos + k}
    BY <1>2, <1>5
  <2> QED BY <1>3, <2>1, <2>2, <2>3
<1>10. FinishOK(g)
  BY <1>3, <1>5, <1>6, <1>7, <1>8, <1>9, Zenon DEF FinishOK
<1>11. CallOK(g)
  BY <1>5, <1>10 DEF CallOK
<1> QED BY <1>5, <1>6, <1>11

-----------------------------------------------------------------------------
Bytes == [read : Nat, written : Nat]

\* The history of the bytes of a transfer of k bytes by t.
Moves(t, fr, k) ==
  /\ moved' \in [Task -> Bytes] /\ \A u \in Task : u # t => moved'[u] = moved[u]
  /\ moved'[t].read = moved[t].read + (IF fr.in # NULL THEN k ELSE 0)
  /\ moved'[t].written = moved[t].written + (IF fr.out # NULL THEN k ELSE 0)

\* The size of the file written to grows, within the limits.
Grows(fr) == \/ UNCHANGED i_size
             \/ \E e \in Nat : /\ fr.out \in File /\ Within(fr.out, e)
                               /\ i_size' = [i_size EXCEPT ![Attr[fr.out].inode] = MaxOf(@, e)]

LEMMA StillMoves ==
  ASSUME TypeOK, NEW t \in Task, NEW fr, UNCHANGED moved
  PROVE  Moves(t, fr, 0)
<1>1. moved' \in [Task -> Bytes] /\ moved' = moved /\ moved[t] \in Bytes
  BY DEF TypeOK, Bytes
<1>2. moved[t].read \in Nat /\ moved[t].written \in Nat
  BY <1>1 DEF Bytes
<1> QED BY <1>1, <1>2 DEF Moves

LEMMA AddMoves ==
  ASSUME TypeOK, NEW t \in Task, NEW fr, NEW k \in Nat,
         moved' = [moved EXCEPT ![t] = [read |-> @.read + (IF fr.in # NULL THEN k ELSE 0),
                                        written |-> @.written + (IF fr.out # NULL THEN k ELSE 0)]]
  PROVE  Moves(t, fr, k)
<1> DEFINE a == moved[t].read + (IF fr.in # NULL THEN k ELSE 0)
           b == moved[t].written + (IF fr.out # NULL THEN k ELSE 0)
<1>1. moved \in [Task -> Bytes] /\ moved[t].read \in Nat /\ moved[t].written \in Nat
  BY DEF TypeOK, Bytes
<1>2. moved' = [moved EXCEPT ![t] = [read |-> a, written |-> b]]
  OBVIOUS
<1>3. a \in Nat /\ b \in Nat
  BY <1>1
<1> HIDE DEF a, b
<1>4. [read |-> a, written |-> b] \in Bytes
  BY <1>3 DEF Bytes
<1>5. /\ moved' \in [Task -> Bytes] /\ \A u \in Task : u # t => moved'[u] = moved[u]
      /\ moved'[t] = [read |-> a, written |-> b]
  BY <1>1, <1>2, <1>4
<1>6. moved'[t].read = a /\ moved'[t].written = b
  BY <1>5
<1> QED BY <1>5, <1>6 DEF Moves, a, b

\* The transfer: t moves k bytes.
LEMMA TransferEffect ==
  ASSUME CallInv, NEW t \in Task, Transfer(t), NEW fr, fr = call[t]
  PROVE  /\ fr.stage = "xfer" /\ XferOK(fr) /\ UNCHANGED <<f_pos, pos_lock, ioac, calls>> /\ Grows(fr)
         /\ \E g : /\ CallOK(g) /\ g.stage = "finish" /\ g.todo = fr.todo /\ g.op = fr.op /\ g.in = fr.in
                   /\ g.out = fr.out /\ g.done \in Nat /\ Moves(t, fr, g.done)
                   /\ call' = [call EXCEPT ![t] = g]
<1>1. TypeOK /\ fr \in Frame /\ fr.stage = "xfer" /\ XferOK(fr)
  BY Zenon DEF CallInv, CallOK, Transfer
<1>2. PICK w : w = Room(fr)
  OBVIOUS
<1>3. /\ w.err \in Int /\ w.err <= 0 /\ w.pos \in Nat /\ w.count \in Int /\ (w.err = 0 => w.count <= fr.count)
      /\ fr.out # NULL /\ ~ Stream(fr.out) /\ w.err = 0 /\ w.count > 0 => Within(fr.out, w.pos + w.count)
  BY <1>1, <1>2, RoomOK
<1>4. PICK av : av = Avail(fr, w)
  OBVIOUS
<1>5. av \in Int /\ av <= w.count
  BY <1>1, <1>3, <1>4, AvailOK
<1>6. UNCHANGED <<f_pos, pos_lock, ioac, calls>>
  BY Zenon DEF Transfer
<1> DEFINE Goal == /\ Grows(fr)
                   /\ \E g : /\ CallOK(g) /\ g.stage = "finish" /\ g.todo = fr.todo /\ g.op = fr.op /\ g.in = fr.in
                             /\ g.out = fr.out /\ g.done \in Nat /\ Moves(t, fr, g.done)
                             /\ call' = [call EXCEPT ![t] = g]
<1>7. ASSUME NEW e \in Int, e <= 0, Stop(t, [fr EXCEPT !.count = 0], e, fr.todo), UNCHANGED <<i_size, moved>>
      PROVE  Goal
  <2>1. PICK z : z = [fr EXCEPT !.count = 0]
    BY Zenon
  <2>2. /\ z \in Frame /\ z.op = fr.op /\ z.in = fr.in /\ z.out = fr.out /\ z.done = fr.done
        /\ z.pos = fr.pos /\ z.out_pos = fr.out_pos
    BY <1>1, <2>1, ZeroCountFields
  <2>3. /\ fr.op \in RwOps /\ TodoOK(fr.todo, fr.op) /\ fr.done = 0 /\ Sides(fr) /\ fr.pos >= 0 /\ fr.out_pos >= 0
        /\ fr.todo \in Seq(Steps)
    BY <1>1, AfterOK DEF XferOK, TodoOK
  <2>4. PICK g : g = Stopped(z, e, fr.todo)
    OBVIOUS
  <2>5. Sides(z) /\ z.op \in RwOps /\ z.done = 0 /\ z.pos >= 0 /\ z.out_pos >= 0 /\ TodoOK(fr.todo, z.op)
    BY <2>2, <2>3 DEF Sides
  <2>6. CallOK(g)
    BY <1>7, <2>2, <2>4, <2>5, StoppedOK
  <2>7. g.stage = "finish" /\ g.todo = fr.todo /\ g.op = fr.op /\ g.in = fr.in /\ g.out = fr.out /\ g.done = 0
    BY <2>2, <2>3, <2>4, StoppedFields
  <2>8. call' = [call EXCEPT ![t] = g]
    BY <1>7, <2>1, <2>4 DEF Stop, Stopped
  <2>9. Moves(t, fr, g.done)
    BY <1>1, <1>7, <2>7, StillMoves
  <2>10. Grows(fr)
    BY <1>7 DEF Grows
  <2>11. g.done \in Nat
    BY <2>7
  <2> QED BY Zenon, <2>6, <2>7, <2>8, <2>9, <2>10, <2>11
<1>12. fr.count \in Int
  BY <1>1 DEF Frame
<1>13. w.err = 0 => \A k \in IF av = 0 THEN {0} ELSE 1..av :
         k \in Nat /\ (k <= fr.count \/ k = 0) /\ w.pos + k \in Nat /\ (k <= w.count \/ k = 0)
  BY <1>3, <1>5, <1>12
<1>8. ASSUME w.err = 0, NEW k \in IF av = 0 THEN {0} ELSE 1..av, Stop(t, Ran(fr, k, w.pos + k), k, fr.todo),
             i_size' = IF fr.out # NULL /\ k > 0
                            THEN IF Stream(fr.out) THEN i_size
                                 ELSE [i_size EXCEPT ![Attr[fr.out].inode] = MaxOf(@, w.pos + k)]
                            ELSE i_size,
             moved' = [moved EXCEPT ![t] =
                  [read |-> @.read + (IF fr.in # NULL THEN k ELSE 0),
                   written |-> @.written + (IF fr.out # NULL THEN k ELSE 0)]]
      PROVE  Goal
  <2>1. w.err = 0
    BY <1>8
  <2>2. k \in Nat /\ (k <= fr.count \/ k = 0) /\ w.pos + k \in Nat /\ (k <= w.count \/ k = 0)
    BY <1>13, <2>1
  <2>20. PICK p : p = w.pos + k
    OBVIOUS
  <2>21. p \in Nat /\ k \in Nat /\ (k <= fr.count \/ k = 0)
    BY <2>2, <2>20
  <2>3. PICK g : g = Stopped(Ran(fr, k, p), k, fr.todo)
    OBVIOUS
  <2>4. /\ CallOK(g) /\ g.stage = "finish" /\ g.todo = fr.todo /\ g.op = fr.op /\ g.in = fr.in /\ g.out = fr.out
        /\ g.done = k
    BY <1>1, <2>21, <2>3, RanOK
  <2>5. call' = [call EXCEPT ![t] = g]
    BY <1>8, <2>3, <2>20 DEF Stop, Stopped
  <2>6. Moves(t, fr, k)
    BY Zenon, <1>1, <1>8, <2>2, AddMoves
  <2>7. Grows(fr)
    <3>1. CASE fr.out # NULL /\ k > 0 /\ ~ Stream(fr.out)
      <4>1. fr.out \in File
        BY <1>1, <3>1 DEF Frame, Fd
      <4>2. w.count > 0 /\ k <= w.count /\ MaxBytes \in Int /\ MaxNonLfs \in Int
            /\ (FsizeLimit # NULL => FsizeLimit \in Int)
        BY <1>3, <2>2, <3>1, FileAssumption
      <4>3. Within(fr.out, w.pos + k)
        BY <1>3, <2>1, <2>2, <3>1, <4>2 DEF Within
      <4>4. i_size' = [i_size EXCEPT ![Attr[fr.out].inode] = MaxOf(@, w.pos + k)]
        BY Zenon, <1>8, <3>1
      <4> QED BY Zenon, <2>2, <4>1, <4>3, <4>4 DEF Grows
    <3>2. CASE ~ (fr.out # NULL /\ k > 0 /\ ~ Stream(fr.out))
      BY Zenon, <1>8, <3>2 DEF Grows
    <3> QED BY <3>1, <3>2
  <2>8. g.done \in Nat /\ Moves(t, fr, g.done)
    BY <2>2, <2>4, <2>6
  <2> QED BY Zenon, <2>4, <2>5, <2>7, <2>8
<1>9. \/ /\ w.err # 0 /\ Stop(t, [fr EXCEPT !.count = 0], w.err, fr.todo) /\ UNCHANGED <<i_size, moved>>
      \/ /\ Stop(t, [fr EXCEPT !.count = 0], EIO, fr.todo) /\ UNCHANGED <<i_size, moved>>
      \/ /\ w.err = 0
         /\ \E k \in IF av = 0 THEN {0} ELSE 1..av :
             /\ Stop(t, Ran(fr, k, w.pos + k), k, fr.todo)
             /\ i_size' = IF fr.out # NULL /\ k > 0
                            THEN IF Stream(fr.out) THEN i_size
                                 ELSE [i_size EXCEPT ![Attr[fr.out].inode] = MaxOf(@, w.pos + k)]
                            ELSE i_size
             /\ moved' = [moved EXCEPT ![t] =
                  [read |-> @.read + (IF fr.in # NULL THEN k ELSE 0),
                   written |-> @.written + (IF fr.out # NULL THEN k ELSE 0)]]
  BY <1>2, <1>4, ZenonT(30) DEF Transfer, Room, Avail, Ran
<1>10. EIO \in Int /\ EIO <= 0
  BY DEF EIO
<1> HIDE DEF Goal
<1>11. Goal
  BY <1>3, <1>7, <1>8, <1>9, <1>10, Zenon
<1> QED BY Zenon, <1>1, <1>6, <1>11 DEF Goal
=============================================================================
