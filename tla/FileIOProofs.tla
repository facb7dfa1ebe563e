---------------------------- MODULE FileIOProofs ----------------------------
(***************************************************************************)
(* Proofs about FileIO and IoThrottle, for any tasks, files, readers and   *)
(* limits.                                                                 *)
(*                                                                         *)
(* IoInv adds to the account what a call relies on between its steps:      *)
(* which of its steps are still to come (CallInv), who has the lock of a   *)
(* position (LockInv), and that a transfer moves at most MAX_RW_COUNT      *)
(* bytes for each call that is counted or will be (RateInv).  ThrottleInv  *)
(* adds what a reader of the counters has copied so far (ReadersInv).      *)
(***************************************************************************)
EXTENDS IoThrottle, FileIOLemmas

\* The time that a leaf may take.
USE ZenonT(10), SMTT(20)

Counters == {"rchar", "wchar", "syscr", "syscw"}

\* The counter c of t grows by k.
Counted(t, c, k) ==
  /\ ioac' \in [Task -> Account] /\ \A u \in Task : u # t => ioac'[u] = ioac[u]
  /\ ioac'[t][c] = ioac[t][c] + k /\ \A d \in Counters : d # c => ioac'[t][d] = ioac[t][d]

SetTo(a, c, n) == [a EXCEPT ![c] = n]

SetOK(b, a, c, n) == b \in Account /\ b[c] = n /\ \A d \in Counters : d # c => b[d] = a[d]

LEMMA AccountSets == \A a \in Account, c \in Counters, n \in Nat : a[c] \in Nat /\ SetOK(SetTo(a, c, n), a, c, n)
<1> TAKE a \in Account, c \in Counters, n \in Nat
<1>1. CASE c = "rchar"
  BY <1>1 DEF Account, Counters, SetTo, SetOK
<1>2. CASE c = "wchar"
  BY <1>2 DEF Account, Counters, SetTo, SetOK
<1>3. CASE c = "syscr"
  BY <1>3 DEF Account, Counters, SetTo, SetOK
<1>4. CASE c = "syscw"
  BY <1>4 DEF Account, Counters, SetTo, SetOK
<1> QED BY <1>1, <1>2, <1>3, <1>4 DEF Counters

LEMMA CountedOK ==
  ASSUME TypeOK, NEW t \in Task, NEW c \in Counters, NEW k \in Nat,
         ioac' = [ioac EXCEPT ![t][c] = @ + k]
  PROVE  Counted(t, c, k)
<1>1. PICK a : a = ioac[t]
  OBVIOUS
<1>2. ioac \in [Task -> Account] /\ a \in Account
  BY <1>1 DEF TypeOK
<1>3. PICK n : n = a[c] + k
  OBVIOUS
<1>5. a[c] \in Nat
  BY <1>2, AccountSets
<1>6. n \in Nat
  BY <1>3, <1>5
<1>7. PICK b : b = SetTo(a, c, n)
  OBVIOUS
<1>8. b \in Account /\ b[c] = n /\ \A d \in Counters : d # c => b[d] = a[d]
  <2>1. SetOK(b, a, c, n)
    BY <1>2, <1>6, <1>7, AccountSets
  <2> QED BY <2>1 DEF SetOK
<1>9. ioac' = [ioac EXCEPT ![t] = b]
  BY <1>1, <1>3, <1>7 DEF SetTo
<1>10. ioac' \in [Task -> Account] /\ ioac'[t] = b /\ \A u \in Task : u # t => ioac'[u] = ioac[u]
  BY <1>2, <1>8, <1>9
<1> QED BY <1>1, <1>3, <1>8, <1>10 DEF Counted

Popped(fr) == [fr EXCEPT !.todo = Tail(@)]

LEMMA PoppedFields ==
  ASSUME NEW fr \in Frame, fr.todo # <<>>, NEW g, g = Popped(fr)
  PROVE  /\ g \in Frame /\ g.stage = fr.stage /\ g.ret = fr.ret /\ g.todo = Tail(fr.todo)
         /\ g.op = fr.op /\ g.in = fr.in /\ g.out = fr.out /\ g.pos = fr.pos /\ g.out_pos = fr.out_pos
         /\ g.max = fr.max /\ g.user = fr.user /\ g.done = fr.done
<1>1. Tail(fr.todo) \in Seq(Steps)
  BY DEF Frame
<1>2. g \in Frame /\ g.todo = Tail(fr.todo)
  BY <1>1 DEF Popped, Frame
<1>3. g.stage = fr.stage /\ g.ret = fr.ret /\ g.op = fr.op /\ g.in = fr.in /\ g.out = fr.out
  BY DEF Popped, Frame
<1>4. g.pos = fr.pos /\ g.out_pos = fr.out_pos /\ g.max = fr.max /\ g.user = fr.user /\ g.done = fr.done
  BY DEF Popped, Frame
<1> QED BY <1>2, <1>3, <1>4

LEMMA FaultFields ==
  ASSUME NEW fr \in Frame, NEW g, g = [fr EXCEPT !.ret = EFAULT]
  PROVE  /\ g \in Frame /\ g.stage = fr.stage /\ g.ret = EFAULT /\ g.todo = fr.todo
         /\ g.op = fr.op /\ g.in = fr.in /\ g.out = fr.out /\ g.pos = fr.pos /\ g.out_pos = fr.out_pos
         /\ g.max = fr.max /\ g.user = fr.user /\ g.done = fr.done
  BY DEF Frame, EFAULT

\* What is known of a call that is about to do s.
LEMMA DueFacts ==
  ASSUME CallInv, NEW t \in Task, NEW s, Due(t, s), NEW fr, fr = call[t]
  PROVE  /\ fr \in Frame /\ fr.stage = "finish" /\ FinishOK(fr) /\ fr.todo # <<>> /\ Head(fr.todo) = s
         /\ s \in Pend(fr.todo) /\ Belongs(s, fr.op) /\ TodoOK(fr.todo, fr.op) /\ fr.op \in RwOps
<1>1. fr \in Frame /\ fr.stage = "finish" /\ FinishOK(fr) /\ fr.todo # <<>> /\ Head(fr.todo) = s
  BY DEF CallInv, CallOK, Due
<1>2. TodoOK(fr.todo, fr.op) /\ fr.op \in RwOps
  BY <1>1 DEF FinishOK
<1>3. s \in Pend(fr.todo)
  BY <1>1, <1>2, PopOK
<1>4. Belongs(s, fr.op)
  BY <1>2, <1>3 DEF TodoOK
<1> QED BY <1>1, <1>2, <1>3, <1>4

\* A step of the end of a call.
Follows(g, fr) ==
  /\ CallOK(g) /\ g.stage = "finish" /\ g.op = fr.op /\ g.in = fr.in /\ g.out = fr.out /\ g.done = fr.done
  /\ g.todo = Tail(fr.todo) /\ TodoOK(g.todo, fr.op) /\ Pend(g.todo) = Pend(fr.todo) \ {Head(fr.todo)}
  /\ g # fr

LEMMA PoppedFinish ==
  ASSUME NEW fr \in Frame, FinishOK(fr), fr.todo # <<>>, NEW g \in Frame, g.op = fr.op, g.in = fr.in,
    g.out = fr.out,
         g.pos = fr.pos, g.out_pos = fr.out_pos, g.max = fr.max, g.user = fr.user, g.done = fr.done,
           g.todo = Tail(fr.todo),
         g.stage = "finish",
         g.ret = fr.ret \/ (g.ret = EFAULT /\ fr.user # {} /\ Head(fr.todo) \in Stores)
  PROVE  Follows(g, fr)
<1>1. TodoOK(fr.todo, fr.op) /\ fr.op \in RwOps /\ fr.done \in Nat
  BY DEF FinishOK, Frame
<1>2. /\ TodoOK(g.todo, fr.op) /\ Pend(g.todo) = Pend(fr.todo) \ {Head(fr.todo)}
      /\ Len(g.todo) < Len(fr.todo) /\ (Head(fr.todo) \in Stores => Pend(g.todo) \cap Chars = {})
  <2>1. PICK q, op : q = fr.todo /\ op = fr.op
    OBVIOUS
  <2>2. TodoOK(q, op) /\ q # <<>>
    BY <1>1, <2>1
  <2>3. /\ TodoOK(Tail(q), op) /\ Pend(Tail(q)) = Pend(q) \ {Head(q)}
        /\ Len(Tail(q)) < Len(q) /\ (Head(q) \in Stores => Pend(Tail(q)) \cap Chars = {})
    BY <2>2, PopOK
  <2> QED BY <2>1, <2>3
<1>3. Len(fr.todo) \in Nat /\ g # fr
  BY <1>2 DEF Frame
<1>4. Sides(fr) => Sides(g)
  BY DEF Sides
<1>5. Pend(g.todo) \cap Chars # {} => MaxOf(0, g.ret) = g.done
  <2>1. SUFFICES ASSUME Pend(g.todo) \cap Chars # {} PROVE MaxOf(0, g.ret) = g.done
    OBVIOUS
  <2>2. Pend(fr.todo) \cap Chars # {} /\ g.ret = fr.ret
    BY <1>2, <2>1
  <2> QED BY <2>2 DEF FinishOK
<1>6. \/ g.done = 0
      \/ g.ret = g.done
      \/ g.ret = EFAULT /\ g.user # {}
  BY DEF FinishOK
<1>7. g.done > 0 \/ Pend(g.todo) \cap (Stores \cup {"pos"}) # {} =>
       Sides(g) /\ g.pos >= 0 /\ g.out_pos >= 0
  <2>1. Pend(g.todo) \cap (Stores \cup {"pos"}) # {} => Pend(fr.todo) \cap (Stores \cup {"pos"}) # {}
    BY <1>2
  <2> QED BY <1>4, <2>1 DEF FinishOK
<1>8. g.op = "sendfile" /\ g.done > 0 => g.max \in Int /\ g.pos <= g.max
  BY DEF FinishOK
<1>9. g.op \in RwOps /\ TodoOK(g.todo, g.op) /\ g.done <= MaxRw
  BY <1>1, <1>2 DEF FinishOK
<1>10. FinishOK(g)
  BY <1>5, <1>6, <1>7, <1>8, <1>9 DEF FinishOK
<1>11. CallOK(g)
  BY <1>10 DEF CallOK
<1> QED BY <1>2, <1>3, <1>11 DEF Follows

LEMMA DidOK ==
  ASSUME NEW t, NEW fr \in Frame, FinishOK(fr), fr.stage = "finish", fr.todo # <<>>, Did(t, fr)
  PROVE  \E g : Follows(g, fr) /\ call' = [call EXCEPT ![t] = g]
<1>1. PICK g : g = Popped(fr)
  OBVIOUS
<1>2. /\ g \in Frame /\ g.stage = fr.stage /\ g.ret = fr.ret /\ g.todo = Tail(fr.todo)
      /\ g.op = fr.op /\ g.in = fr.in /\ g.out = fr.out /\ g.pos = fr.pos /\ g.out_pos = fr.out_pos
      /\ g.max = fr.max /\ g.user = fr.user /\ g.done = fr.done
  BY <1>1, PoppedFields
<1>3. g.stage = "finish"
  BY <1>2
<1>4. Follows(g, fr)
  BY <1>2, <1>3, PoppedFinish
<1>5. call' = [call EXCEPT ![t] = g]
  BY <1>1 DEF Did, Popped
<1> QED BY <1>4, <1>5

-----------------------------------------------------------------------------
\* add_rchar, add_wchar
LEMMA AddCharEffect ==
  ASSUME CallInv, NEW t \in Task, NEW s \in Chars, AddChar(t, s), NEW fr, fr = call[t]
  PROVE  /\ UNCHANGED <<f_pos, pos_lock, i_size, moved, calls>> /\ Counted(t, s, fr.done)
         /\ fr.done \in Nat /\ fr.done <= MaxRw
         /\ fr.stage = "finish" /\ TodoOK(fr.todo, fr.op) /\ Head(fr.todo) = s /\ s \in Pend(fr.todo)
         /\ \E g : Follows(g, fr) /\ call' = [call EXCEPT ![t] = g]
<1>1. Due(t, s) /\ Did(t, fr) /\ UNCHANGED <<f_pos, pos_lock, i_size, moved, calls>>
      /\ ioac' = [ioac EXCEPT ![t][s] = @ + MaxOf(0, fr.ret)]
  BY DEF AddChar, fileVars
<1>2. /\ fr \in Frame /\ fr.stage = "finish" /\ FinishOK(fr) /\ fr.todo # <<>> /\ Head(fr.todo) = s
      /\ s \in Pend(fr.todo) /\ TodoOK(fr.todo, fr.op)
  BY <1>1, DueFacts
<1>3. Pend(fr.todo) \cap Chars # {}
  BY <1>2
<1>4. MaxOf(0, fr.ret) = fr.done /\ fr.done \in Nat /\ fr.done <= MaxRw
  BY <1>2, <1>3 DEF FinishOK, Frame
<1>5. \E g : Follows(g, fr) /\ call' = [call EXCEPT ![t] = g]
  BY <1>1, <1>2, DidOK
<1>6. Counted(t, s, fr.done)
  <2>1. PICK k : k = fr.done
    OBVIOUS
  <2>2. ioac' = [ioac EXCEPT ![t][s] = @ + k] /\ s \in Counters /\ TypeOK /\ k \in Nat
    BY <1>1, <1>4, <2>1 DEF Chars, Counters, CallInv
  <2> QED BY <2>1, <2>2, CountedOK
<1> QED BY <1>1, <1>2, <1>4, <1>5, <1>6

\* inc_syscr, inc_syscw
LEMMA IncSyscEffect ==
  ASSUME CallInv, NEW t \in Task, NEW s \in {"syscr", "syscw"}, IncSysc(t, s), NEW fr, fr = call[t]
  PROVE  /\ UNCHANGED <<f_pos, pos_lock, i_size, moved, calls>> /\ Counted(t, s, 1)
         /\ fr.stage = "finish" /\ TodoOK(fr.todo, fr.op) /\ Head(fr.todo) = s /\ s \in Pend(fr.todo)
         /\ fr.todo # <<>>
         /\ \E g : Follows(g, fr) /\ call' = [call EXCEPT ![t] = g]
<1>1. Due(t, s) /\ Did(t, fr) /\ UNCHANGED <<f_pos, pos_lock, i_size, moved, calls>>
      /\ ioac' = [ioac EXCEPT ![t][s] = @ + 1]
  BY DEF IncSysc, fileVars
<1>2. /\ fr \in Frame /\ fr.stage = "finish" /\ FinishOK(fr) /\ fr.todo # <<>> /\ Head(fr.todo) = s
      /\ s \in Pend(fr.todo) /\ TodoOK(fr.todo, fr.op)
  BY <1>1, DueFacts
<1>3. \E g : Follows(g, fr) /\ call' = [call EXCEPT ![t] = g]
  BY <1>1, <1>2, DidOK
<1>4. Counted(t, s, 1)
  BY <1>1, CountedOK DEF Counters, CallInv
<1> QED BY <1>1, <1>2, <1>3, <1>4

\* fdput_pos(): the position is stored and the lock released.
LEMMA FdputEffect ==
  ASSUME CallInv, NEW t \in Task, FdputPos(t), NEW fr, fr = call[t], NEW f, f = TheFile(fr)
  PROVE  /\ UNCHANGED <<i_size, ioac, moved, calls>> /\ f \in File /\ fr.op \in Positional
         /\ fr.stage = "finish" /\ TodoOK(fr.todo, fr.op) /\ Head(fr.todo) = "pos" /\ "pos" \in Pend(fr.todo)
         /\ \E g : Follows(g, fr) /\ call' = [call EXCEPT ![t] = g]
         /\ UNCHANGED f_pos \/ \E p \in Nat : f_pos' = [f_pos EXCEPT ![f] = p]
         /\ pos_lock' = [pos_lock EXCEPT ![f] = IF Has(f, "ATOMIC_POS") THEN NULL ELSE @]
<1>1. Due(t, "pos") /\ Did(t, fr) /\ UNCHANGED <<i_size, ioac, moved, calls>>
      /\ f_pos' \in {[f_pos EXCEPT ![f] = IF fr.op \in Readers THEN fr.pos ELSE fr.out_pos], f_pos}
      /\ pos_lock' = [pos_lock EXCEPT ![f] = IF Has(f, "ATOMIC_POS") THEN NULL ELSE @]
  BY DEF FdputPos
<1>2. /\ fr \in Frame /\ fr.stage = "finish" /\ FinishOK(fr) /\ fr.todo # <<>> /\ Head(fr.todo) = "pos"
      /\ "pos" \in Pend(fr.todo) /\ TodoOK(fr.todo, fr.op) /\ Belongs("pos", fr.op)
  BY <1>1, DueFacts
<1>3. \E g : Follows(g, fr) /\ call' = [call EXCEPT ![t] = g]
  BY <1>1, <1>2, DidOK
<1>4. fr.op \in Positional /\ fr.op \in RwOps \ Unlocked
  BY <1>2, PosOps DEF Belongs
<1>5. Sides(fr) /\ fr.pos \in Nat /\ fr.out_pos \in Nat
  BY <1>2 DEF FinishOK, Frame
<1>6. f \in File
  BY <1>4, <1>5 DEF TheFile, Sides, RwOps
<1> QED BY <1>1, <1>2, <1>3, <1>4, <1>5, <1>6

\* sendfile and copy_file_range store a position.
LEMMA StoreEffect ==
  ASSUME CallInv, NEW t \in Task, NEW s \in Stores, StorePos(t, s), NEW fr, fr = call[t]
  PROVE  /\ UNCHANGED <<pos_lock, i_size, ioac, moved, calls>> /\ fr.op \in Unlocked
         /\ fr.stage = "finish" /\ TodoOK(fr.todo, fr.op) /\ Head(fr.todo) = s /\ s \in Pend(fr.todo)
         /\ \E g : Follows(g, fr) /\ call' = [call EXCEPT ![t] = g]
         /\ UNCHANGED f_pos \/ \E f \in File, p \in Nat : f_pos' = [f_pos EXCEPT ![f] = p]
<1> DEFINE f == IF s = "pos_in" THEN fr.in ELSE fr.out
           at == IF s = "pos_in" THEN fr.pos ELSE fr.out_pos
<1>1. Due(t, s) /\ UNCHANGED <<pos_lock, i_size, ioac, moved, calls>>
      /\ f_pos' \in {[f_pos EXCEPT ![f] = at], f_pos}
  BY DEF StorePos
<1>2. /\ fr \in Frame /\ fr.stage = "finish" /\ FinishOK(fr) /\ fr.todo # <<>> /\ Head(fr.todo) = s
      /\ s \in Pend(fr.todo) /\ TodoOK(fr.todo, fr.op) /\ Belongs(s, fr.op)
  BY <1>1, DueFacts
<1>3. \/ Did(t, fr)
      \/ fr.user # {} /\ Did(t, [fr EXCEPT !.ret = EFAULT])
  BY DEF StorePos
<1>5. fr.op \in Unlocked
  BY <1>2 DEF Belongs
<1>6. Sides(fr) /\ fr.pos \in Nat /\ fr.out_pos \in Nat
  BY <1>2 DEF FinishOK, Frame
<1>7. f \in File /\ at \in Nat
  BY <1>5, <1>6 DEF Sides
<1>8. ASSUME fr.user # {}, Did(t, [fr EXCEPT !.ret = EFAULT])
      PROVE  \E g : Follows(g, fr) /\ call' = [call EXCEPT ![t] = g]
  <2>1. PICK h : h = [fr EXCEPT !.ret = EFAULT]
    OBVIOUS
  <2>2. /\ h \in Frame /\ h.stage = fr.stage /\ h.ret = EFAULT /\ h.todo = fr.todo
        /\ h.op = fr.op /\ h.in = fr.in /\ h.out = fr.out /\ h.pos = fr.pos /\ h.out_pos = fr.out_pos
        /\ h.max = fr.max /\ h.user = fr.user /\ h.done = fr.done
    BY <1>2, <2>1, FaultFields
  <2>3. PICK g : g = Popped(h)
    OBVIOUS
  <2>4. h.todo # <<>>
    BY <1>2, <2>2
  <2>5. /\ g \in Frame /\ g.stage = h.stage /\ g.ret = h.ret /\ g.todo = Tail(h.todo)
        /\ g.op = h.op /\ g.in = h.in /\ g.out = h.out /\ g.pos = h.pos /\ g.out_pos = h.out_pos
        /\ g.max = h.max /\ g.user = h.user /\ g.done = h.done
    BY <2>2, <2>3, <2>4, PoppedFields
  <2>6. /\ g.stage = "finish" /\ g.ret = EFAULT /\ g.todo = Tail(fr.todo)
        /\ g.op = fr.op /\ g.in = fr.in /\ g.out = fr.out /\ g.pos = fr.pos /\ g.out_pos = fr.out_pos
        /\ g.max = fr.max /\ g.user = fr.user /\ g.done = fr.done
    BY <1>2, <2>2, <2>5
  <2>7. Follows(g, fr)
    BY <1>2, <1>8, <2>5, <2>6, PoppedFinish
  <2>8. call' = [call EXCEPT ![t] = g]
    BY <1>8, <2>1, <2>3 DEF Did, Popped
  <2> QED BY <2>7, <2>8
<1>9. \E g : Follows(g, fr) /\ call' = [call EXCEPT ![t] = g]
  BY <1>2, <1>3, <1>8, DidOK
<1>10. UNCHANGED f_pos \/ \E x \in File, p \in Nat : f_pos' = [f_pos EXCEPT ![x] = p]
  <2> HIDE DEF f, at
  <2> QED BY <1>1, <1>7
<1> QED BY <1>1, <1>2, <1>5, <1>9, <1>10

-----------------------------------------------------------------------------
Left(fr, s) == IF s \in Pend(fr.todo) THEN fr.done ELSE 0

\* AccountExact, RateInv and LockInv for one task.
AccountOf(a, m, fr) ==
  /\ m.read = a.rchar + (IF fr.in = NULL THEN 0 ELSE Left(fr, "rchar"))
  /\ m.written = a.wchar + (IF fr.out = NULL THEN 0 ELSE Left(fr, "wchar"))
RateOf(a, fr) ==
  /\ a.rchar <= MaxRw * (a.syscr + Extra(fr, "rchar", "syscr"))
  /\ a.wchar <= MaxRw * (a.syscw + Extra(fr, "wchar", "syscw"))
LockOf(fr, t, lock) == Holding(fr) /\ Has(TheFile(fr), "ATOMIC_POS") => lock[TheFile(fr)] = t

LEMMA Distrib == \A m, x \in Nat : m * (x + 1) = m * x + m /\ m * x \in Nat
  OBVIOUS

LEMMA CountersOf == ASSUME NEW a \in Account
  PROVE a.rchar \in Nat /\ a.wchar \in Nat /\ a.syscr \in Nat /\ a.syscw \in Nat
  BY DEF Account

\* A call that has moved nothing leaves nothing to be counted.
LEMMA ZeroAccount ==
  ASSUME NEW a \in Account, NEW m \in Bytes, NEW fr, NEW g, fr.done = 0, g.done = 0, AccountOf(a, m, fr)
  PROVE  AccountOf(a, m, g)
<1>1. Left(fr, "rchar") = 0 /\ Left(fr, "wchar") = 0 /\ Left(g, "rchar") = 0 /\ Left(g, "wchar") = 0
  BY DEF Left
<1> QED BY <1>1, CountersOf DEF AccountOf

LEMMA PairedExtra ==
  ASSUME NEW fr, Paired(fr.todo)
  PROVE  Extra(fr, "rchar", "syscr") = 0 /\ Extra(fr, "wchar", "syscw") = 0
  BY DEF Extra, Paired

LEMMA PairedRate ==
  ASSUME NEW a \in Account, NEW fr, NEW g, Paired(fr.todo), Paired(g.todo), RateOf(a, fr)
  PROVE  RateOf(a, g)
  BY PairedExtra DEF RateOf

LEMMA EmptyPaired == Paired(<<>>)
  BY EmptyTodo DEF Paired

\* A step that counts nothing.
LEMMA SameAccount ==
  ASSUME NEW a \in Account, NEW m, NEW fr, NEW g, g.done = fr.done, g.in = fr.in, g.out = fr.out,
         \A s \in Counters : s \in Pend(g.todo) <=> s \in Pend(fr.todo)
  PROVE  (AccountOf(a, m, fr) => AccountOf(a, m, g)) /\ (RateOf(a, fr) => RateOf(a, g))
<1>1. \A s \in Counters : Left(g, s) = Left(fr, s)
  BY DEF Left
<1>2. /\ Extra(g, "rchar", "syscr") = Extra(fr, "rchar", "syscr")
      /\ Extra(g, "wchar", "syscw") = Extra(fr, "wchar", "syscw")
  BY DEF Extra, Counters
<1> QED BY <1>1, <1>2 DEF AccountOf, RateOf, Counters

\* The bytes are counted: s is rchar or wchar.
LEMMA CharAccount ==
  ASSUME NEW a \in Account, NEW b \in Account, NEW m \in Bytes, NEW fr \in Frame, FinishOK(fr),
    NEW g, Follows(g, fr),
         NEW s \in Chars, Head(fr.todo) = s, s \in Pend(fr.todo), b[s] = a[s] + fr.done,
         \A d \in Counters : d # s => b[d] = a[d]
  PROVE  (AccountOf(a, m, fr) => AccountOf(b, m, g)) /\ (RateOf(a, fr) => RateOf(b, g))
<1>1. /\ g.in = fr.in /\ g.out = fr.out /\ g.done = fr.done /\ Pend(g.todo) = Pend(fr.todo) \ {s}
      /\ fr.done \in Nat /\ fr.done <= MaxRw /\ TodoOK(fr.todo, fr.op)
  BY DEF Follows, FinishOK, Frame
<1>2. Belongs(s, fr.op) /\ ("rchar" \in Pend(fr.todo) => "syscr" \in Pend(fr.todo))
      /\ ("wchar" \in Pend(fr.todo) => "syscw" \in Pend(fr.todo))
  BY <1>1 DEF TodoOK
<1>3. fr.done > 0 => Sides(fr)
  BY DEF FinishOK
<1>4. /\ a.rchar \in Nat /\ a.wchar \in Nat /\ a.syscr \in Nat /\ a.syscw \in Nat /\ b.rchar \in Nat
      /\ b.wchar \in Nat
      /\ MaxRw \in Nat /\ NULL \notin File
  BY CountersOf, FileAssumption
<1>5. CASE s = "rchar"
  <2>1. b.rchar = a.rchar + fr.done /\ b.wchar = a.wchar /\ b.syscr = a.syscr /\ b.syscw = a.syscw
    BY <1>5 DEF Counters
  <2>2. "syscr" \in Pend(g.todo) /\ "rchar" \notin Pend(g.todo)
        /\ ("wchar" \in Pend(g.todo) <=> "wchar" \in Pend(fr.todo))
        /\ ("syscw" \in Pend(g.todo) <=> "syscw" \in Pend(fr.todo))
    BY <1>1, <1>2, <1>5
  <2>3. fr.done > 0 => fr.in # NULL
    BY <1>2, <1>3, <1>4, <1>5 DEF Sides, Belongs
  <2>4. Left(fr, "rchar") = fr.done /\ Left(g, "rchar") = 0 /\ Left(g, "wchar") = Left(fr, "wchar")
    BY <1>1, <1>5, <2>2 DEF Left
  <2>5. Extra(fr, "rchar", "syscr") = 0 /\ Extra(g, "rchar", "syscr") = 1
        /\ Extra(g, "wchar", "syscw") = Extra(fr, "wchar", "syscw")
    BY <1>5, <2>2 DEF Extra
  <2>6. AccountOf(a, m, fr) => AccountOf(b, m, g)
    BY <1>1, <1>4, <2>1, <2>3, <2>4 DEF AccountOf
  <2>7. RateOf(a, fr) => b.rchar <= MaxRw * (b.syscr + 1)
    <3>1. SUFFICES ASSUME RateOf(a, fr) PROVE b.rchar <= MaxRw * (b.syscr + 1)
      OBVIOUS
    <3>2. a.rchar <= MaxRw * a.syscr
      BY <1>4, <2>5, <3>1 DEF RateOf
    <3>3. MaxRw * (a.syscr + 1) = MaxRw * a.syscr + MaxRw /\ MaxRw * a.syscr \in Nat
      BY <1>4, Distrib
    <3> QED BY <1>1, <1>4, <2>1, <3>2, <3>3
  <2>8. RateOf(a, fr) => RateOf(b, g)
    BY <2>1, <2>5, <2>7 DEF RateOf
  <2> QED BY <2>6, <2>8
<1>6. CASE s = "wchar"
  <2>1. b.wchar = a.wchar + fr.done /\ b.rchar = a.rchar /\ b.syscr = a.syscr /\ b.syscw = a.syscw
    BY <1>6 DEF Counters
  <2>2. "syscw" \in Pend(g.todo) /\ "wchar" \notin Pend(g.todo)
        /\ ("rchar" \in Pend(g.todo) <=> "rchar" \in Pend(fr.todo))
        /\ ("syscr" \in Pend(g.todo) <=> "syscr" \in Pend(fr.todo))
    BY <1>1, <1>2, <1>6
  <2>3. fr.done > 0 => fr.out # NULL
    BY <1>2, <1>3, <1>4, <1>6 DEF Sides, Belongs
  <2>4. Left(fr, "wchar") = fr.done /\ Left(g, "wchar") = 0 /\ Left(g, "rchar") = Left(fr, "rchar")
    BY <1>1, <1>6, <2>2 DEF Left
  <2>5. Extra(fr, "wchar", "syscw") = 0 /\ Extra(g, "wchar", "syscw") = 1
        /\ Extra(g, "rchar", "syscr") = Extra(fr, "rchar", "syscr")
    BY <1>6, <2>2 DEF Extra
  <2>6. AccountOf(a, m, fr) => AccountOf(b, m, g)
    BY <1>1, <1>4, <2>1, <2>3, <2>4 DEF AccountOf
  <2>7. RateOf(a, fr) => b.wchar <= MaxRw * (b.syscw + 1)
    <3>1. SUFFICES ASSUME RateOf(a, fr) PROVE b.wchar <= MaxRw * (b.syscw + 1)
      OBVIOUS
    <3>2. a.wchar <= MaxRw * a.syscw
      BY <1>4, <2>5, <3>1 DEF RateOf
    <3>3. MaxRw * (a.syscw + 1) = MaxRw * a.syscw + MaxRw /\ MaxRw * a.syscw \in Nat
      BY <1>4, Distrib
    <3> QED BY <1>1, <1>4, <2>1, <3>2, <3>3
  <2>8. RateOf(a, fr) => RateOf(b, g)
    BY <2>1, <2>5, <2>7 DEF RateOf
  <2> QED BY <2>6, <2>8
<1> QED BY <1>5, <1>6 DEF Chars

-----------------------------------------------------------------------------
\* The call is counted: s is syscr or syscw.
LEMMA SyscAccount ==
  ASSUME NEW a \in Account, NEW b \in Account, NEW m, NEW fr \in Frame, fr.todo # <<>>, TodoOK(fr.todo, fr.op),
         NEW g, Follows(g, fr), NEW s \in {"syscr", "syscw"}, Head(fr.todo) = s, s \in Pend(fr.todo),
           b[s] = a[s] + 1,
         \A d \in Counters : d # s => b[d] = a[d]
  PROVE  (AccountOf(a, m, fr) => AccountOf(b, m, g)) /\ (RateOf(a, fr) => RateOf(b, g))
<1>1. /\ g.in = fr.in /\ g.out = fr.out /\ g.done = fr.done /\ Pend(g.todo) = Pend(fr.todo) \ {s}
  BY DEF Follows
<1>2. (s = "syscr" => "rchar" \notin Pend(fr.todo)) /\ (s = "syscw" => "wchar" \notin Pend(fr.todo))
  <2>1. PICK q, op : q = fr.todo /\ op = fr.op
    OBVIOUS
  <2>2. TodoOK(q, op) /\ q # <<>>
    BY <2>1
  <2> QED BY <2>1, <2>2, PopOK
<1>3. b.rchar = a.rchar /\ b.wchar = a.wchar
  BY DEF Counters
<1>4. Left(g, "rchar") = Left(fr, "rchar") /\ Left(g, "wchar") = Left(fr, "wchar")
  BY <1>1 DEF Left
<1>5. AccountOf(a, m, fr) => AccountOf(b, m, g)
  BY <1>1, <1>3, <1>4 DEF AccountOf
<1>6. a.syscr \in Nat /\ a.syscw \in Nat
  BY CountersOf
<1>7. CASE s = "syscr"
  <2>1. Extra(fr, "rchar", "syscr") = 1 /\ Extra(g, "rchar", "syscr") = 0
        /\ Extra(g, "wchar", "syscw") = Extra(fr, "wchar", "syscw")
    BY <1>1, <1>2, <1>7 DEF Extra
  <2>2. b.syscr = a.syscr + 1 /\ b.syscw = a.syscw
    BY <1>7 DEF Counters
  <2>3. b.syscr + 0 = a.syscr + 1
    BY <1>6, <2>2
  <2>4. RateOf(a, fr) => RateOf(b, g)
    BY <1>3, <2>1, <2>2, <2>3 DEF RateOf
  <2> QED BY <1>5, <2>4
<1>8. CASE s = "syscw"
  <2>1. Extra(fr, "wchar", "syscw") = 1 /\ Extra(g, "wchar", "syscw") = 0
        /\ Extra(g, "rchar", "syscr") = Extra(fr, "rchar", "syscr")
    BY <1>1, <1>2, <1>8 DEF Extra
  <2>2. b.syscw = a.syscw + 1 /\ b.syscr = a.syscr
    BY <1>8 DEF Counters
  <2>3. b.syscw + 0 = a.syscw + 1
    BY <1>6, <2>2
  <2>4. RateOf(a, fr) => RateOf(b, g)
    BY <1>3, <2>1, <2>2, <2>3 DEF RateOf
  <2> QED BY <1>5, <2>4
<1> QED BY <1>7, <1>8

\* The call has moved k bytes.
LEMMA MoveAccount ==
  ASSUME NEW a \in Account, NEW m \in Bytes, NEW n \in Bytes, NEW fr, XferOK(fr),
    NEW g, g.todo = fr.todo, g.in = fr.in,
         g.out = fr.out, g.done \in Nat, AccountOf(a, m, fr),
         n.read = m.read + (IF fr.in # NULL THEN g.done ELSE 0),
         n.written = m.written + (IF fr.out # NULL THEN g.done ELSE 0)
  PROVE  AccountOf(a, n, g)
<1>1. fr.done = 0 /\ fr.op \in RwOps /\ fr.todo = After(fr.op) /\ Sides(fr)
  BY DEF XferOK
<1>2. /\ "rchar" \in Pend(fr.todo) <=> fr.op \in Readers \cup Unlocked
      /\ "wchar" \in Pend(fr.todo) <=> fr.op \in Writers \cup Unlocked
  BY <1>1, AfterPend
<1>3. (fr.in # NULL <=> "rchar" \in Pend(fr.todo)) /\ (fr.out # NULL <=> "wchar" \in Pend(fr.todo))
  BY <1>1, <1>2, OpKinds, FileAssumption DEF Sides, RwOps
<1>4. Left(fr, "rchar") = 0 /\ Left(fr, "wchar") = 0
  BY <1>1 DEF Left
<1>5. a.rchar \in Nat /\ a.wchar \in Nat
  BY CountersOf
<1>6. m.read = a.rchar /\ m.written = a.wchar
  BY <1>4, <1>5 DEF AccountOf
<1>7. (fr.in # NULL => Left(g, "rchar") = g.done) /\ (fr.out # NULL => Left(g, "wchar") = g.done)
  BY <1>3 DEF Left
<1> QED BY <1>5, <1>6, <1>7 DEF AccountOf

-----------------------------------------------------------------------------
\* What every step of a task t keeps.
TypesKept ==
  /\ f_pos' \in [File -> Nat] /\ i_size' \in [Inode -> Nat]
  /\ pos_lock' \in [File -> Task \cup {NULL}]
  /\ ioac' \in [Task -> Account] /\ moved' \in [Task -> Bytes]
  /\ calls' \in [Task -> Nat]

OthersLocks(t) == \A u \in Task, f \in File : u # t /\ pos_lock[f] = u => pos_lock'[f] = u

Sound(t) == \E g :
  /\ CallOK(g) /\ call' = [call EXCEPT ![t] = g] /\ TypesKept
  /\ \A u \in Task : u # t => ioac'[u] = ioac[u] /\ moved'[u] = moved[u]
  /\ \A c \in Counters : ioac'[t][c] >= ioac[t][c]
  /\ AccountOf(ioac[t], moved[t], call[t]) => AccountOf(ioac'[t], moved'[t], g)
  /\ RateOf(ioac[t], call[t]) => RateOf(ioac'[t], g)
  /\ OthersLocks(t) /\ LockOf(g, t, pos_lock')

\* The types, from what each step leaves alone.
LEMMA KeptTypes ==
  ASSUME TypeOK
  PROVE  /\ UNCHANGED f_pos => f_pos' \in [File -> Nat]
         /\ UNCHANGED i_size => i_size' \in [Inode -> Nat]
         /\ UNCHANGED pos_lock => pos_lock' \in [File -> Task \cup {NULL}] /\ \A t \in Task : OthersLocks(t)
         /\ UNCHANGED ioac => /\ ioac' \in [Task -> Account] /\ \A t \in Task : ioac'[t] = ioac[t]
         /\ UNCHANGED moved => moved' \in [Task -> Bytes] /\ \A t \in Task : moved'[t] = moved[t]
         /\ UNCHANGED calls => calls' \in [Task -> Nat]
         /\ \A t \in Task : ioac[t] \in Account /\ moved[t] \in Bytes
<1>1. /\ f_pos \in [File -> Nat] /\ i_size \in [Inode -> Nat]
      /\ pos_lock \in [File -> Task \cup {NULL}]
      /\ ioac \in [Task -> Account] /\ moved \in [Task -> Bytes] /\ calls \in [Task -> Nat]
  BY DEF TypeOK, Bytes
<1> QED BY <1>1 DEF OthersLocks

LEMMA NotLess == ASSUME NEW a \in Account PROVE \A c \in Counters : a[c] >= a[c] /\ a[c] \in Nat
  BY AccountSets

LEMMA PosType ==
  ASSUME TypeOK, UNCHANGED f_pos \/ \E f \in File, p \in Nat : f_pos' = [f_pos EXCEPT ![f] = p]
  PROVE  f_pos' \in [File -> Nat]
<1>1. f_pos \in [File -> Nat]
  BY DEF TypeOK
<1> QED BY <1>1

LEMMA CallsType ==
  ASSUME TypeOK, NEW t \in Task, calls' = [calls EXCEPT ![t] = @ + 1]
  PROVE  calls' \in [Task -> Nat]
<1>1. calls \in [Task -> Nat]
  BY DEF TypeOK
<1> QED BY <1>1

\* A step that leaves the counters and the history alone.
LEMMA QuietSound ==
  ASSUME CallInv, NEW t \in Task, NEW g, CallOK(g), call' = [call EXCEPT ![t] = g], UNCHANGED <<ioac, moved>>,
         f_pos' \in [File -> Nat], i_size' \in [Inode -> Nat], pos_lock' \in [File -> Task \cup {NULL}],
         calls' \in [Task -> Nat], OthersLocks(t), LockOf(g, t, pos_lock'),
         AccountOf(ioac[t], moved[t], call[t]) => AccountOf(ioac[t], moved[t], g),
         RateOf(ioac[t], call[t]) => RateOf(ioac[t], g)
  PROVE  Sound(t)
<1>1. TypeOK /\ UNCHANGED ioac /\ UNCHANGED moved
  BY DEF CallInv
<1>2. /\ ioac' \in [Task -> Account] /\ \A u \in Task : ioac'[u] = ioac[u]
      /\ moved' \in [Task -> Bytes] /\ \A u \in Task : moved'[u] = moved[u]
      /\ ioac[t] \in Account
  BY <1>1, KeptTypes
<1>3. \A c \in Counters : ioac'[t][c] >= ioac[t][c]
  BY <1>2, NotLess
<1>4. TypesKept
  BY <1>2 DEF TypesKept
<1>5. ioac'[t] = ioac[t] /\ moved'[t] = moved[t]
  BY <1>2
<1>6. AccountOf(ioac[t], moved[t], call[t]) => AccountOf(ioac'[t], moved'[t], g)
  BY <1>5
<1>7. RateOf(ioac[t], call[t]) => RateOf(ioac'[t], g)
  BY <1>5
<1> QED BY <1>2, <1>3, <1>4, <1>6, <1>7 DEF Sound

-----------------------------------------------------------------------------
LEMMA NotHolding == ASSUME NEW g, ~ Holding(g), NEW t, NEW l PROVE LockOf(g, t, l)
  BY DEF LockOf

LEMMA CallSound ==
  ASSUME CallInv, NEW t \in Task, Call(t)
  PROVE  Sound(t)
<1>1. PICK g : Begun(g) /\ call' = [call EXCEPT ![t] = g]
  BY CallBegins
<1>2. /\ call[t].stage = "idle" /\ UNCHANGED f_pos /\ UNCHANGED pos_lock /\ UNCHANGED i_size
      /\ UNCHANGED <<ioac, moved>>
      /\ calls' = [calls EXCEPT ![t] = @ + 1] /\ TypeOK
  BY CallBegins DEF CallInv
<1>3. CallOK(g) /\ g.done = 0 /\ Paired(g.todo) /\ ~ Holding(g)
  BY <1>1 DEF Begun
<1>4. call[t].done = 0 /\ call[t].todo = <<>>
  BY <1>2 DEF CallInv, CallOK, IdleOK
<1>5. /\ f_pos' \in [File -> Nat] /\ i_size' \in [Inode -> Nat] /\ pos_lock' \in [File -> Task \cup {NULL}]
      /\ calls' \in [Task -> Nat] /\ OthersLocks(t) /\ ioac[t] \in Account /\ moved[t] \in Bytes
  BY <1>2, KeptTypes, CallsType
<1>6. AccountOf(ioac[t], moved[t], call[t]) => AccountOf(ioac[t], moved[t], g)
  BY <1>3, <1>4, <1>5, ZeroAccount
<1>7. Paired(call[t].todo)
  BY <1>4, EmptyPaired
<1>8. RateOf(ioac[t], call[t]) => RateOf(ioac[t], g)
  BY <1>3, <1>5, <1>7, PairedRate
<1> QED BY <1>1, <1>2, <1>3, <1>5, <1>6, <1>8, NotHolding, QuietSound

LEMMA IdleFields ==
  ASSUME NEW r \in Int, NEW g, g = [NoCall EXCEPT !.ret = r]
  PROVE  CallOK(g) /\ g.done = 0 /\ Paired(g.todo) /\ ~ Holding(g) /\ g.stage = "idle" /\ g.ret = r
<1>1. CallOK(g)
  BY IdleCall
<1>2. g.done = 0 /\ g.todo = <<>> /\ g.stage = "idle" /\ g.ret = r
  BY NoCallFields DEF Frame
<1> QED BY <1>1, <1>2, EmptyPaired DEF Holding

LEMMA SeekSound ==
  ASSUME CallInv, NEW t \in Task, SeekCall(t)
  PROVE  Sound(t)
<1>1. PICK r \in Int : call' = [call EXCEPT ![t] = [NoCall EXCEPT !.ret = r]]
  BY SeekEffect
<1>2. PICK g : g = [NoCall EXCEPT !.ret = r]
  OBVIOUS
<1>3. CallOK(g) /\ g.done = 0 /\ Paired(g.todo) /\ ~ Holding(g) /\ call' = [call EXCEPT ![t] = g]
  BY <1>1, <1>2, IdleFields
<1>4. /\ call[t].stage = "idle" /\ UNCHANGED pos_lock /\ UNCHANGED i_size /\ UNCHANGED <<ioac, moved>>
      /\ calls' = [calls EXCEPT ![t] = @ + 1] /\ TypeOK
      /\ UNCHANGED f_pos \/ \E f \in File, p \in Nat : f_pos' = [f_pos EXCEPT ![f] = p]
  BY SeekEffect DEF CallInv
<1>5. call[t].done = 0 /\ call[t].todo = <<>>
  BY <1>4 DEF CallInv, CallOK, IdleOK
<1>6. /\ f_pos' \in [File -> Nat] /\ i_size' \in [Inode -> Nat] /\ pos_lock' \in [File -> Task \cup {NULL}]
      /\ calls' \in [Task -> Nat] /\ OthersLocks(t) /\ ioac[t] \in Account /\ moved[t] \in Bytes
  BY <1>4, KeptTypes, CallsType, PosType
<1>7. AccountOf(ioac[t], moved[t], call[t]) => AccountOf(ioac[t], moved[t], g)
  BY <1>3, <1>5, <1>6, ZeroAccount
<1>8. Paired(call[t].todo)
  BY <1>5, EmptyPaired
<1>9. RateOf(ioac[t], call[t]) => RateOf(ioac[t], g)
  BY <1>3, <1>6, <1>8, PairedRate
<1> QED BY <1>3, <1>4, <1>6, <1>7, <1>9, NotHolding, QuietSound

LEMMA FdgetSound ==
  ASSUME CallInv, NEW t \in Task, NEW env, FdgetPos(t, env)
  PROVE  Sound(t)
<1>1. PICK f : f = TheFile(call[t])
  OBVIOUS
<1>2. PICK g : /\ CallOK(g) /\ g.done = 0 /\ Paired(g.todo) /\ TheFile(g) = f
               /\ call' = [call EXCEPT ![t] = g]
  BY <1>1, FdgetEffect
<1>3. /\ call[t].stage = "lock" /\ f \in File /\ UNCHANGED f_pos /\ UNCHANGED i_size /\ UNCHANGED calls
      /\ UNCHANGED <<ioac, moved>>
      /\ TypeOK
      /\ IF Has(f, "ATOMIC_POS") THEN pos_lock[f] = NULL /\ pos_lock' = [pos_lock EXCEPT ![f] = t]
                                 ELSE UNCHANGED pos_lock
  BY <1>1, FdgetEffect DEF CallInv
<1>4. call[t].done = 0 /\ call[t].todo = <<>>
  BY <1>3 DEF CallInv, CallOK, LockOK
<1>5. /\ f_pos' \in [File -> Nat] /\ i_size' \in [Inode -> Nat]
      /\ calls' \in [Task -> Nat] /\ ioac[t] \in Account /\ moved[t] \in Bytes
  BY <1>3, KeptTypes
<1>6. pos_lock \in [File -> Task \cup {NULL}] /\ NULL \notin Task
  BY <1>3, FileAssumption DEF TypeOK
<1>7. pos_lock' \in [File -> Task \cup {NULL}] /\ OthersLocks(t) /\ (Has(f, "ATOMIC_POS") => pos_lock'[f] = t)
  BY <1>3, <1>6 DEF OthersLocks
<1>8. LockOf(g, t, pos_lock')
  BY <1>2, <1>7 DEF LockOf
<1>9. AccountOf(ioac[t], moved[t], call[t]) => AccountOf(ioac[t], moved[t], g)
  BY <1>2, <1>4, <1>5, ZeroAccount
<1>10. Paired(call[t].todo)
  BY <1>4, EmptyPaired
<1>11. RateOf(ioac[t], call[t]) => RateOf(ioac[t], g)
  BY <1>2, <1>5, <1>10, PairedRate
<1> QED BY <1>2, <1>3, <1>5, <1>7, <1>8, <1>9, <1>11, QuietSound

LEMMA ReturnEffect ==
  ASSUME CallInv, NEW t \in Task, Return(t), NEW fr, fr = call[t]
  PROVE  /\ UNCHANGED <<f_pos, pos_lock, i_size, ioac, moved, calls>> /\ fr.stage = "finish" /\ fr.todo = <<>>
         /\ FinishOK(fr)
         /\ \E r \in Int : /\ call' = [call EXCEPT ![t] = [NoCall EXCEPT !.ret = r]]
                           /\ fr.done > 0 => r = fr.done \/ (r = EFAULT /\ fr.user # {})
<1>1. /\ UNCHANGED <<f_pos, pos_lock, i_size, ioac, moved, calls>> /\ fr.stage = "finish" /\ fr.todo = <<>>
  BY DEF Return, fileVars
<1>2. FinishOK(fr) /\ fr.ret \in Int /\ fr.done \in Nat /\ fr.pos \in Int
  BY <1>1 DEF CallInv, CallOK, Frame
<1>3. PICK r : r = IF fr.op = "sendfile" /\ fr.max # NULL /\ fr.pos > fr.max THEN EOVERFLOW ELSE fr.ret
  OBVIOUS
<1>4. PICK e \in {r} \cup (IF fr.op = "sendfile" /\ fr.user # {} THEN {EFAULT} ELSE {}) :
        call' = [call EXCEPT ![t] = [NoCall EXCEPT !.ret = e]]
  BY <1>3 DEF Return
<1>5. e \in Int
  BY <1>2, <1>3, <1>4 DEF EOVERFLOW, EFAULT
<1>6. fr.done > 0 => r = fr.ret
  BY <1>2, <1>3 DEF FinishOK
<1>7. fr.done > 0 => fr.ret = fr.done \/ (fr.ret = EFAULT /\ fr.user # {})
  BY <1>2 DEF FinishOK
<1>8. fr.done > 0 => e = fr.done \/ (e = EFAULT /\ fr.user # {})
  BY <1>4, <1>6, <1>7
<1> QED BY <1>1, <1>2, <1>4, <1>5, <1>8

LEMMA ReturnSound ==
  ASSUME CallInv, NEW t \in Task, Return(t)
  PROVE  Sound(t)
<1>0. PICK fr : fr = call[t]
  OBVIOUS
<1>1. PICK r \in Int : call' = [call EXCEPT ![t] = [NoCall EXCEPT !.ret = r]]
  BY <1>0, ReturnEffect
<1>2. PICK g : g = [NoCall EXCEPT !.ret = r]
  OBVIOUS
<1>3. /\ CallOK(g) /\ g.done = 0 /\ Paired(g.todo) /\ ~ Holding(g) /\ call' = [call EXCEPT ![t] = g]
  BY <1>1, <1>2, IdleFields
<1>4. /\ UNCHANGED f_pos /\ UNCHANGED pos_lock /\ UNCHANGED i_size /\ UNCHANGED <<ioac, moved>>
      /\ UNCHANGED calls /\ TypeOK /\ fr.todo = <<>>
  BY <1>0, ReturnEffect DEF CallInv
<1>5. /\ f_pos' \in [File -> Nat] /\ i_size' \in [Inode -> Nat] /\ pos_lock' \in [File -> Task \cup {NULL}]
      /\ calls' \in [Task -> Nat] /\ OthersLocks(t) /\ ioac[t] \in Account /\ moved[t] \in Bytes
  BY <1>4, KeptTypes
<1>6. AccountOf(ioac[t], moved[t], fr) => AccountOf(ioac[t], moved[t], g)
  <2>1. Left(fr, "rchar") = 0 /\ Left(fr, "wchar") = 0 /\ Left(g, "rchar") = 0 /\ Left(g, "wchar") = 0
    BY <1>3, <1>4, EmptyTodo DEF Left
  <2> QED BY <1>5, <2>1, CountersOf DEF AccountOf
<1>7. Paired(fr.todo)
  BY <1>4, EmptyPaired
<1>8. RateOf(ioac[t], fr) => RateOf(ioac[t], g)
  BY <1>3, <1>5, <1>7, PairedRate
<1> QED BY <1>0, <1>3, <1>4, <1>5, <1>6, <1>8, NotHolding, QuietSound

-----------------------------------------------------------------------------
LEMMA LockOfTask == ASSUME LockInv, NEW t \in Task PROVE LockOf(call[t], t, pos_lock)
  BY DEF LockInv, LockOf

\* A call holds the position no longer than before.
LEMMA LockKept ==
  ASSUME NEW fr, NEW g, g.op = fr.op, g.in = fr.in, g.out = fr.out, Holding(g)
    => Holding(fr), NEW t, NEW l, LockOf(fr, t, l)
  PROVE  LockOf(g, t, l)
<1>1. TheFile(g) = TheFile(fr)
  BY DEF TheFile
<1> QED BY <1>1 DEF LockOf

LEMMA FollowsHolding ==
  ASSUME NEW fr, fr.stage = "finish", NEW g, Follows(g, fr)
  PROVE  Holding(g) => Holding(fr)
<1>1. g.op = fr.op /\ g.stage = "finish" /\ Pend(g.todo) \subseteq Pend(fr.todo)
  BY DEF Follows
<1> QED BY <1>1 DEF Holding

LEMMA SizesType ==
  ASSUME TypeOK, NEW fr, Grows(fr)
  PROVE  i_size' \in [Inode -> Nat]
<1>1. i_size \in [Inode -> Nat]
  BY DEF TypeOK
<1>2. CASE UNCHANGED i_size
  BY <1>1, <1>2
<1>3. ASSUME NEW e \in Nat, fr.out \in File, i_size' = [i_size EXCEPT ![Attr[fr.out].inode] = MaxOf(@, e)]
      PROVE  i_size' \in [Inode -> Nat]
  <2>1. PICK i : i = Attr[fr.out].inode
    OBVIOUS
  <2>2. i \in Inode
    BY <1>3, <2>1 DEF Inode
  <2>3. MaxOf(i_size[i], e) \in Nat
    BY <1>1, <2>2 DEF MaxOf
  <2>4. i_size' = [i_size EXCEPT ![i] = MaxOf(i_size[i], e)]
    BY <1>3, <2>1
  <2> QED BY <1>1, <2>2, <2>3, <2>4
<1> QED BY <1>2, <1>3 DEF Grows

LEMMA TransferSound ==
  ASSUME CallInv, LockInv, NEW t \in Task, Transfer(t)
  PROVE  Sound(t)
<1>1. PICK fr : fr = call[t]
  OBVIOUS
<1>2. PICK g : /\ CallOK(g) /\ g.stage = "finish" /\ g.todo = fr.todo /\ g.op = fr.op /\ g.in = fr.in
               /\ g.out = fr.out /\ g.done \in Nat /\ Moves(t, fr, g.done)
               /\ call' = [call EXCEPT ![t] = g]
  BY <1>1, TransferEffect
<1>3. /\ fr.stage = "xfer" /\ XferOK(fr) /\ UNCHANGED f_pos /\ UNCHANGED pos_lock /\ UNCHANGED ioac
      /\ UNCHANGED calls
      /\ Grows(fr) /\ TypeOK
  BY <1>1, TransferEffect DEF CallInv
<1>4. /\ f_pos' \in [File -> Nat] /\ i_size' \in [Inode -> Nat] /\ pos_lock' \in [File -> Task \cup {NULL}]
      /\ calls' \in [Task -> Nat] /\ OthersLocks(t) /\ ioac[t] \in Account /\ moved[t] \in Bytes
      /\ ioac' \in [Task -> Account] /\ \A u \in Task : ioac'[u] = ioac[u]
  BY <1>3, KeptTypes, SizesType
<1>5. /\ moved' \in [Task -> Bytes] /\ \A u \in Task : u # t => moved'[u] = moved[u]
      /\ moved'[t].read = moved[t].read + (IF fr.in # NULL THEN g.done ELSE 0)
      /\ moved'[t].written = moved[t].written + (IF fr.out # NULL THEN g.done ELSE 0)
  BY <1>2 DEF Moves
<1>6. TypesKept
  BY <1>4, <1>5 DEF TypesKept
<1>7. moved'[t] \in Bytes
  BY <1>5
<1>8. AccountOf(ioac[t], moved[t], fr) => AccountOf(ioac[t], moved'[t], g)
  BY <1>2, <1>3, <1>4, <1>5, <1>7, MoveAccount
<1>9. RateOf(ioac[t], fr) => RateOf(ioac[t], g)
  BY <1>2 DEF RateOf, Extra
<1>10. Holding(g) => Holding(fr)
  BY <1>2, <1>3 DEF Holding
<1>11. LockOf(g, t, pos_lock')
  BY <1>1, <1>2, <1>3, <1>10, LockKept, LockOfTask
<1>12. \A c \in Counters : ioac'[t][c] >= ioac[t][c]
  BY <1>4, NotLess
<1>13. ioac'[t] = ioac[t]
  BY <1>4
<1>14. AccountOf(ioac[t], moved[t], call[t]) => AccountOf(ioac'[t], moved'[t], g)
  BY <1>1, <1>8, <1>13
<1>15. RateOf(ioac[t], call[t]) => RateOf(ioac'[t], g)
  BY <1>1, <1>9, <1>13
<1> QED BY <1>2, <1>4, <1>5, <1>6, <1>11, <1>12, <1>14, <1>15 DEF Sound

LEMMA CountingSound ==
  ASSUME CallInv, LockInv, NEW t \in Task, NEW fr, fr = call[t], fr.stage = "finish",
         UNCHANGED <<f_pos, pos_lock, i_size, moved, calls>>,
         NEW g, Follows(g, fr), call' = [call EXCEPT ![t] = g],
         NEW c \in Counters, NEW k \in Nat, Counted(t, c, k),
         AccountOf(ioac[t], moved[t], fr) => AccountOf(ioac'[t], moved[t], g),
         RateOf(ioac[t], fr) => RateOf(ioac'[t], g)
  PROVE  Sound(t)
<1>1. TypeOK /\ UNCHANGED f_pos /\ UNCHANGED pos_lock /\ UNCHANGED i_size /\ UNCHANGED moved /\ UNCHANGED calls
  BY DEF CallInv
<1>2. /\ f_pos' \in [File -> Nat] /\ i_size' \in [Inode -> Nat] /\ pos_lock' \in [File -> Task \cup {NULL}]
      /\ calls' \in [Task -> Nat] /\ OthersLocks(t) /\ ioac[t] \in Account /\ moved' \in [Task -> Bytes]
      /\ \A u \in Task : moved'[u] = moved[u]
  BY <1>1, KeptTypes
<1>3. /\ ioac' \in [Task -> Account] /\ \A u \in Task : u # t => ioac'[u] = ioac[u]
      /\ ioac'[t][c] = ioac[t][c] + k /\ \A d \in Counters : d # c => ioac'[t][d] = ioac[t][d]
  BY DEF Counted
<1>4. TypesKept
  BY <1>2, <1>3 DEF TypesKept
<1>5. \A d \in Counters : ioac[t][d] \in Nat
  BY <1>2, NotLess
<1>6. \A d \in Counters : ioac'[t][d] >= ioac[t][d]
  BY <1>3, <1>5
<1>7. g.op = fr.op /\ g.in = fr.in /\ g.out = fr.out /\ CallOK(g) /\ (Holding(g) => Holding(fr))
  BY FollowsHolding DEF Follows
<1>8. LockOf(fr, t, pos_lock')
  BY <1>1, LockOfTask
<1>9. LockOf(g, t, pos_lock')
  BY <1>7, <1>8, LockKept
<1>10. moved'[t] = moved[t]
  BY <1>2
<1>11. AccountOf(ioac[t], moved[t], call[t]) => AccountOf(ioac'[t], moved'[t], g)
  BY <1>10
<1> QED BY <1>2, <1>3, <1>4, <1>6, <1>7, <1>9, <1>11 DEF Sound

-----------------------------------------------------------------------------
LEMMA AddCharSound ==
  ASSUME CallInv, LockInv, NEW t \in Task, NEW s \in Chars, AddChar(t, s)
  PROVE  Sound(t)
<1>1. PICK fr : fr = call[t]
  OBVIOUS
<1>2. PICK g : Follows(g, fr) /\ call' = [call EXCEPT ![t] = g]
  BY <1>1, AddCharEffect
<1>3. /\ UNCHANGED <<f_pos, pos_lock, i_size, moved, calls>> /\ Counted(t, s, fr.done) /\ fr.done \in Nat
      /\ fr.stage = "finish" /\ Head(fr.todo) = s /\ s \in Pend(fr.todo)
  BY <1>1, AddCharEffect
<1>4. fr \in Frame /\ FinishOK(fr) /\ TypeOK
  BY <1>1, <1>3 DEF CallInv, CallOK
<1>5. ioac[t] \in Account /\ moved[t] \in Bytes /\ s \in Counters
  BY <1>4, KeptTypes DEF Chars, Counters
<1>6. ioac'[t] \in Account /\ ioac'[t][s] = ioac[t][s] + fr.done /\ \A d \in Counters : d # s
      => ioac'[t][d] = ioac[t][d]
  BY <1>3 DEF Counted
<1>7. PICK a, b, m : a = ioac[t] /\ b = ioac'[t] /\ m = moved[t]
  OBVIOUS
<1>8. /\ a \in Account /\ b \in Account /\ m \in Bytes /\ b[s] = a[s] + fr.done
      /\ \A d \in Counters : d # s => b[d] = a[d]
  BY <1>5, <1>6, <1>7
<1>9. (AccountOf(a, m, fr) => AccountOf(b, m, g)) /\ (RateOf(a, fr) => RateOf(b, g))
  BY <1>2, <1>3, <1>4, <1>8, CharAccount
<1>10. /\ AccountOf(ioac[t], moved[t], fr) => AccountOf(ioac'[t], moved[t], g)
       /\ RateOf(ioac[t], fr) => RateOf(ioac'[t], g)
  BY <1>7, <1>9
<1> QED BY <1>1, <1>2, <1>3, <1>5, <1>10, CountingSound

LEMMA IncSyscSound ==
  ASSUME CallInv, LockInv, NEW t \in Task, NEW s \in {"syscr", "syscw"}, IncSysc(t, s)
  PROVE  Sound(t)
<1>1. PICK fr : fr = call[t]
  OBVIOUS
<1>2. PICK g : Follows(g, fr) /\ call' = [call EXCEPT ![t] = g]
  BY <1>1, IncSyscEffect
<1>3. /\ UNCHANGED <<f_pos, pos_lock, i_size, moved, calls>> /\ Counted(t, s, 1) /\ 1 \in Nat
      /\ fr.stage = "finish" /\ Head(fr.todo) = s /\ s \in Pend(fr.todo) /\ TodoOK(fr.todo, fr.op) /\ fr.todo # <<>>
  BY <1>1, IncSyscEffect
<1>4. fr \in Frame /\ TypeOK
  BY <1>1, <1>3 DEF CallInv, CallOK
<1>5. ioac[t] \in Account /\ moved[t] \in Bytes /\ s \in Counters
  BY <1>4, KeptTypes DEF Counters
<1>6. ioac'[t] \in Account /\ ioac'[t][s] = ioac[t][s] + 1 /\ \A d \in Counters : d # s => ioac'[t][d] = ioac[t][d]
  BY <1>3 DEF Counted
<1>7. PICK a, b, m : a = ioac[t] /\ b = ioac'[t] /\ m = moved[t]
  OBVIOUS
<1>8. /\ a \in Account /\ b \in Account /\ b[s] = a[s] + 1
      /\ \A d \in Counters : d # s => b[d] = a[d]
  BY <1>5, <1>6, <1>7
<1>9. (AccountOf(a, m, fr) => AccountOf(b, m, g)) /\ (RateOf(a, fr) => RateOf(b, g))
  BY <1>2, <1>3, <1>4, <1>8, SyscAccount
<1>10. /\ AccountOf(ioac[t], moved[t], fr) => AccountOf(ioac'[t], moved[t], g)
       /\ RateOf(ioac[t], fr) => RateOf(ioac'[t], g)
  BY <1>7, <1>9
<1> QED BY <1>1, <1>2, <1>3, <1>5, <1>10, CountingSound

\* A step of the end of a call that counts nothing.
LEMMA StillAccount ==
  ASSUME NEW a \in Account, NEW m, NEW fr, NEW g, Follows(g, fr), Head(fr.todo) \notin Counters
  PROVE  (AccountOf(a, m, fr) => AccountOf(a, m, g)) /\ (RateOf(a, fr) => RateOf(a, g))
<1>1. g.done = fr.done /\ g.in = fr.in /\ g.out = fr.out /\ Pend(g.todo) = Pend(fr.todo) \ {Head(fr.todo)}
  BY DEF Follows
<1>2. \A s \in Counters : s \in Pend(g.todo) <=> s \in Pend(fr.todo)
  BY <1>1
<1> QED BY <1>1, <1>2, SameAccount

LEMMA FdputSound ==
  ASSUME CallInv, LockInv, NEW t \in Task, FdputPos(t)
  PROVE  Sound(t)
<1>1. PICK fr, f : fr = call[t] /\ f = TheFile(fr)
  OBVIOUS
<1>2. PICK g : Follows(g, fr) /\ call' = [call EXCEPT ![t] = g]
  BY <1>1, FdputEffect
<1>3. /\ UNCHANGED i_size /\ UNCHANGED <<ioac, moved>> /\ UNCHANGED calls /\ f \in File /\ fr.op \in Positional
      /\ fr.stage = "finish" /\ Head(fr.todo) = "pos" /\ "pos" \in Pend(fr.todo)
      /\ UNCHANGED f_pos \/ \E p \in Nat : f_pos' = [f_pos EXCEPT ![f] = p]
      /\ pos_lock' = [pos_lock EXCEPT ![f] = IF Has(f, "ATOMIC_POS") THEN NULL ELSE @]
  BY <1>1, FdputEffect
<1>4. TypeOK /\ pos_lock \in [File -> Task \cup {NULL}]
  BY DEF CallInv, TypeOK
<1>5. /\ f_pos' \in [File -> Nat] /\ i_size' \in [Inode -> Nat]
      /\ calls' \in [Task -> Nat] /\ ioac[t] \in Account
  BY <1>3, <1>4, KeptTypes, PosType
<1>6. pos_lock' \in [File -> Task \cup {NULL}]
  BY <1>3, <1>4
<1>7. Has(f, "ATOMIC_POS") => pos_lock[f] = t
  BY <1>1, <1>3, LockOfTask DEF LockOf, Holding
<1>8. OthersLocks(t)
  <2>1. SUFFICES ASSUME NEW u \in Task, NEW x \in File, u # t, pos_lock[x] = u PROVE pos_lock'[x] = u
    BY DEF OthersLocks
  <2>2. CASE x = f
    BY <1>3, <1>4, <1>7, <2>1, <2>2
  <2>3. CASE x # f
    BY <1>3, <1>4, <2>1, <2>3
  <2> QED BY <2>2, <2>3
<1>9. CallOK(g) /\ ~ Holding(g)
  BY <1>2, <1>3 DEF Follows, Holding
<1>10. Head(fr.todo) \notin Counters
  BY <1>3 DEF Counters
<1>11. /\ AccountOf(ioac[t], moved[t], fr) => AccountOf(ioac[t], moved[t], g)
       /\ RateOf(ioac[t], fr) => RateOf(ioac[t], g)
  BY <1>2, <1>5, <1>10, StillAccount
<1> QED BY <1>1, <1>2, <1>3, <1>5, <1>6, <1>8, <1>9, <1>11, NotHolding, QuietSound

LEMMA StoreSound ==
  ASSUME CallInv, LockInv, NEW t \in Task, NEW s \in Stores, StorePos(t, s)
  PROVE  Sound(t)
<1>1. PICK fr : fr = call[t]
  OBVIOUS
<1>2. PICK g : Follows(g, fr) /\ call' = [call EXCEPT ![t] = g]
  BY <1>1, StoreEffect
<1>3. /\ UNCHANGED pos_lock /\ UNCHANGED i_size /\ UNCHANGED <<ioac, moved>> /\ UNCHANGED calls
      /\ fr.op \in Unlocked
      /\ fr.stage = "finish" /\ Head(fr.todo) = s
      /\ UNCHANGED f_pos \/ \E f \in File, p \in Nat : f_pos' = [f_pos EXCEPT ![f] = p]
  BY <1>1, StoreEffect
<1>4. TypeOK
  BY DEF CallInv, TypeOK
<1>5. /\ f_pos' \in [File -> Nat] /\ i_size' \in [Inode -> Nat] /\ pos_lock' \in [File -> Task \cup {NULL}]
      /\ calls' \in [Task -> Nat] /\ OthersLocks(t) /\ ioac[t] \in Account
  BY <1>3, <1>4, KeptTypes, PosType
<1>6. CallOK(g) /\ g.op \in Unlocked
  BY <1>2, <1>3 DEF Follows
<1>7. ~ Holding(g)
  BY <1>6 DEF Holding, Unlocked, Positional
<1>8. Head(fr.todo) \notin Counters
  BY <1>3 DEF Counters, Stores
<1>9. /\ AccountOf(ioac[t], moved[t], fr) => AccountOf(ioac[t], moved[t], g)
      /\ RateOf(ioac[t], fr) => RateOf(ioac[t], g)
  BY <1>2, <1>5, <1>8, StillAccount
<1> QED BY <1>1, <1>2, <1>3, <1>5, <1>6, <1>7, <1>9, NotHolding, QuietSound

LEMMA TaskSound ==
  ASSUME CallInv, LockInv, NEW t \in Task, Call(t) \/ SeekCall(t) \/ Step(t)
  PROVE  Sound(t)
<1>1. \/ Call(t) \/ SeekCall(t) \/ (\E env \in Env : FdgetPos(t, env)) \/ Transfer(t)
      \/ (\E s \in {"rchar", "wchar"} : AddChar(t, s)) \/ (\E s \in {"syscr", "syscw"} : IncSysc(t, s))
      \/ FdputPos(t) \/ (\E s \in {"pos_in", "pos_out"} : StorePos(t, s)) \/ Return(t)
  BY DEF Step
<1> QED BY <1>1, CallSound, SeekSound, FdgetSound, TransferSound, AddCharSound, IncSyscSound, FdputSound,
      StoreSound, ReturnSound
        DEF Chars, Stores

-----------------------------------------------------------------------------
IoInv == CallInv /\ LockInv /\ AccountExact /\ RateInv

LEMMA AccountExactIs == AccountExact <=> \A t \in Task : AccountOf(ioac[t], moved[t], call[t])
<1>1. \A t \in Task : \A s : (\E i \in DOMAIN call[t].todo : call[t].todo[i] = s) <=> s \in Pend(call[t].todo)
  BY DEF Pend
<1> QED BY <1>1 DEF AccountExact, AccountOf, Left

LEMMA RateInvIs == RateInv <=> \A t \in Task : RateOf(ioac[t], call[t])
  BY DEF RateInv, RateOf

LEMMA LockInvIs == LockInv <=> \A t \in Task : LockOf(call[t], t, pos_lock)
  BY DEF LockInv, LockOf

\* A call that holds a position holds that of an open file.
LEMMA HoldingFile ==
  ASSUME NEW fr, CallOK(fr), Holding(fr)
  PROVE  TheFile(fr) \in File
<1>1. fr.op \in Positional /\ (fr.stage = "xfer" \/ (fr.stage = "finish" /\ "pos" \in Pend(fr.todo)))
  BY DEF Holding
<1>2. fr.op \in RwOps \ Unlocked
  BY <1>1, PosOps
<1>3. Sides(fr)
  BY <1>1 DEF CallOK, XferOK, FinishOK
<1> QED BY <1>2, <1>3 DEF TheFile, Sides, RwOps

LEMMA SoundKeeps ==
  ASSUME IoInv, NEW t \in Task, Sound(t)
  PROVE  IoInv'
<1>1. PICK g :
  /\ CallOK(g) /\ call' = [call EXCEPT ![t] = g] /\ TypesKept
  /\ \A u \in Task : u # t => ioac'[u] = ioac[u] /\ moved'[u] = moved[u]
  /\ AccountOf(ioac[t], moved[t], call[t]) => AccountOf(ioac'[t], moved'[t], g)
  /\ RateOf(ioac[t], call[t]) => RateOf(ioac'[t], g)
  /\ OthersLocks(t) /\ LockOf(g, t, pos_lock')
  BY DEF Sound
<1>2. CallInv /\ LockInv /\ AccountExact /\ RateInv
  BY DEF IoInv
<1>3. /\ call' \in [Task -> Frame] /\ \A u \in Task : CallOK(call[u])'
      /\ call'[t] = g /\ \A u \in Task : u # t => call'[u] = call[u]
  BY <1>1, <1>2, OneCall
<1>4. TypeOK'
  BY <1>1, <1>3 DEF TypesKept, TypeOK, Bytes
<1>5. CallInv'
  BY <1>3, <1>4 DEF CallInv
<1>6. \A u \in Task : AccountOf(ioac'[u], moved'[u], call'[u])
  <2> TAKE u \in Task
  <2>1. AccountOf(ioac[u], moved[u], call[u])
    BY <1>2, AccountExactIs
  <2>2. CASE u = t
    BY <1>1, <1>3, <2>1, <2>2
  <2>3. CASE u # t
    BY <1>1, <1>3, <2>1, <2>3
  <2> QED BY <2>2, <2>3
<1>7. AccountExact'
  <2>1. \A u \in Task : \A s : (\E i \in DOMAIN call'[u].todo : call'[u].todo[i] = s) <=> s \in Pend(call'[u].todo)
    BY DEF Pend
  <2> QED BY <1>6, <2>1 DEF AccountExact, AccountOf, Left
<1>8. \A u \in Task : RateOf(ioac'[u], call'[u])
  <2> TAKE u \in Task
  <2>1. RateOf(ioac[u], call[u])
    BY <1>2, RateInvIs
  <2>2. CASE u = t
    BY <1>1, <1>3, <2>1, <2>2
  <2>3. CASE u # t
    BY <1>1, <1>3, <2>1, <2>3
  <2> QED BY <2>2, <2>3
<1>9. RateInv'
  BY <1>8 DEF RateInv, RateOf
<1>10. \A u \in Task : LockOf(call'[u], u, pos_lock')
  <2> TAKE u \in Task
  <2>1. CASE u = t
    BY <1>1, <1>3, <2>1
  <2>2. CASE u # t
    <3>1. call'[u] = call[u] /\ LockOf(call[u], u, pos_lock) /\ CallOK(call[u])
      BY <1>2, <1>3, <2>2, LockInvIs DEF CallInv
    <3>2. Holding(call[u]) => TheFile(call[u]) \in File
      BY <3>1, HoldingFile
    <3>3. LockOf(call[u], u, pos_lock')
      BY <1>1, <2>2, <3>1, <3>2 DEF LockOf, OthersLocks
    <3> QED BY <3>1, <3>3
  <2> QED BY <2>1, <2>2
<1>11. LockInv'
  BY <1>10 DEF LockInv, LockOf
<1> QED BY <1>5, <1>7, <1>9, <1>11 DEF IoInv

LEMMA SameKeeps ==
  ASSUME IoInv, UNCHANGED <<f_pos, pos_lock, ioac, moved, call>>, i_size' \in [Inode -> Nat],
    calls' \in [Task -> Nat]
  PROVE  IoInv'
<1>1. TypeOK'
  BY DEF IoInv, CallInv, TypeOK
<1>2. CallInv'
  BY <1>1 DEF IoInv, CallInv
<1>3. LockInv'
  BY DEF IoInv, LockInv
<1>4. AccountExact'
  BY DEF IoInv, AccountExact
<1>5. RateInv'
  BY DEF IoInv, RateInv
<1> QED BY <1>2, <1>3, <1>4, <1>5 DEF IoInv

LEMMA TruncateKeeps ==
  ASSUME IoInv, NEW i \in Inode, NEW n \in 0..MaxBytes, Truncate(i, n)
  PROVE  IoInv'
<1>1. i_size \in [Inode -> Nat] /\ calls \in [Task -> Nat] /\ n \in Nat
  BY FileAssumption DEF IoInv, CallInv, TypeOK
<1>2. i_size' = [i_size EXCEPT ![i] = n] /\ UNCHANGED calls /\ UNCHANGED <<f_pos, pos_lock, ioac, moved, call>>
  BY DEF Truncate
<1>3. i_size' \in [Inode -> Nat] /\ calls' \in [Task -> Nat]
  BY <1>1, <1>2
<1> QED BY <1>2, <1>3, SameKeeps

LEMMA FileInit == Init => IoInv
<1>1. SUFFICES ASSUME Init PROVE IoInv
  OBVIOUS
<1>2. \A t \in Task : call[t] = NoCall
  BY <1>1 DEF Init
<1>3. /\ NoCall.stage = "idle" /\ NoCall.todo = <<>> /\ NoCall.in = NULL /\ NoCall.out = NULL /\ NoCall.op = "none"
      /\ NoCall.done = 0 /\ NoCall \in Frame
  BY NoCallFields
<1>4. CallOK(NoCall)
  BY <1>3 DEF CallOK, IdleOK
<1>5. Pend(NoCall.todo) = {} /\ Paired(NoCall.todo)
  BY <1>3, EmptyTodo, EmptyPaired
<1>6. PICK a, m : a = [rchar |-> 0, wchar |-> 0, syscr |-> 0, syscw |-> 0] /\ m = [read |-> 0, written |-> 0]
  OBVIOUS
<1>7. a \in Account /\ m \in Bytes /\ a.rchar = 0 /\ a.wchar = 0 /\ a.syscr = 0 /\ a.syscw = 0 /\ m.read = 0
      /\ m.written = 0
  BY <1>6 DEF Account, Bytes
<1>8. \A t \in Task : ioac[t] = a /\ moved[t] = m
  BY <1>1, <1>6 DEF Init
<1>9. TypeOK
  <2>1. f_pos \in [File -> Nat] /\ i_size \in [Inode -> Nat] /\ pos_lock \in [File -> Task \cup {NULL}]
        /\ calls \in [Task -> Nat]
    BY <1>1, FileAssumption DEF Init
  <2>2. ioac \in [Task -> Account] /\ moved \in [Task -> Bytes]
    BY <1>1, <1>6, <1>7 DEF Init
  <2>3. call \in [Task -> Frame]
    BY <1>1, <1>3 DEF Init
  <2> QED BY <2>1, <2>2, <2>3 DEF TypeOK, Bytes
<1>10. CallInv
  BY <1>2, <1>4, <1>9 DEF CallInv
<1>11. ~ Holding(NoCall)
  BY <1>3 DEF Holding
<1>12. LockInv
  BY <1>2, <1>11 DEF LockInv
<1>13. AccountOf(a, m, NoCall)
  BY <1>3, <1>7 DEF AccountOf
<1>14. AccountExact
  BY <1>2, <1>8, <1>13, AccountExactIs
<1>15. Extra(NoCall, "rchar", "syscr") = 0 /\ Extra(NoCall, "wchar", "syscw") = 0
  BY <1>5, PairedExtra
<1>16. RateOf(a, NoCall)
  BY <1>7, <1>15, FileAssumption DEF RateOf
<1>17. RateInv
  BY <1>2, <1>8, <1>16, RateInvIs
<1> QED BY <1>10, <1>12, <1>14, <1>17 DEF IoInv

LEMMA FileNext == IoInv /\ [Next]_vars => IoInv'
<1>1. SUFFICES ASSUME IoInv, [Next]_vars PROVE IoInv'
  OBVIOUS
<1>2. CASE UNCHANGED vars
  <2>1. UNCHANGED <<f_pos, pos_lock, ioac, moved, call>> /\ UNCHANGED i_size /\ UNCHANGED calls
    BY <1>2 DEF vars, fileVars
  <2>2. i_size' \in [Inode -> Nat] /\ calls' \in [Task -> Nat]
    BY <1>1, <2>1 DEF IoInv, CallInv, TypeOK
  <2> QED BY <1>1, <2>1, <2>2, SameKeeps
<1>3. ASSUME NEW t \in Task, Call(t) \/ SeekCall(t) \/ Step(t) PROVE IoInv'
  <2>1. Sound(t)
    BY <1>1, <1>3, TaskSound DEF IoInv
  <2> QED BY <1>1, <2>1, SoundKeeps
<1>4. ASSUME NEW i \in Inode, NEW n \in 0..MaxBytes, Truncate(i, n) PROVE IoInv'
  BY <1>1, <1>4, TruncateKeeps
<1> QED BY <1>1, <1>2, <1>3, <1>4 DEF Next

-----------------------------------------------------------------------------
\* read, write, readv, writev and lseek leave the position of another call alone.
LEMMA StepPosition ==
  ASSUME IoInv, [Next]_vars, NEW t \in Task, Holding(call[t]), NEW f, f = TheFile(call[t]), Has(f, "ATOMIC_POS"),
         f_pos'[f] # f_pos[f]
  PROVE  \E u \in Task : call'[u] # call[u] /\ (u = t \/ call[u].op \in Unlocked)
<1>1. CallInv /\ LockInv /\ TypeOK /\ f_pos \in [File -> Nat] /\ call \in [Task -> Frame]
  BY DEF IoInv, CallInv, TypeOK
<1>2. f \in File /\ pos_lock[f] = t /\ NULL \notin Task
  BY <1>1, HoldingFile, FileAssumption DEF CallInv, LockInv
<1>3. f_pos' # f_pos
  OBVIOUS
<1>4. PICK u \in Task : SeekCall(u) \/ FdputPos(u) \/ \E s \in Stores : StorePos(u, s)
  <2>1. PICK u \in Task : Call(u) \/ SeekCall(u) \/ Step(u)
    BY <1>3 DEF Next, vars, fileVars, Truncate
  <2>2. ~ Call(u)
    BY <1>1, <1>3, CallBegins
  <2>3. ~ Transfer(u) /\ (\A env : ~ FdgetPos(u, env)) /\ (\A s : ~ AddChar(u, s) /\ ~ IncSysc(u, s)) /\ ~ Return(u)
    BY <1>3 DEF Transfer, FdgetPos, AddChar, IncSysc, Return, fileVars
  <2> QED BY <2>1, <2>2, <2>3 DEF Step, Stores
<1>5. CASE SeekCall(u)
  <2>1. PICK x \in File, p \in Nat : /\ Has(x, "ATOMIC_POS") => pos_lock[x] = NULL
                                     /\ f_pos' = [f_pos EXCEPT ![x] = p]
    BY <1>1, <1>3, <1>5, SeekEffect
  <2>2. x = f
    BY <1>1, <1>2, <2>1
  <2> QED BY <1>2, <2>1, <2>2
<1>6. CASE FdputPos(u)
  <2>1. PICK fr, x : fr = call[u] /\ x = TheFile(fr)
    OBVIOUS
  <2>2. PICK g : Follows(g, fr) /\ call' = [call EXCEPT ![u] = g]
    BY <1>1, <1>6, <2>1, FdputEffect
  <2>3. x \in File /\ fr.op \in Positional /\ fr.stage = "finish" /\ "pos" \in Pend(fr.todo)
        /\ \E p \in Nat : f_pos' = [f_pos EXCEPT ![x] = p]
    BY <1>1, <1>3, <1>6, <2>1, FdputEffect
  <2>4. x = f
    BY <1>1, <1>2, <2>3
  <2>5. Holding(call[u]) /\ Has(TheFile(call[u]), "ATOMIC_POS")
    BY <2>1, <2>3, <2>4 DEF Holding
  <2>6. pos_lock[TheFile(call[u])] = u
    BY <1>1, <2>5 DEF LockInv
  <2>7. u = t
    BY <1>2, <2>1, <2>4, <2>6
  <2>8. call'[u] = g /\ g # fr
    BY <1>1, <2>2 DEF Follows
  <2> QED BY <2>1, <2>7, <2>8
<1>7. ASSUME NEW s \in Stores, StorePos(u, s) PROVE call'[u] # call[u] /\ call[u].op \in Unlocked
  <2>1. PICK fr : fr = call[u]
    OBVIOUS
  <2>2. PICK g : Follows(g, fr) /\ call' = [call EXCEPT ![u] = g]
    BY <1>1, <1>7, <2>1, StoreEffect
  <2>3. fr.op \in Unlocked
    BY <1>1, <1>7, <2>1, StoreEffect
  <2>4. call'[u] = g /\ g # fr
    BY <1>1, <2>2 DEF Follows
  <2> QED BY <2>1, <2>3, <2>4
<1> QED BY <1>4, <1>5, <1>6, <1>7

\* The result of a call.
LEMMA StepReports ==
  ASSUME IoInv, [Next]_vars, NEW t \in Task, call[t].done > 0, call'[t].stage = "idle"
  PROVE  call'[t].ret = call[t].done \/ (call'[t].ret = EFAULT /\ call[t].user # {})
<1>1. CallInv /\ LockInv /\ TypeOK /\ call \in [Task -> Frame] /\ CallOK(call[t])
  BY DEF IoInv, CallInv, TypeOK
<1>2. PICK fr : fr = call[t]
  OBVIOUS
<1>3. fr.stage = "finish" /\ fr \in Frame /\ fr.done # 0
  <2>1. CallOK(fr) /\ fr.done > 0
    BY <1>1, <1>2
  <2>2. fr \in Frame
    BY <2>1 DEF CallOK
  <2>3. fr.done # 0
    BY <2>1, <2>2 DEF Frame
  <2>4. fr.stage \in Stages
    BY <2>2 DEF Frame
  <2>5. fr.stage # "idle" /\ fr.stage # "lock" /\ fr.stage # "xfer"
    BY <2>1, <2>3 DEF CallOK, IdleOK, LockOK, XferOK
  <2> QED BY <2>2, <2>3, <2>4, <2>5 DEF Stages
<1>4. call'[t] # call[t]
  BY <1>2, <1>3
<1>5. PICK u \in Task : Call(u) \/ SeekCall(u) \/ Step(u)
  BY <1>4 DEF Next, vars, fileVars, Truncate
<1>6. Sound(u)
  BY <1>1, <1>5, TaskSound
<1>7. PICK h : call' = [call EXCEPT ![u] = h]
  BY <1>6 DEF Sound
<1>8. u = t
  BY <1>1, <1>4, <1>7
<1>9. ~ Call(t) /\ ~ SeekCall(t) /\ ~ Transfer(t) /\ (\A env : ~ FdgetPos(t, env))
  BY <1>2, <1>3 DEF Call, SeekCall, Ready, Transfer, FdgetPos
<1>10. ASSUME NEW g, Follows(g, fr), call' = [call EXCEPT ![t] = g] PROVE FALSE
  BY <1>1, <1>10 DEF Follows
<1>11. /\ \A s \in Chars : ~ AddChar(t, s)
       /\ \A s \in {"syscr", "syscw"} : ~ IncSysc(t, s)
       /\ ~ FdputPos(t) /\ \A s \in Stores : ~ StorePos(t, s)
  <2>1. \A s \in Chars : ~ AddChar(t, s)
    BY <1>1, <1>2, <1>10, AddCharEffect
  <2>2. \A s \in {"syscr", "syscw"} : ~ IncSysc(t, s)
    BY <1>1, <1>2, <1>10, IncSyscEffect
  <2>3. ~ FdputPos(t)
    <3>1. PICK f : f = TheFile(fr)
      OBVIOUS
    <3> QED BY <1>1, <1>2, <1>10, <3>1, FdputEffect
  <2>4. \A s \in Stores : ~ StorePos(t, s)
    BY <1>1, <1>2, <1>10, StoreEffect
  <2> QED BY <2>1, <2>2, <2>3, <2>4
<1>12. Return(t)
  BY <1>5, <1>8, <1>9, <1>11 DEF Step, Chars, Stores
<1>13. PICK r \in Int : /\ call' = [call EXCEPT ![t] = [NoCall EXCEPT !.ret = r]]
                        /\ fr.done > 0 => r = fr.done \/ (r = EFAULT /\ fr.user # {})
  BY <1>1, <1>2, <1>12, ReturnEffect
<1>14. PICK g : g = [NoCall EXCEPT !.ret = r]
  OBVIOUS
<1>15. g.ret = r /\ call'[t] = g
  BY <1>1, <1>13, <1>14, IdleFields
<1> QED BY <1>2, <1>13, <1>15

-----------------------------------------------------------------------------
LEMMA StepGrows ==
  ASSUME MaxNonLfs <= MaxBytes, IoInv, IoInv', [Next]_vars
  PROVE  /\ \A f \in File : f_pos'[f] >= 0
         /\ \A i \in Inode : i_size'[i] > i_size[i] =>
              /\ i_size'[i] <= MaxBytes
              /\ FsizeLimit # NULL => i_size'[i] <= FsizeLimit
              /\ (\A f \in File : Attr[f].inode = i => ~ Has(f, "LARGEFILE")) => i_size'[i] <= MaxNonLfs
<1>1. CallInv /\ LockInv /\ i_size \in [Inode -> Nat] /\ f_pos' \in [File -> Nat]
  BY DEF IoInv, CallInv, TypeOK
<1>2. \A f \in File : f_pos'[f] >= 0
  BY <1>1
<1>3. SUFFICES ASSUME NEW i \in Inode, i_size'[i] > i_size[i]
               PROVE  /\ i_size'[i] <= MaxBytes
                      /\ FsizeLimit # NULL => i_size'[i] <= FsizeLimit
                      /\ (\A f \in File : Attr[f].inode = i => ~ Has(f, "LARGEFILE")) => i_size'[i] <= MaxNonLfs
  BY <1>2
<1>4. i_size' # i_size
  BY <1>1, <1>3
<1>5. ASSUME NEW j \in Inode, NEW n \in 0..MaxBytes, Truncate(j, n) PROVE FALSE
  <2>1. i_size' = [i_size EXCEPT ![j] = n] /\ n < i_size[j] /\ n \in Int
    BY <1>5, FileAssumption DEF Truncate
  <2> QED BY <1>1, <1>3, <2>1
<1>6. PICK u \in Task : Call(u) \/ SeekCall(u) \/ Step(u)
  BY <1>4, <1>5 DEF Next, vars, fileVars
<1>7. Transfer(u)
  <2>1. ~ Call(u) /\ ~ SeekCall(u)
    BY <1>1, <1>4, CallBegins, SeekEffect
  <2>2. (\A env : ~ FdgetPos(u, env)) /\ (\A s : ~ AddChar(u, s) /\ ~ IncSysc(u, s) /\ ~ StorePos(u, s))
        /\ ~ Return(u) /\ ~ FdputPos(u)
    BY <1>4 DEF FdgetPos, AddChar, IncSysc, StorePos, FdputPos, Return, fileVars
  <2> QED BY <1>6, <2>1, <2>2 DEF Step
<1>8. PICK fr : fr = call[u]
  OBVIOUS
<1>9. Grows(fr)
  BY <1>1, <1>7, <1>8, TransferEffect
<1>10. PICK e \in Nat : /\ fr.out \in File /\ Within(fr.out, e)
                        /\ i_size' = [i_size EXCEPT ![Attr[fr.out].inode] = MaxOf(@, e)]
  BY <1>4, <1>9 DEF Grows
<1>11. i = Attr[fr.out].inode /\ i_size'[i] = e
  BY <1>1, <1>3, <1>10 DEF MaxOf
<1>12. MaxBytes \in Nat /\ MaxNonLfs \in Nat
  BY FileAssumption
<1> QED BY <1>10, <1>11, <1>12 DEF Within

\* The invariant of the calls on files: what a call relies on between its steps
\* holds however the calls of any number of tasks interleave.
THEOREM FileInvariant == Spec => []IoInv
  BY FileInit, FileNext, PTL DEF Spec

\* The bytes that add_rchar() and add_wchar() have added to a task are those that
\* its calls have moved, but for a call that has moved some and not yet counted
\* them: on every path of read_write.c, for any number of tasks and calls.
THEOREM AccountIsExact == Spec => []AccountExact
<1>1. IoInv => AccountExact
  BY DEF IoInv
<1> QED BY <1>1, FileInvariant, PTL

\* The ranges that generic_copy_file_checks() lets through never overlap in one
\* file, for every offset and length, and stay apart until the bytes are moved.
THEOREM CopiesApart == Spec => []NoOverlappingCopy
<1>1. IoInv => NoOverlappingCopy
  <2>1. SUFFICES ASSUME IoInv, NEW t \in Task, call[t].op = "copy_file_range", call[t].stage = "xfer",
                        Attr[call[t].in].inode = Attr[call[t].out].inode
                 PROVE  \/ call[t].pos + call[t].count <= call[t].out_pos
                        \/ call[t].out_pos + call[t].count <= call[t].pos
    BY DEF NoOverlappingCopy
  <2>2. XferOK(call[t])
    BY <2>1 DEF IoInv, CallInv, CallOK
  <2> QED BY <2>1, <2>2 DEF XferOK, Apart
<1> QED BY <1>1, FileInvariant, PTL

\* Between fdget_pos() and fdput_pos() no other task changes the position of the
\* file, but with sendfile or copy_file_range, which do not take the lock.
THEOREM PositionsAreKept == Spec => PositionKept
<1>1. IoInv /\ [Next]_vars =>
        [\A t \in Task : LET f == TheFile(call[t]) IN
           HoldsPos(t) /\ Has(f, "ATOMIC_POS") /\ f_pos'[f] # f_pos[f] =>
             \E u \in Task : call'[u] # call[u] /\ (u = t \/ call[u].op \in Unlocked)]_vars
  <2>1. \A t \in Task : HoldsPos(t) <=> Holding(call[t])
    BY DEF HoldsPos, Holding, Pend
  <2> QED BY <2>1, StepPosition
<1> QED BY <1>1, FileInvariant, PTL DEF Spec, PositionKept

\* A call that has moved bytes returns their number, unless a copied-back offset
\* faults: vfs_read(), vfs_write(), do_sendfile() and vfs_copy_file_range().
THEOREM CallsReportMoved == Spec => ReportsMoved
<1>1. IoInv /\ [Next]_vars =>
        [\A t \in Task : call[t].done > 0 /\ call'[t].stage = "idle" =>
           call'[t].ret = call[t].done \/ (call'[t].ret = EFAULT /\ call[t].user # {})]_vars
  BY StepReports
<1> QED BY <1>1, FileInvariant, PTL DEF Spec, ReportsMoved

\* generic_write_check_limits() and vfs_setpos(): no position falls below 0, and
\* no write makes a file grow beyond RLIMIT_FSIZE, the limit of the file system
\* or that of a file opened without O_LARGEFILE.
\* That limit is taken instead of the one of the file system, hence the
\* assumption that it is the smaller one.
THEOREM FilesGrowWithinLimits ==
  ASSUME MaxNonLfs <= MaxBytes
  PROVE  Spec => GrowsWithinLimits
<1>1. IoInv /\ IoInv' /\ [Next]_vars =>
        [/\ \A f \in File : f_pos'[f] >= 0
         /\ \A i \in Inode : i_size'[i] > i_size[i] =>
              /\ i_size'[i] <= MaxBytes
              /\ FsizeLimit # NULL => i_size'[i] <= FsizeLimit
              /\ (\A f \in File : Attr[f].inode = i => ~ Has(f, "LARGEFILE")) => i_size'[i] <= MaxNonLfs]_vars
  BY StepGrows
<1> QED BY <1>1, FileInvariant, PTL DEF Spec, GrowsWithinLimits

-----------------------------------------------------------------------------
\* What a reader has still to copy.
Rests == {Fields, <<"wchar", "syscr", "syscw">>, <<"syscr", "syscw">>, <<"syscw">>, <<>>}

Report == [stage : {"idle", "lookup", "syscall", "show"}, task : Task \cup {NULL}, todo : Rests, stats : Account,
           start : [Task -> Account], label : Task \cup {NULL}, ret : Int]

\* The reader fr and the counters a of its task: a counter that is copied lies
\* between its values at the lookup and now, and the bytes that are copied
\* belong to the calls that are counted, or that will be copied.
ReadOf(fr, a) ==
  /\ \A c \in Counters : fr.start[fr.task][c] <= a[c]
  /\ \A c \in Counters : c \notin Pend(fr.todo) => fr.start[fr.task][c] <= fr.stats[c] /\ fr.stats[c] <= a[c]
  /\ "rchar" \notin Pend(fr.todo) =>
       fr.stats.rchar <= MaxRw * ((IF "syscr" \in Pend(fr.todo) THEN a.syscr ELSE fr.stats.syscr) + 1)
  /\ "wchar" \notin Pend(fr.todo) =>
       fr.stats.wchar <= MaxRw * ((IF "syscw" \in Pend(fr.todo) THEN a.syscw ELSE fr.stats.syscw) + 1)

ReadersInv ==
  /\ reader \in [Reader -> Report] /\ pids \subseteq Task /\ pid \in Task \cup {NULL}
  /\ \A r \in Reader : reader[r].stage \in {"syscall", "show"} =>
       reader[r].task \in Task /\ ReadOf(reader[r], ioac[reader[r].task])

LEMMA RestsOK ==
  ASSUME NEW q \in Rests, q # <<>>
  PROVE  /\ Tail(q) \in Rests /\ Head(q) \in Counters /\ Head(q) \in Pend(q) /\ Pend(Tail(q)) = Pend(q) \ {Head(q)}
         /\ Pend(q) \subseteq Counters
         /\ Head(q) = "rchar" => "syscr" \in Pend(Tail(q))
         /\ Head(q) = "wchar" => "syscw" \in Pend(Tail(q))
<1>1. CASE q = Fields
  <2>1. q = <<"rchar", "wchar", "syscr", "syscw">> /\ Tail(q) = <<"wchar", "syscr", "syscw">> /\ Head(q) = "rchar"
    BY <1>1 DEF Fields
  <2>2. Pend(q) = {"rchar", "wchar", "syscr", "syscw"} /\ Pend(Tail(q)) = {"wchar", "syscr", "syscw"}
    BY <2>1 DEF Pend
  <2> QED BY <2>1, <2>2 DEF Rests, Counters
<1>2. CASE q = <<"wchar", "syscr", "syscw">>
  <2>1. Tail(q) = <<"syscr", "syscw">> /\ Head(q) = "wchar"
    BY <1>2
  <2>2. Pend(q) = {"wchar", "syscr", "syscw"} /\ Pend(Tail(q)) = {"syscr", "syscw"}
    BY <1>2, <2>1 DEF Pend
  <2> QED BY <2>1, <2>2 DEF Rests, Counters
<1>3. CASE q = <<"syscr", "syscw">>
  <2>1. Tail(q) = <<"syscw">> /\ Head(q) = "syscr"
    BY <1>3
  <2>2. Pend(q) = {"syscr", "syscw"} /\ Pend(Tail(q)) = {"syscw"}
    BY <1>3, <2>1 DEF Pend
  <2> QED BY <2>1, <2>2 DEF Rests, Counters
<1>4. CASE q = <<"syscw">>
  <2>1. Tail(q) = <<>> /\ Head(q) = "syscw"
    BY <1>4
  <2>2. Pend(q) = {"syscw"} /\ Pend(Tail(q)) = {}
    BY <1>4, <2>1 DEF Pend
  <2> QED BY <2>1, <2>2 DEF Rests, Counters
<1> QED BY <1>1, <1>2, <1>3, <1>4 DEF Rests

LEMMA Grown == \A m, x, y \in Nat : x <= y => m * (x + 1) <= m * (y + 1)
<1> TAKE m, x, y \in Nat
<1>1. \A k \in Nat : m * (x + k) = m * x + m * k /\ m * k \in Nat
  OBVIOUS
<1>2. ASSUME x <= y PROVE m * (x + 1) <= m * (y + 1)
  <2>1. PICK k \in Nat : y = x + k
    <3>1. y - x \in Nat /\ y = x + (y - x)
      BY <1>2
    <3> QED BY <3>1
  <2>2. m * ((x + 1) + k) = m * (x + 1) + m * k /\ m * k \in Nat /\ m * (x + 1) \in Nat
    OBVIOUS
  <2>3. y + 1 = (x + 1) + k
    BY <2>1
  <2> QED BY <2>2, <2>3
<1> QED BY <1>2

\* The counters only grow.
LEMMA ReadOfGrows ==
  ASSUME NEW fr \in Report, fr.task \in Task, NEW a \in Account,
    NEW b \in Account, \A c \in Counters : b[c] >= a[c], ReadOf(fr, a)
  PROVE  ReadOf(fr, b)
<1>1. \A c \in Counters : fr.start[fr.task][c] \in Nat /\ fr.stats[c] \in Nat /\ a[c] \in Nat /\ b[c] \in Nat
  <2>1. fr.start[fr.task] \in Account /\ fr.stats \in Account
    BY DEF Report
  <2> QED BY <2>1, NotLess
<1>2. /\ \A c \in Counters : fr.start[fr.task][c] <= b[c]
      /\ \A c \in Counters : c \notin Pend(fr.todo) => fr.start[fr.task][c] <= fr.stats[c] /\ fr.stats[c] <= b[c]
  BY <1>1 DEF ReadOf
<1>3. /\ a.syscr \in Nat /\ a.syscw \in Nat /\ b.syscr \in Nat /\ b.syscw \in Nat /\ a.syscr <= b.syscr
      /\ a.syscw <= b.syscw
      /\ fr.stats.rchar \in Nat /\ fr.stats.wchar \in Nat /\ MaxRw \in Nat
  BY <1>1, FileAssumption DEF Counters
<1>4. MaxRw * (a.syscr + 1) <= MaxRw * (b.syscr + 1) /\ MaxRw * (a.syscw + 1) <= MaxRw * (b.syscw + 1)
  BY <1>3, Grown
<1>5. MaxRw * (a.syscr + 1) \in Nat /\ MaxRw * (b.syscr + 1) \in Nat /\ MaxRw * (a.syscw + 1) \in Nat
      /\ MaxRw * (b.syscw + 1) \in Nat
  BY <1>3
<1>6. "rchar" \notin Pend(fr.todo) =>
       fr.stats.rchar <= MaxRw * ((IF "syscr" \in Pend(fr.todo) THEN b.syscr ELSE fr.stats.syscr) + 1)
  BY <1>3, <1>4, <1>5 DEF ReadOf
<1>7. "wchar" \notin Pend(fr.todo) =>
       fr.stats.wchar <= MaxRw * ((IF "syscw" \in Pend(fr.todo) THEN b.syscw ELSE fr.stats.syscw) + 1)
  BY <1>3, <1>4, <1>5 DEF ReadOf
<1> QED BY <1>2, <1>6, <1>7 DEF ReadOf

-----------------------------------------------------------------------------
\* stats->c = task->ioac.c, and the rest is left to copy.
Copied(fr, a) == [fr EXCEPT !.todo = Tail(@), !.stats[Head(fr.todo)] = a[Head(fr.todo)]]

LEMMA CopiedFields ==
  ASSUME NEW fr \in Report, fr.todo # <<>>, NEW a \in Account, NEW g, g = Copied(fr, a)
  PROVE  /\ g \in Report /\ g.stage = fr.stage /\ g.task = fr.task /\ g.start = fr.start /\ g.todo = Tail(fr.todo)
         /\ g.stats = SetTo(fr.stats, Head(fr.todo), a[Head(fr.todo)])
<1>1. fr.todo \in Rests /\ fr.stats \in Account
  BY DEF Report
<1>2. Tail(fr.todo) \in Rests /\ Head(fr.todo) \in Counters
  <2>1. PICK q : q = fr.todo
    OBVIOUS
  <2>2. q \in Rests /\ q # <<>>
    BY <1>1, <2>1
  <2>3. Tail(q) \in Rests /\ Head(q) \in Counters
    BY <2>2, RestsOK
  <2> QED BY <2>1, <2>3
<1>3. PICK c, n, q, s : c = Head(fr.todo) /\ n = a[c] /\ q = Tail(fr.todo) /\ s = SetTo(fr.stats, c, n)
  OBVIOUS
<1>4. n \in Nat /\ c \in Counters /\ q \in Rests
  BY <1>2, <1>3, AccountSets
<1>5. SetOK(s, fr.stats, c, n)
  BY <1>1, <1>3, <1>4, AccountSets
<1>6. s \in Account
  BY <1>5 DEF SetOK
<1>7. g = [fr EXCEPT !.todo = q, !.stats = s]
  BY <1>3 DEF Copied, SetTo, Report
<1>8. /\ g \in Report /\ g.stage = fr.stage /\ g.task = fr.task /\ g.start = fr.start /\ g.todo = q /\ g.stats = s
  BY <1>4, <1>6, <1>7 DEF Report
<1> QED BY <1>3, <1>8

LEMMA CopyKeeps ==
  ASSUME NEW fr \in Report, fr.task \in Task, fr.todo # <<>>, NEW a \in Account, ReadOf(fr, a),
         a.rchar <= MaxRw * (a.syscr + 1), a.wchar <= MaxRw * (a.syscw + 1), NEW g, g = Copied(fr, a)
  PROVE  ReadOf(g, a)
<1>1. PICK c, n, q, s : c = Head(fr.todo) /\ n = a[c] /\ q = fr.todo /\ s = SetTo(fr.stats, c, n)
  OBVIOUS
<1>2. g.task = fr.task /\ g.start = fr.start /\ g.todo = Tail(q) /\ g.stats = s
  BY <1>1, CopiedFields
<1>3. fr.todo \in Rests /\ fr.stats \in Account
  BY DEF Report
<1>4. q \in Rests /\ q # <<>> /\ c = Head(q)
  BY <1>1, <1>3
<1>5. /\ c \in Counters /\ c \in Pend(q) /\ Pend(Tail(q)) = Pend(q) \ {c}
      /\ c = "rchar" => "syscr" \in Pend(Tail(q))
      /\ c = "wchar" => "syscw" \in Pend(Tail(q))
  BY <1>4, RestsOK
<1>6. n \in Nat
  BY <1>1, <1>5, AccountSets
<1>7. SetOK(s, fr.stats, c, n)
  BY <1>1, <1>3, <1>5, <1>6, AccountSets
<1>8. s[c] = a[c] /\ \A d \in Counters : d # c => s[d] = fr.stats[d]
  BY <1>1, <1>7 DEF SetOK
<1>9. /\ \A d \in Counters : fr.start[fr.task][d] <= a[d]
      /\ \A d \in Counters : d \notin Pend(q) => fr.start[fr.task][d] <= fr.stats[d] /\ fr.stats[d] <= a[d]
      /\ "rchar" \notin Pend(q) => fr.stats.rchar <= MaxRw * ((IF "syscr" \in Pend(q) THEN a.syscr ELSE fr.stats.syscr) + 1)
      /\ "wchar" \notin Pend(q) => fr.stats.wchar <= MaxRw * ((IF "syscw" \in Pend(q) THEN a.syscw ELSE fr.stats.syscw) + 1)
  BY <1>1 DEF ReadOf
<1>10. \A d \in Counters : a[d] \in Nat
  BY NotLess
<1>11. \A d \in Counters : d \notin Pend(Tail(q)) => fr.start[fr.task][d] <= s[d] /\ s[d] <= a[d]
  <2>1. SUFFICES ASSUME NEW d \in Counters, d \notin Pend(Tail(q))
        PROVE fr.start[fr.task][d] <= s[d] /\ s[d] <= a[d]
    OBVIOUS
  <2>2. CASE d = c
    <3>1. s[d] = a[d] /\ a[d] \in Nat
      BY <1>8, <1>10, <2>2
    <3> QED BY <1>9, <3>1
  <2>3. CASE d # c
    BY <1>5, <1>8, <1>9, <2>1, <2>3
  <2> QED BY <2>2, <2>3
<1>12. "rchar" \notin Pend(Tail(q)) => s.rchar <= MaxRw * ((IF "syscr" \in Pend(Tail(q)) THEN a.syscr ELSE s.syscr) + 1)
  <2>1. SUFFICES ASSUME "rchar" \notin Pend(Tail(q))
                 PROVE  s.rchar <= MaxRw * ((IF "syscr" \in Pend(Tail(q)) THEN a.syscr ELSE s.syscr) + 1)
    OBVIOUS
  <2>2. CASE c = "rchar"
    <3>1. s.rchar = a.rchar /\ "syscr" \in Pend(Tail(q))
      BY <1>5, <1>8, <2>2
    <3> QED BY <3>1
  <2>3. CASE c # "rchar"
    <3>1. s.rchar = fr.stats.rchar /\ "rchar" \notin Pend(q)
      BY <1>5, <1>8, <2>1, <2>3 DEF Counters
    <3>2. (IF "syscr" \in Pend(Tail(q)) THEN a.syscr ELSE s.syscr) = (IF "syscr" \in Pend(q) THEN a.syscr ELSE fr.stats.syscr)
      BY <1>5, <1>8 DEF Counters
    <3> QED BY <1>9, <3>1, <3>2
  <2> QED BY <2>2, <2>3
<1>13. "wchar" \notin Pend(Tail(q)) => s.wchar <= MaxRw * ((IF "syscw" \in Pend(Tail(q)) THEN a.syscw ELSE s.syscw) + 1)
  <2>1. SUFFICES ASSUME "wchar" \notin Pend(Tail(q))
                 PROVE  s.wchar <= MaxRw * ((IF "syscw" \in Pend(Tail(q)) THEN a.syscw ELSE s.syscw) + 1)
    OBVIOUS
  <2>2. CASE c = "wchar"
    <3>1. s.wchar = a.wchar /\ "syscw" \in Pend(Tail(q))
      BY <1>5, <1>8, <2>2
    <3> QED BY <3>1
  <2>3. CASE c # "wchar"
    <3>1. s.wchar = fr.stats.wchar /\ "wchar" \notin Pend(q)
      BY <1>5, <1>8, <2>1, <2>3 DEF Counters
    <3>2. (IF "syscw" \in Pend(Tail(q)) THEN a.syscw ELSE s.syscw) = (IF "syscw" \in Pend(q) THEN a.syscw ELSE fr.stats.syscw)
      BY <1>5, <1>8 DEF Counters
    <3> QED BY <1>9, <3>1, <3>2
  <2> QED BY <2>2, <2>3
<1>14. ReadOf(g, a)
  BY <1>2, <1>9, <1>11, <1>12, <1>13 DEF ReadOf
<1> QED BY <1>14

\* The lookup of a task.
Started(stage, t, io) == [NoRead EXCEPT !.stage = stage, !.task = t, !.todo = Fields, !.start = io]

LEMMA NoReadFields ==
  /\ NoRead \in Report /\ NoRead.stage = "idle"
  /\ \A x \in Int, l \in Task \cup {NULL} : LET g == [NoRead EXCEPT !.ret = x, !.label = l] IN g \in Report
     /\ g.stage = "idle"
  /\ LET g == [NoRead EXCEPT !.stage = "lookup"] IN g \in Report /\ g.stage = "lookup"
<1>1. Zero \in Account /\ <<>> \in Rests
  BY DEF Zero, Account, Rests
<1>2. PICK z : z = [t \in Task |-> Zero]
  OBVIOUS
<1>3. z \in [Task -> Account]
  BY <1>1, <1>2
<1>4. NoRead = [stage |-> "idle", task |-> NULL, todo |-> <<>>, stats |-> Zero, start |-> z, label |-> NULL, ret |-> 0]
  BY <1>2 DEF NoRead
<1>5. NoRead \in Report /\ NoRead.stage = "idle"
  BY <1>1, <1>3, <1>4 DEF Report
<1> QED BY <1>5 DEF Report

LEMMA StartedOK ==
  ASSUME NEW st \in {"syscall", "show"}, NEW t \in Task, NEW io \in [Task -> Account], NEW g, g = Started(st, t, io)
  PROVE  g \in Report /\ g.task = t /\ ReadOf(g, io[t])
<1>1. NoRead \in Report /\ Fields \in Rests
  BY NoReadFields DEF Rests
<1>2. g \in Report /\ g.task = t /\ g.todo = Fields /\ g.start = io
  BY <1>1 DEF Started, Report
<1>3. Pend(Fields) = Counters
  BY DEF Pend, Fields, Counters
<1>4. \A c \in Counters : io[t][c] <= io[t][c]
  BY NotLess
<1>5. ReadOf(g, io[t])
  BY <1>2, <1>3, <1>4 DEF ReadOf, Counters
<1> QED BY <1>2, <1>5

-----------------------------------------------------------------------------
ThrottleInv == IoInv /\ ReadersInv

\* The counters of a task never shrink.
Growing == /\ ioac \in [Task -> Account] /\ ioac' \in [Task -> Account]
           /\ \A t \in Task : \A c \in Counters : ioac'[t][c] >= ioac[t][c]

LEMMA NextGrows == ASSUME IoInv, Next PROVE Growing
<1>1. CallInv /\ LockInv /\ ioac \in [Task -> Account]
  BY DEF IoInv, CallInv, TypeOK
<1>2. CASE UNCHANGED ioac
  BY <1>1, <1>2, NotLess DEF Growing
<1>3. CASE ~ UNCHANGED ioac
  <2>1. PICK u \in Task : Call(u) \/ SeekCall(u) \/ Step(u)
    BY <1>3 DEF Next, Truncate
  <2>2. Sound(u)
    BY <1>1, <2>1, TaskSound
  <2>3. /\ ioac' \in [Task -> Account] /\ \A t \in Task : t # u => ioac'[t] = ioac[t]
        /\ \A c \in Counters : ioac'[u][c] >= ioac[u][c]
    BY <2>2 DEF Sound, TypesKept
  <2>4. \A t \in Task : t # u => \A c \in Counters : ioac'[t][c] >= ioac[t][c]
    BY <1>1, <2>3, NotLess
  <2> QED BY <1>1, <2>3, <2>4 DEF Growing
<1> QED BY <1>2, <1>3

LEMMA ReadersGrow ==
  ASSUME ReadersInv, Growing, UNCHANGED ioVars
  PROVE  ReadersInv'
<1>1. UNCHANGED reader /\ UNCHANGED pids /\ UNCHANGED pid
  BY DEF ioVars
<1>2. reader' \in [Reader -> Report] /\ pids' \subseteq Task /\ pid' \in Task \cup {NULL}
  BY <1>1 DEF ReadersInv
<1>3. ASSUME NEW r \in Reader, reader'[r].stage \in {"syscall", "show"}
      PROVE  reader'[r].task \in Task /\ ReadOf(reader'[r], ioac'[reader'[r].task])
  <2>1. PICK fr, t : fr = reader[r] /\ t = fr.task
    OBVIOUS
  <2>2. fr \in Report /\ t \in Task /\ ReadOf(fr, ioac[t]) /\ reader'[r] = fr
    BY <1>1, <1>3, <2>1 DEF ReadersInv
  <2>3. PICK a, b : a = ioac[t] /\ b = ioac'[t]
    OBVIOUS
  <2>4. a \in Account /\ b \in Account /\ (\A c \in Counters : b[c] >= a[c]) /\ ReadOf(fr, a) /\ fr.task \in Task
    BY <2>1, <2>2, <2>3 DEF Growing
  <2>5. ReadOf(fr, b)
    BY <2>2, <2>4, ReadOfGrows
  <2> QED BY <2>1, <2>2, <2>3, <2>5
<1> QED BY <1>2, <1>3 DEF ReadersInv

\* A step of one reader, which leaves the counters alone.
LEMMA OneReader ==
  ASSUME ReadersInv, NEW r \in Reader, NEW g \in Report, reader' = [reader EXCEPT ![r] = g],
         UNCHANGED ioac, UNCHANGED pids, UNCHANGED pid,
         g.stage \in {"syscall", "show"} => g.task \in Task /\ ReadOf(g, ioac[g.task])
  PROVE  ReadersInv'
<1>1. /\ reader \in [Reader -> Report] /\ pids \subseteq Task /\ pid \in Task \cup {NULL}
      /\ \A x \in Reader : reader[x].stage \in {"syscall", "show"} =>
           reader[x].task \in Task /\ ReadOf(reader[x], ioac[reader[x].task])
  BY DEF ReadersInv
<1>2. /\ reader' \in [Reader -> Report] /\ reader'[r] = g /\ \A x \in Reader : x # r => reader'[x] = reader[x]
  BY <1>1
<1>3. ASSUME NEW x \in Reader, reader'[x].stage \in {"syscall", "show"}
      PROVE  reader'[x].task \in Task /\ ReadOf(reader'[x], ioac'[reader'[x].task])
  <2>1. CASE x = r
    BY <1>2, <1>3, <2>1
  <2>2. CASE x # r
    <3>1. reader'[x] = reader[x]
      BY <1>2, <2>2
    <3> QED BY <1>1, <1>3, <3>1
  <2> QED BY <2>1, <2>2
<1> QED BY <1>1, <1>2, <1>3 DEF ReadersInv

LEMMA EndsOK ==
  ASSUME ReadersInv, NEW r \in Reader, NEW x \in Int, NEW l \in Task \cup {NULL}, Ends(r, x, l),
         UNCHANGED ioac, UNCHANGED pids, UNCHANGED pid
  PROVE  ReadersInv'
<1>1. PICK g : g = [NoRead EXCEPT !.ret = x, !.label = l]
  OBVIOUS
<1>2. g \in Report /\ g.stage = "idle"
  BY <1>1, NoReadFields
<1>3. reader' = [reader EXCEPT ![r] = g]
  BY <1>1 DEF Ends
<1> QED BY <1>2, <1>3, OneReader

LEMMA CopyFromOK ==
  ASSUME IoInv, ReadersInv, NEW r \in Reader, NEW st \in {"syscall", "show"}, NEW t \in Task, CopyFrom(r, st, t),
         UNCHANGED ioac, UNCHANGED pids, UNCHANGED pid
  PROVE  ReadersInv'
<1>1. PICK g : g = Started(st, t, ioac)
  OBVIOUS
<1>2. ioac \in [Task -> Account]
  BY DEF IoInv, CallInv, TypeOK
<1>3. g \in Report /\ g.task = t /\ ReadOf(g, ioac[t])
  BY <1>1, <1>2, StartedOK
<1>4. reader' = [reader EXCEPT ![r] = g]
  BY <1>1 DEF CopyFrom, Started
<1> QED BY <1>3, <1>4, OneReader

LEMMA CopyFieldOK ==
  ASSUME IoInv, ReadersInv, NEW r \in Reader, CopyField(r)
  PROVE  ReadersInv'
<1>1. PICK fr, t : fr = reader[r] /\ t = fr.task
  OBVIOUS
<1>2. /\ fr.stage \in {"syscall", "show"} /\ fr.todo # <<>> /\ UNCHANGED ioac /\ UNCHANGED pids /\ UNCHANGED pid
      /\ reader' = [reader EXCEPT ![r] = [fr EXCEPT !.todo = Tail(@), !.stats[Head(fr.todo)] = ioac[fr.task][Head(fr.todo)]]]
  BY <1>1 DEF CopyField, vars
<1>3. fr \in Report /\ t \in Task /\ ReadOf(fr, ioac[t])
  BY <1>1, <1>2 DEF ReadersInv
<1>4. PICK a : a = ioac[t]
  OBVIOUS
<1>5. a \in Account /\ RateOf(a, call[t])
  BY <1>3, <1>4, RateInvIs DEF IoInv, CallInv, TypeOK
<1>6. a.rchar <= MaxRw * (a.syscr + 1) /\ a.wchar <= MaxRw * (a.syscw + 1)
  <2>1. a.rchar \in Nat /\ a.wchar \in Nat /\ a.syscr \in Nat /\ a.syscw \in Nat /\ MaxRw \in Nat
    BY <1>5, CountersOf, FileAssumption
  <2>2. Extra(call[t], "rchar", "syscr") \in {0, 1} /\ Extra(call[t], "wchar", "syscw") \in {0, 1}
    BY DEF Extra
  <2>3. MaxRw * (a.syscr + 1) = MaxRw * a.syscr + MaxRw /\ MaxRw * (a.syscw + 1) = MaxRw * a.syscw + MaxRw
        /\ MaxRw * a.syscr \in Nat /\ MaxRw * a.syscw \in Nat
    BY <2>1, Distrib
  <2>4. a.rchar <= MaxRw * (a.syscr + Extra(call[t], "rchar", "syscr"))
        /\ a.wchar <= MaxRw * (a.syscw + Extra(call[t], "wchar", "syscw"))
    BY <1>5 DEF RateOf
  <2>5. a.syscr + 0 = a.syscr /\ a.syscw + 0 = a.syscw
    BY <2>1
  <2>6. a.rchar <= MaxRw * (a.syscr + 1)
    BY <2>1, <2>2, <2>3, <2>4, <2>5
  <2>7. a.wchar <= MaxRw * (a.syscw + 1)
    BY <2>1, <2>2, <2>3, <2>4, <2>5
  <2> QED BY <2>6, <2>7
<1>7. PICK g : g = Copied(fr, a)
  OBVIOUS
<1>8. g \in Report /\ g.stage = fr.stage /\ g.task = t
  BY <1>1, <1>2, <1>3, <1>5, <1>7, CopiedFields
<1>9. ReadOf(g, a)
  BY <1>1, <1>2, <1>3, <1>4, <1>5, <1>6, <1>7, CopyKeeps
<1>10. reader' = [reader EXCEPT ![r] = g]
  BY <1>1, <1>2, <1>4, <1>7 DEF Copied
<1>11. g.task \in Task /\ ReadOf(g, ioac[g.task])
  BY <1>3, <1>4, <1>8, <1>9
<1> QED BY <1>2, <1>8, <1>10, <1>11, OneReader

LEMMA ReadKeeps ==
  ASSUME IoInv, ReadersInv, NEW r \in Reader, Read(r)
  PROVE  ReadersInv' /\ UNCHANGED vars
<1>1. UNCHANGED vars
  BY DEF Read, GetIoStats, ShowStart, ShowLookup, CopyField, CopyToUser, ShowPrint
<1>2. UNCHANGED ioac
  BY <1>1 DEF vars
<1>3. pids \subseteq Task /\ pid \in Task \cup {NULL} /\ NULL \in Task \cup {NULL} /\ ESRCH \in Int
      /\ EFAULT \in Int /\ 0 \in Int
  BY DEF ReadersInv, ESRCH, EFAULT
<1>4. ASSUME NEW p \in Task, GetIoStats(r, p) PROVE ReadersInv'
  BY <1>2, <1>3, <1>4, CopyFromOK, EndsOK DEF GetIoStats
<1>5. ASSUME ShowStart(r) PROVE ReadersInv'
  <2>1. UNCHANGED pids /\ UNCHANGED pid
    BY <1>5 DEF ShowStart
  <2>2. CASE Ends(r, 0, NULL)
    BY <1>2, <1>3, <2>1, <2>2, EndsOK
  <2>3. CASE reader' = [reader EXCEPT ![r] = [NoRead EXCEPT !.stage = "lookup"]]
    <3>1. PICK g : g = [NoRead EXCEPT !.stage = "lookup"]
      OBVIOUS
    <3>2. g \in Report /\ g.stage = "lookup" /\ reader' = [reader EXCEPT ![r] = g]
      BY <2>3, <3>1, NoReadFields
    <3> QED BY <1>2, <2>1, <3>2, OneReader
  <2> QED BY <1>5, <2>2, <2>3 DEF ShowStart
<1>6. ASSUME ShowLookup(r) PROVE ReadersInv'
  <2>1. UNCHANGED pids /\ UNCHANGED pid /\ (pid \in pids => pid \in Task)
    BY <1>3, <1>6 DEF ShowLookup
  <2> QED BY <1>2, <1>3, <1>6, <2>1, CopyFromOK, EndsOK DEF ShowLookup
<1>7. ASSUME CopyField(r) PROVE ReadersInv'
  BY <1>7, CopyFieldOK
<1>8. ASSUME CopyToUser(r) PROVE ReadersInv'
  BY <1>2, <1>3, <1>8, EndsOK DEF CopyToUser
<1>9. ASSUME ShowPrint(r) PROVE ReadersInv'
  BY <1>2, <1>3, <1>9, EndsOK DEF ShowPrint
<1>10. ReadersInv'
  BY <1>4, <1>5, <1>6, <1>7, <1>8, <1>9 DEF Read
<1> QED BY <1>1, <1>10

-----------------------------------------------------------------------------
LEMMA FileStill ==
  ASSUME IoInv, UNCHANGED <<f_pos, pos_lock, i_size, ioac, moved, call>>, UNCHANGED calls
    \/ \E t \in Task : calls' = [calls EXCEPT ![t] = MaxCalls]
  PROVE  IoInv' /\ Growing
<1>1. i_size \in [Inode -> Nat] /\ calls \in [Task -> Nat] /\ ioac \in [Task -> Account] /\ MaxCalls \in Nat
  BY FileAssumption DEF IoInv, CallInv, TypeOK
<1>2. i_size' \in [Inode -> Nat] /\ calls' \in [Task -> Nat] /\ UNCHANGED <<f_pos, pos_lock, ioac, moved, call>>
  BY <1>1
<1>3. IoInv'
  BY <1>2, SameKeeps
<1>4. Growing
  BY <1>1, NotLess DEF Growing
<1> QED BY <1>3, <1>4

LEMMA ThrottleInit == IoInit => ThrottleInv
<1>1. SUFFICES ASSUME IoInit PROVE ThrottleInv
  OBVIOUS
<1>2. IoInv
  BY <1>1, FileInit DEF IoInit
<1>3. NoRead \in Report /\ NoRead.stage = "idle"
  BY NoReadFields
<1>4. reader = [r \in Reader |-> NoRead] /\ pids = Task /\ pid \in Task \cup {NULL}
  BY <1>1 DEF IoInit
<1>5. reader \in [Reader -> Report] /\ \A r \in Reader : reader[r].stage = "idle"
  BY <1>3, <1>4
<1>6. ReadersInv
  BY <1>4, <1>5 DEF ReadersInv
<1> QED BY <1>2, <1>6 DEF ThrottleInv

LEMMA ThrottleNext == ThrottleInv /\ [IoNext]_allVars => ThrottleInv'
<1>1. SUFFICES ASSUME IoInv, ReadersInv, [IoNext]_allVars PROVE ThrottleInv'
  BY DEF ThrottleInv
<1>2. CASE UNCHANGED allVars
  <2>1. UNCHANGED <<f_pos, pos_lock, i_size, ioac, moved, call>> /\ UNCHANGED calls /\ UNCHANGED ioVars
    BY <1>2 DEF allVars, vars, fileVars
  <2> QED BY <1>1, <2>1, FileStill, ReadersGrow DEF ThrottleInv
<1>3. CASE Next /\ UNCHANGED ioVars
  <2>1. IoInv' /\ Growing
    BY <1>1, <1>3, FileNext, NextGrows
  <2> QED BY <1>1, <1>3, <2>1, ReadersGrow DEF ThrottleInv
<1>4. ASSUME NEW r \in Reader, Read(r) PROVE ThrottleInv'
  <2>1. ReadersInv' /\ UNCHANGED vars
    BY <1>1, <1>4, ReadKeeps
  <2>2. UNCHANGED <<f_pos, pos_lock, i_size, ioac, moved, call>> /\ UNCHANGED calls
    BY <2>1 DEF vars, fileVars
  <2> QED BY <1>1, <2>1, <2>2, FileStill DEF ThrottleInv
<1>5. ASSUME NEW p \in Task \cup {NULL}, SetPid(p) PROVE ThrottleInv'
  <2>1. UNCHANGED <<f_pos, pos_lock, i_size, ioac, moved, call>> /\ UNCHANGED calls
    BY <1>5 DEF SetPid, vars, fileVars
  <2>2. UNCHANGED reader /\ UNCHANGED pids /\ UNCHANGED ioac /\ pid' \in Task \cup {NULL}
    BY <1>5, <2>1 DEF SetPid
  <2>3. ReadersInv'
    BY <1>1, <2>2 DEF ReadersInv
  <2> QED BY <1>1, <2>1, <2>3, FileStill DEF ThrottleInv
<1>6. ASSUME NEW t \in Task, ExitTask(t) PROVE ThrottleInv'
  <2>1. UNCHANGED <<f_pos, pos_lock, i_size, ioac, moved, call>> /\ calls' = [calls EXCEPT ![t] = MaxCalls]
    BY <1>6 DEF ExitTask, fileVars
  <2>2. UNCHANGED reader /\ UNCHANGED pid /\ UNCHANGED ioac /\ pids' \subseteq pids
    BY <1>6, <2>1 DEF ExitTask
  <2>3. ReadersInv'
    BY <1>1, <2>2 DEF ReadersInv
  <2> QED BY <1>1, <2>1, <2>3, FileStill DEF ThrottleInv
<1> QED BY <1>1, <1>2, <1>3, <1>4, <1>5, <1>6 DEF IoNext

\* The invariant of the calls together with the readers of their counters.
THEOREM ThrottleInvariant == IoSpec => []ThrottleInv
  BY ThrottleInit, ThrottleNext, PTL DEF IoSpec

LEMMA ReadersReport == ReadersInv => ReportIsRecent /\ BytesMatchCalls
<1>1. SUFFICES ASSUME ReadersInv, NEW r \in Reader, Reporting(r), NEW fr, fr = reader[r]
               PROVE  /\ \A i \in DOMAIN Fields : fr.start[fr.task][Fields[i]] <= fr.stats[Fields[i]]
                                                  /\ fr.stats[Fields[i]] <= ioac[fr.task][Fields[i]]
                      /\ fr.stats.rchar <= MaxRw * (fr.stats.syscr + 1)
                      /\ fr.stats.wchar <= MaxRw * (fr.stats.syscw + 1)
  BY DEF ReportIsRecent, BytesMatchCalls
<1>2. ReadOf(fr, ioac[fr.task]) /\ fr.todo = <<>>
  BY <1>1 DEF ReadersInv, Reporting
<1>3. Pend(fr.todo) = {}
  BY <1>2, EmptyTodo
<1>4. \A i \in DOMAIN Fields : Fields[i] \in Counters
  BY DEF Fields, Counters
<1>5. \A c \in Counters : fr.start[fr.task][c] <= fr.stats[c] /\ fr.stats[c] <= ioac[fr.task][c]
  BY <1>2, <1>3 DEF ReadOf
<1>6. fr.stats.rchar <= MaxRw * (fr.stats.syscr + 1) /\ fr.stats.wchar <= MaxRw * (fr.stats.syscw + 1)
  BY <1>2, <1>3 DEF ReadOf
<1> QED BY <1>4, <1>5, <1>6

\* Every counter that a reader of io_throttle reports had its value at some moment
\* between the lookup of the task and the report, although the fields are copied
\* one by one without a lock.
THEOREM ReportsAreRecent == IoSpec => []ReportIsRecent
<1>1. ThrottleInv => ReportIsRecent
  BY ReadersReport DEF ThrottleInv
<1> QED BY <1>1, ThrottleInvariant, PTL

\* The bytes reported never exceed what the reported calls, and one more, can have
\* moved: the order in which the fields are copied and the calls are counted
\* fits, for any number of tasks and readers.
THEOREM ReportedBytesMatchCalls == IoSpec => []BytesMatchCalls
<1>1. ThrottleInv => BytesMatchCalls
  BY ReadersReport DEF ThrottleInv
<1> QED BY <1>1, ThrottleInvariant, PTL
=============================================================================
