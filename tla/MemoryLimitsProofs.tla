-------------------------- MODULE MemoryLimitsProofs --------------------------
(***************************************************************************)
(* Proofs about MemoryLimits, for any number of callers, processes and     *)
(* nodes.                                                                  *)
(***************************************************************************)
EXTENDS MemoryLimits, TLAPS, FiniteSetTheorems, WellFoundedInduction

\* The time that a leaf may take.
USE SMTT(20), ZenonT(20)

LinkPcs == {"link", "publish"}

\* What the local variables of a caller at pc k satisfy.
CallerOK(k, f) ==
  /\ k \in Pcs /\ f \in Frame
  /\ k \in {"head", "walk"} => f.op \in {"add", "get"}
  /\ k = "count" => f.op = "get"
  /\ k \in AddPcs => f.op = "add"
  /\ k \notin {"idle", "oops"} /\ f.op = "add" => f.pid \in Pid /\ f.limit \in Limit
  /\ k \notin {"idle", "oops", "find"} /\ f.op = "add" => f.task \in Task
  /\ k = "vm" => f.mm \in Task
  /\ k = "walk" => f.cur \in Linked \cup {NULL}
  /\ k \in LinkPcs => f.node \in Node \ Linked /\ entry[f.node] \in Entry
  /\ k = "publish" => f.first \in Linked \cup {NULL}

\* Two callers never prepare the same node.
NodesDistinct == \A c, d \in Caller :
  pc[c] \in LinkPcs /\ pc[d] \in LinkPcs /\ frame[c].node = frame[d].node => c = d

\* The inductive invariant behind TypeOK and ListOrder.
ListInv == /\ TypeOK
           /\ ListOrder
           /\ \A c \in Caller : CallerOK(pc[c], frame[c])
           /\ NodesDistinct

LEMMA NoCallType == NoCall \in Frame
BY LimitAssumption DEF NoCall, Frame, NodeOrNull

LEMMA LinkedType == TypeOK => Linked \subseteq Node
BY DEF TypeOK, Linked

\* The linked nodes hold entries and lead to linked nodes.
LEMMA LinkedClosed ==
  ASSUME TypeOK, ListOrder
  PROVE  /\ head \in Linked \cup {NULL}
         /\ \A n \in Linked : entry[n] \in Entry /\ next[n] \in Linked \cup {NULL}
<1>1. head \in Linked \cup {NULL}
  BY DEF TypeOK, ListOrder, Linked
<1>2. ASSUME NEW n \in Linked PROVE entry[n] \in Entry /\ next[n] \in Linked \cup {NULL}
  <2>1. PICK i \in DOMAIN log : n = log[i]
    BY DEF Linked
  <2>2. n \in Node
    BY LinkedType
  <2>3. entry[n] # NULL
    BY <2>1 DEF ListOrder
  <2>4. next[n] = NULL \/ \E j \in 1..(i - 1) : next[n] = log[j]
    BY <2>1 DEF ListOrder
  <2>5. \A j \in 1..(i - 1) : j \in DOMAIN log
    BY <2>1 DEF TypeOK
  <2> QED
    BY <2>2, <2>3, <2>4, <2>5 DEF TypeOK, Linked
<1> QED
  BY <1>1, <1>2

\* A step of caller c that leaves the list alone preserves the invariant when
\* the caller's new local state is one CallerOK allows.
LEMMA LocalStep ==
  ASSUME ListInv, NEW c \in Caller, NEW to, NEW f, Go(c, to, f),
         CallerOK(to, f),
         to \in LinkPcs => pc[c] \in LinkPcs /\ f.node = frame[c].node,
         UNCHANGED listVars, UNCHANGED privVars, UNCHANGED taskVars, UNCHANGED total_vm,
         usage' \in [Task -> Int]
  PROVE  ListInv'
<1> USE DEF ListInv
<1>1. pc' \in [Caller -> Pcs] /\ frame' \in [Caller -> Frame]
  BY DEF Go, CallerOK, TypeOK
<1>2. TypeOK'
  BY <1>1 DEF TypeOK, TaskTypeOK, listVars, privVars, taskVars
<1>3. ListOrder'
  BY DEF ListOrder, listVars
<1>4. ASSUME NEW d \in Caller PROVE CallerOK(pc[d], frame[d])'
  <2>1. Linked' = Linked /\ entry' = entry
    BY DEF listVars, Linked
  <2>2. CASE d = c
    <3>1. pc'[d] = to /\ frame'[d] = f
      BY <2>2 DEF Go, TypeOK
    <3> QED
      BY <2>1, <3>1 DEF CallerOK
  <2>3. CASE d # c
    <3>1. pc'[d] = pc[d] /\ frame'[d] = frame[d]
      BY <2>3 DEF Go, TypeOK
    <3> QED
      BY <2>1, <3>1 DEF CallerOK
  <2> QED
    BY <2>2, <2>3
<1>5. NodesDistinct'
  BY DEF Go, TypeOK, NodesDistinct
<1> QED
  BY <1>2, <1>3, <1>4, <1>5

\* The same for the return of a call.
LEMMA ReturnStep ==
  ASSUME ListInv, NEW c \in Caller, NEW f, NEW r \in Int, Return(c, f, r),
         f.op \in {"add", "get", "update", "remove"}, f.pid \in Pid \cup {0},
         UNCHANGED listVars, UNCHANGED privVars, UNCHANGED taskVars, UNCHANGED total_vm,
         usage' \in [Task -> Int]
  PROVE  ListInv'
<1> DEFINE g == [NoCall EXCEPT !.op = f.op, !.pid = f.pid, !.ret = r]
<1>1. Go(c, "idle", g)
  BY DEF Return
<1>2. g \in Frame
  BY Zenon, NoCallType DEF Frame, NoCall
<1> HIDE DEF g
<1>3. CallerOK("idle", g)
  <2>1. "idle" \in Pcs /\ "idle" \notin AddPcs /\ "idle" \notin LinkPcs
    BY DEF Pcs, AddPcs, LinkPcs, PinPcs
  <2> QED
    BY <1>2, <2>1 DEF CallerOK
<1> QED
  BY <1>1, <1>3, LocalStep DEF LinkPcs

LEMMA TypeOfErrors ==
  {EPERM, ESRCH, ENOMEM, EFAULT, EINVAL, E_OVER_LIMIT, E_DUPLICATE} \subseteq Int
BY DEF EPERM, ESRCH, ENOMEM, EFAULT, EINVAL, E_OVER_LIMIT, E_DUPLICATE

\* Advancing the cursor changes nothing but the cursor and the path.
LEMMA AdvanceType ==
  ASSUME NEW f \in Frame, f.cur \in Node, next[f.cur] \in NodeOrNull
  PROVE  /\ Advance(f) \in Frame
         /\ Advance(f).cur = next[f.cur]
         /\ Advance(f).path = Append(f.path, f.cur)
         /\ Advance(f).op = f.op /\ Advance(f).pid = f.pid
         /\ Advance(f).limit = f.limit /\ Advance(f).task = f.task
         /\ Advance(f).buf = f.buf /\ Advance(f).hd = f.hd /\ Advance(f).max = f.max
         /\ Advance(f).ret = f.ret
<1>1. Append(f.path, f.cur) \in Seq(Node)
  BY DEF Frame
<1> QED
  BY Zenon, <1>1 DEF Advance, Frame

\* CheckUsage moves a caller of add to a place its local state allows.
LEMMA CheckUsageStep ==
  ASSUME ListInv, NEW c \in Caller, NEW u, pc[c] \in {"mm", "vm"}, CheckUsage(c, u),
         UNCHANGED listVars, UNCHANGED privVars, UNCHANGED taskVars, UNCHANGED total_vm,
         UNCHANGED usage
  PROVE  ListInv'
<1> DEFINE g == [frame[c] EXCEPT !.ret = E_OVER_LIMIT]
<1>1. CallerOK(pc[c], frame[c]) /\ usage' \in [Task -> Int]
  BY DEF ListInv, TypeOK
<1>2. frame[c] \in Frame /\ frame[c].op = "add" /\ frame[c].task \in Task
      /\ frame[c].pid \in Pid /\ frame[c].limit \in Limit
  BY <1>1 DEF CallerOK, AddPcs, PinPcs
<1>3. CallerOK("head", frame[c])
  BY <1>2 DEF CallerOK, Pcs, AddPcs, PinPcs, LinkPcs
<1>4. g \in Frame /\ g.op = "add" /\ g.task = frame[c].task
      /\ g.pid = frame[c].pid /\ g.limit = frame[c].limit
  BY Zenon, <1>2, TypeOfErrors DEF Frame
<1>5. CallerOK("put", g)
  BY <1>2, <1>4 DEF CallerOK, Pcs, AddPcs, PinPcs, LinkPcs
<1>6. Go(c, "put", g) \/ Go(c, "head", frame[c])
  BY DEF CheckUsage
<1> HIDE DEF g
<1> QED
  BY <1>1, <1>3, <1>5, <1>6, LocalStep DEF LinkPcs

LEMMA InitInv == Init => ListInv
<1> SUFFICES ASSUME Init PROVE ListInv
  OBVIOUS
<1>1. TypeOK
  BY NoCallType, TaskAssumption
     DEF Init, TaskInit, TypeOK, TaskTypeOK, NodeOrNull, Pcs
<1>2. ListOrder
  BY DEF Init, ListOrder
<1>3. \A c \in Caller : CallerOK(pc[c], frame[c])
  BY NoCallType DEF Init, CallerOK, Pcs, AddPcs, PinPcs, LinkPcs
<1>4. NodesDistinct
  BY DEF Init, NodesDistinct, LinkPcs
<1> QED
  BY <1>1, <1>2, <1>3, <1>4 DEF ListInv

\* Processes come, go and grow without touching the list or the callers.
LEMMA ProcessInv == ListInv /\ ProcessStep => ListInv'
<1> SUFFICES ASSUME ListInv, ProcessStep PROVE ListInv'
  OBVIOUS
<1>1. UNCHANGED <<usage, listVars, privVars, pc, frame>>
  BY DEF ProcessStep, ResizeMm
<1>2. TaskTypeOK'
  <2>1. CASE TaskNext
    <3> USE DEF ListInv, TypeOK, TaskTypeOK
    <3>1. ASSUME NEW t \in Task, NEW p \in Pid, NEW m \in MmChoices(t), Clone(t, p, m)
          PROVE  TaskTypeOK'
      <4>1. m \in Task \cup {NULL}
        BY DEF MmChoices
      <4> QED
        BY <3>1, <4>1 DEF Clone
    <3>2. ASSUME NEW t \in Task, Exit(t) PROVE TaskTypeOK'
      BY <3>2 DEF Exit
    <3>3. ASSUME NEW t \in Task, Release(t) PROVE TaskTypeOK'
      BY <3>3 DEF Release
    <3> QED
      BY <2>1, <3>1, <3>2, <3>3 DEF TaskNext
  <2>2. CASE UNCHANGED taskVars
    BY <2>2 DEF ListInv, TypeOK, TaskTypeOK, taskVars
  <2> QED
    BY <2>1, <2>2 DEF ProcessStep, ResizeMm
<1>3. total_vm' \in [Task -> Nat]
  <2>1. total_vm \in [Task -> Nat] /\ MaxPages \in Nat
    BY LimitAssumption DEF ListInv, TypeOK
  <2>2. ASSUME NEW m \in Task, NEW v \in 0..MaxPages, ResizeMm(m, v)
        PROVE  total_vm' \in [Task -> Nat]
    BY <2>1, <2>2 DEF ResizeMm
  <2> QED
    BY <2>1, <2>2 DEF ProcessStep
<1>4. TypeOK'
  BY <1>1, <1>2, <1>3 DEF ListInv, TypeOK, listVars, privVars
<1>5. ListOrder' /\ Linked' = Linked
  BY <1>1 DEF ListInv, ListOrder, Linked, listVars
<1>6. \A c \in Caller : CallerOK(pc[c], frame[c])'
  BY <1>1, <1>5 DEF ListInv, CallerOK, listVars
<1>7. NodesDistinct'
  BY <1>1 DEF ListInv, NodesDistinct
<1> QED
  BY <1>4, <1>5, <1>6, <1>7 DEF ListInv

\* The calls: what they do before the first access to shared memory.
LEMMA CallInv == ASSUME ListInv, NEW c \in Caller, Call(c) PROVE ListInv'
<1> USE TypeOfErrors DEF Pcs, AddPcs, PinPcs, LinkPcs
<1>0. usage \in [Task -> Int] /\ update_list = <<>> /\ remove_list = <<>>
  BY DEF ListInv, TypeOK
<1>1. ASSUME NEW pid \in Pid \cup {0}, NEW limit \in Limit, NEW capable \in BOOLEAN,
             AddCall(c, pid, limit, capable)
      PROVE  ListInv'
  <2> DEFINE f == [NoCall EXCEPT !.op = "add", !.pid = pid, !.limit = limit]
  <2>1. f \in Frame /\ f.op = "add" /\ f.pid = pid /\ f.limit = limit
    BY Zenon, NoCallType DEF Frame, NoCall
  <2>2. UNCHANGED <<taskVars, total_vm, usage, listVars, privVars>>
    BY <1>1 DEF AddCall
  <2>3. \/ Return(c, f, EINVAL)
        \/ Return(c, f, EPERM)
        \/ Go(c, "find", f) /\ ~ (pid <= 0)
    BY <1>1 DEF AddCall, EINVAL, EPERM
  <2>4. ~ (pid <= 0) => CallerOK("find", f)
    BY <2>1, PidAssumption DEF CallerOK
  <2> HIDE DEF f
  <2>5. CASE Return(c, f, EINVAL) \/ Return(c, f, EPERM)
    BY <1>0, <2>1, <2>2, <2>5, ReturnStep
  <2>6. CASE Go(c, "find", f) /\ ~ (pid <= 0)
    BY <1>0, <2>2, <2>4, <2>6, LocalStep
  <2> QED
    BY <2>3, <2>5, <2>6
<1>2. ASSUME NEW pid \in Pid \cup {0}, NEW limit \in Limit, NEW capable \in BOOLEAN,
             UpdateCall(c, pid, limit, capable)
      PROVE  ListInv'
  <2> DEFINE f == [op |-> "update", pid |-> pid]
  <2>1. \E r \in Int : Return(c, f, r)
    BY <1>2 DEF UpdateCall
  <2>2. update_list' = update_list
    BY <1>0, <1>2 DEF UpdateCall
  <2>3. UNCHANGED <<taskVars, total_vm, usage, listVars, privVars>>
    BY <1>2, <2>2 DEF UpdateCall, privVars
  <2> QED
    BY <1>0, <2>1, <2>3, ReturnStep
<1>3. ASSUME NEW pid \in Pid \cup {0}, NEW capable \in BOOLEAN, RemoveCall(c, pid, capable)
      PROVE  ListInv'
  <2> DEFINE f == [op |-> "remove", pid |-> pid]
  <2>1. \E r \in Int : Return(c, f, r)
    BY <1>3 DEF RemoveCall
  <2>2. remove_list' = remove_list
    BY <1>0, <1>3 DEF RemoveCall
  <2>3. UNCHANGED <<taskVars, total_vm, usage, listVars, privVars>>
    BY <1>3, <2>2 DEF RemoveCall, privVars
  <2> QED
    BY <1>0, <2>1, <2>3, ReturnStep
<1>4. ASSUME NEW max \in 0..MaxEntries, NEW null \in BOOLEAN, GetCall(c, max, null)
      PROVE  ListInv'
  <2> DEFINE f == [NoCall EXCEPT !.op = "get", !.max = max]
  <2>1. f \in Frame /\ f.op = "get" /\ f.pid = 0
    BY Zenon, NoCallType DEF Frame, NoCall
  <2>2. UNCHANGED <<taskVars, total_vm, usage, listVars, privVars>>
    BY <1>4 DEF GetCall
  <2>3. Return(c, f, EINVAL) \/ Go(c, "head", f)
    BY <1>4 DEF GetCall
  <2>4. CallerOK("head", f)
    BY <2>1 DEF CallerOK
  <2> HIDE DEF f
  <2> QED
    BY <1>0, <2>1, <2>2, <2>3, <2>4, ReturnStep, LocalStep
<1> QED
  BY <1>1, <1>2, <1>3, <1>4 DEF Call

\* One step inside a call, by action.
LEMMA StepInv == ASSUME ListInv, NEW c \in Caller, Step(c) PROVE ListInv'
<1> DEFINE f == frame[c]
<1> USE TypeOfErrors DEF Pcs, AddPcs, PinPcs, LinkPcs
<1>a. TypeOK /\ ListOrder /\ CallerOK(pc[c], f) /\ NodesDistinct
  BY DEF ListInv
<1>b. f \in Frame
  BY <1>a DEF CallerOK
<1>c. usage \in [Task -> Int]
  BY <1>a DEF TypeOK
<1>d. f.op = "add" => f.op \in {"add", "get", "update", "remove"}
  OBVIOUS
<1> HIDE DEF f
<1>1. CASE FindVpid(c)
  <2> DEFINE t == pid_task[f.pid]
  <2> DEFINE g == [f EXCEPT !.task = t]
  <2>1. f.op = "add" /\ f.pid \in Pid /\ f.limit \in Limit
    BY <1>1, <1>a DEF FindVpid, CallerOK
  <2>2. t \in Task \cup {NULL}
    BY Zenon, <1>a, <2>1 DEF TypeOK, TaskTypeOK
  <2>3. t # NULL => CallerOK("get", g)
    BY Zenon, <1>b, <2>1, <2>2 DEF CallerOK, Frame
  <2>4. (t # NULL /\ Go(c, "get", g)) \/ Return(c, f, ESRCH)
    BY <1>1 DEF FindVpid, f
  <2>5. UNCHANGED <<taskVars, total_vm, usage, listVars, privVars>>
    BY <1>1 DEF FindVpid
  <2> HIDE DEF g
  <2> QED
    BY Zenon, <1>c, <1>d, <2>1, <2>3, <2>4, <2>5, LocalStep, ReturnStep
<1>2. CASE GetPidTask(c)
  <2>1. CallerOK("mm", f) /\ f.task \in Task
    BY <1>2, <1>a DEF GetPidTask, CallerOK
  <2>2. usage' \in [Task -> Int]
    BY <1>2, <1>c, <2>1 DEF GetPidTask, f
  <2>3. Go(c, "mm", f) /\ UNCHANGED <<taskVars, total_vm, listVars, privVars>>
    BY <1>2 DEF GetPidTask, f
  <2> QED
    BY <2>1, <2>2, <2>3, LocalStep
<1>3. CASE GetStalePid(c)
  <2>1. f.op = "add" /\ f.pid \in Pid /\ f.limit \in Limit
    BY <1>3, <1>a DEF GetStalePid, CallerOK
  <2>2. UNCHANGED <<taskVars, total_vm, listVars, privVars>>
    BY <1>3 DEF GetStalePid
  <2>3. CASE Return(c, f, ESRCH) /\ UNCHANGED usage
    BY <1>c, <1>d, <2>1, <2>2, <2>3, ReturnStep
  <2>4. CASE Go(c, "oops", [f EXCEPT !.task = NULL]) /\ UNCHANGED usage
    <3>1. CallerOK("oops", [f EXCEPT !.task = NULL])
      BY Zenon, <1>b DEF CallerOK, Frame
    <3> QED
      BY <1>c, <2>2, <2>4, <3>1, LocalStep
  <2>5. ASSUME NEW t \in {pid_task[p] : p \in Pid} \ {NULL},
               usage' = [usage EXCEPT ![t] = @ + 1],
               Go(c, "mm", [f EXCEPT !.task = t])
        PROVE  ListInv'
    <3>1. t \in Task
      BY <1>a DEF TypeOK, TaskTypeOK
    <3>2. CallerOK("mm", [f EXCEPT !.task = t])
      BY Zenon, <1>b, <2>1, <3>1 DEF CallerOK, Frame
    <3> QED
      BY <1>c, <2>2, <2>5, <3>1, <3>2, LocalStep
  <2> QED
    BY Zenon, <1>3, <2>3, <2>4, <2>5 DEF GetStalePid, f
<1>4. CASE ReadMm(c)
  <2> DEFINE m == mm[f.task]
  <2>1. pc[c] = "mm" /\ UNCHANGED <<taskVars, total_vm, usage, listVars, privVars>>
    BY <1>4 DEF ReadMm
  <2>2. CheckUsage(c, 0) \/ (m # NULL /\ Go(c, "vm", [f EXCEPT !.mm = m]))
    BY <1>4 DEF ReadMm, f
  <2>3. CASE CheckUsage(c, 0)
    BY <2>1, <2>3, CheckUsageStep
  <2>4. CASE m # NULL /\ Go(c, "vm", [f EXCEPT !.mm = m])
    <3>1. f.task \in Task /\ m \in Task
      BY <1>a, <2>1, <2>4 DEF CallerOK, TypeOK, TaskTypeOK
    <3>2. CallerOK("vm", [f EXCEPT !.mm = m])
      BY Zenon, <1>a, <1>b, <2>1, <3>1 DEF CallerOK, Frame
    <3> QED
      BY <1>c, <2>1, <2>4, <3>2, LocalStep
  <2> QED
    BY <2>2, <2>3, <2>4
<1>5. CASE ReadVm(c)
  <2>1. pc[c] = "vm" /\ UNCHANGED <<taskVars, total_vm, usage, listVars, privVars>>
    BY <1>5 DEF ReadVm
  <2>2. (\E u : CheckUsage(c, u)) \/ Go(c, "oops", f)
    BY <1>5 DEF ReadVm, f
  <2>3. CallerOK("oops", f)
    BY <1>b DEF CallerOK
  <2> QED
    BY <1>c, <2>1, <2>2, <2>3, CheckUsageStep, LocalStep
<1>6. CASE ReadHead(c)
  <2> DEFINE g == [f EXCEPT !.cur = head, !.hd = head]
  <2>1. Go(c, "walk", g) /\ UNCHANGED <<taskVars, total_vm, usage, listVars, privVars>>
    BY <1>6 DEF ReadHead, f
  <2>2. head \in Linked \cup {NULL} /\ head \in NodeOrNull
    BY <1>a, LinkedClosed DEF TypeOK
  <2>3. /\ g \in Frame /\ g.op = f.op /\ g.pid = f.pid /\ g.limit = f.limit
        /\ g.task = f.task /\ g.cur = head
    BY Zenon, <1>b, <2>2 DEF Frame
  <2> HIDE DEF g
  <2>4. pc[c] = "head" /\ CallerOK("head", f)
    BY <1>6, <1>a DEF ReadHead
  <2>5. CallerOK("walk", g)
    BY <2>2, <2>3, <2>4 DEF CallerOK
  <2> QED
    BY <1>c, <2>1, <2>5, LocalStep
<1>7. CASE AddWalk(c)
  <2>1. pc[c] = "walk" /\ f.op = "add" /\ UNCHANGED <<taskVars, total_vm, usage, listVars, privVars>>
    BY <1>7 DEF AddWalk, f
  <2>2. CASE Go(c, "alloc", f)
    <3>1. CallerOK("alloc", f)
      BY <1>a, <2>1 DEF CallerOK
    <3> QED
      BY Zenon, <1>c, <2>1, <2>2, <3>1, LocalStep
  <2>3. CASE Go(c, "put", [f EXCEPT !.ret = E_DUPLICATE])
    <3>1. CallerOK("put", [f EXCEPT !.ret = E_DUPLICATE])
      BY Zenon, <1>a, <1>b, <2>1 DEF CallerOK, Frame
    <3> QED
      BY <1>c, <2>1, <2>3, <3>1, LocalStep
  <2>4. CASE f.cur # NULL /\ Go(c, "walk", Advance(f))
    <3>1. f.cur \in Linked /\ f.cur \in Node
      BY <1>a, <2>1, <2>4, LinkedType DEF CallerOK
    <3>2. next[f.cur] \in Linked \cup {NULL} /\ next[f.cur] \in NodeOrNull
      BY Zenon, <1>a, <3>1, LinkedClosed DEF TypeOK
    <3>3. CallerOK("walk", Advance(f))
      BY Zenon, <1>a, <1>b, <2>1, <3>1, <3>2, AdvanceType DEF CallerOK
    <3> QED
      BY <1>c, <2>1, <2>4, <3>3, LocalStep
  <2> QED
    BY <1>7, <2>2, <2>3, <2>4 DEF AddWalk, f
<1>8. CASE Kmalloc(c)
  <2>1. pc[c] = "alloc" /\ UNCHANGED <<taskVars, total_vm, usage, head, next, log, privVars>>
    BY <1>8 DEF Kmalloc
  <2>2. f.op = "add" /\ f.pid \in Pid /\ f.limit \in Limit /\ f.task \in Task
    BY <1>a, <2>1 DEF CallerOK
  <2>3. CASE Go(c, "put", [f EXCEPT !.ret = ENOMEM]) /\ UNCHANGED entry
    <3>1. CallerOK("put", [f EXCEPT !.ret = ENOMEM])
      BY Zenon, <1>b, <2>2 DEF CallerOK, Frame
    <3>2. UNCHANGED listVars
      BY <2>1, <2>3 DEF listVars
    <3> QED
      BY <1>c, <2>1, <2>3, <3>1, <3>2, LocalStep
  <2>4. ASSUME NEW n \in Node, entry[n] = NULL,
               entry' = [entry EXCEPT ![n] = [pid |-> f.pid, limit |-> f.limit]],
               Go(c, "link", [f EXCEPT !.node = n])
        PROVE  ListInv'
    <3> DEFINE g == [f EXCEPT !.node = n]
    <3> DEFINE e == [pid |-> f.pid, limit |-> f.limit]
    <3>1. g \in Frame /\ g.op = "add" /\ g.pid = f.pid /\ g.limit = f.limit
          /\ g.task = f.task /\ g.node = n
      BY Zenon, <1>b, <2>2 DEF Frame, NodeOrNull
    <3>2. e \in Entry /\ e # NULL
      <4>1. e \in Entry
        BY <2>2 DEF Entry
      <4>2. NULL \notin Entry
        BY LimitAssumption DEF Entry
      <4> QED
        BY <4>1, <4>2
    <3> HIDE DEF g, e
    <3>3. pc' = [pc EXCEPT ![c] = "link"] /\ frame' = [frame EXCEPT ![c] = g]
          /\ entry' = [entry EXCEPT ![n] = e]
      BY <2>4 DEF Go, g, e
    <3>4. TypeOK'
      BY Zenon, <1>a, <2>1, <3>1, <3>2, <3>3 DEF TypeOK, TaskTypeOK, taskVars, privVars
    <3>5. n \notin Linked /\ Linked' = Linked
      BY <1>a, <2>1, <2>4 DEF ListOrder, Linked
    <3>6. \A m \in Node : entry'[m] = IF m = n THEN e ELSE entry[m]
      BY Zenon, <1>a, <3>3 DEF TypeOK
    <3>7. ListOrder'
      <4>1. \A i \in DOMAIN log : log[i] \in Node /\ log[i] # n
        BY <1>a, <3>5 DEF TypeOK, Linked
      <4>2. \A i \in DOMAIN log : entry'[log[i]] = entry[log[i]]
        BY <3>6, <4>1
      <4> QED
        BY <1>a, <2>1, <4>2 DEF ListOrder
    <3>8. ASSUME NEW d \in Caller PROVE CallerOK(pc[d], frame[d])'
      <4>1. CASE d = c
        <5>1. pc'[d] = "link" /\ frame'[d] = g
          BY <1>a, <3>3, <4>1 DEF TypeOK
        <5> QED
          BY <2>2, <3>1, <3>2, <3>5, <3>6, <5>1 DEF CallerOK
      <4>2. CASE d # c
        <5>1. pc'[d] = pc[d] /\ frame'[d] = frame[d]
          BY <1>a, <3>3, <4>2 DEF TypeOK
        <5>2. CallerOK(pc[d], frame[d])
          BY DEF ListInv
        <5> QED
          BY Zenon, <3>2, <3>5, <3>6, <5>1, <5>2 DEF CallerOK
      <4> QED
        BY <4>1, <4>2
    <3>9. NodesDistinct'
      <4>1. \A d \in Caller : pc[d] \in LinkPcs => frame[d].node # n
        BY <2>4, <3>2, LimitAssumption DEF ListInv, CallerOK, Entry
      <4>2. \A d \in Caller : d # c => pc'[d] = pc[d] /\ frame'[d] = frame[d]
        BY <1>a, <3>3 DEF TypeOK
      <4>3. frame'[c].node = n
        BY <1>a, <3>1, <3>3 DEF TypeOK
      <4> QED
        BY <1>a, <4>1, <4>2, <4>3 DEF NodesDistinct
    <3> QED
      BY Zenon, <3>4, <3>7, <3>8, <3>9 DEF ListInv
  <2> QED
    BY Zenon, <1>8, <2>3, <2>4 DEF Kmalloc, f
<1>9. CASE ListAddRead(c)
  <2> DEFINE g == [f EXCEPT !.first = head]
  <2>1. pc[c] = "link" /\ Go(c, "publish", g)
        /\ UNCHANGED <<taskVars, total_vm, usage, listVars, privVars>>
    BY <1>9 DEF ListAddRead, f
  <2>2. head \in Linked \cup {NULL} /\ head \in NodeOrNull
    BY <1>a, LinkedClosed DEF TypeOK
  <2>3. CallerOK("publish", g) /\ g.node = f.node
    BY Zenon, <1>a, <1>b, <2>1, <2>2 DEF CallerOK, Frame
  <2> HIDE DEF g
  <2> QED
    BY <1>c, <2>1, <2>3, LocalStep DEF f
<1>10. CASE ListAddPublish(c)
  <2> DEFINE n == f.node
  <2> DEFINE L == Len(log)
  <2>1. /\ pc[c] = "publish"
        /\ next' = [next EXCEPT ![n] = f.first]
        /\ head' = n /\ log' = Append(log, n)
        /\ Go(c, "put", f)
        /\ UNCHANGED <<taskVars, total_vm, usage, entry, privVars>>
    BY <1>10 DEF ListAddPublish, f
  <2>2. /\ f.op = "add" /\ f.pid \in Pid /\ f.limit \in Limit /\ f.task \in Task
        /\ n \in Node /\ n \notin Linked /\ entry[n] \in Entry
        /\ f.first \in Linked \cup {NULL}
    BY <1>a, <2>1 DEF CallerOK
  <2> HIDE DEF n
  <2>3. /\ log \in Seq(Node) /\ L \in Nat /\ DOMAIN log = 1..L
        /\ log' \in Seq(Node) /\ Len(log') = L + 1 /\ DOMAIN log' = 1..(L + 1)
        /\ \A i \in 1..L : log'[i] = log[i]
        /\ log'[L + 1] = n
    BY <1>a, <2>1, <2>2 DEF TypeOK
  <2>4. Linked' = Linked \cup {n}
    BY <2>3 DEF Linked
  <2>5. f.first \in NodeOrNull
    BY <1>a, <2>2, LinkedType DEF NodeOrNull
  <2>6. TypeOK'
    <3>1. next' \in [Node -> NodeOrNull] /\ head' \in NodeOrNull
      BY Zenon, <1>a, <2>1, <2>2, <2>5 DEF TypeOK, NodeOrNull
    <3>2. pc' \in [Caller -> Pcs] /\ frame' \in [Caller -> Frame]
      BY Zenon, <1>a, <1>b, <2>1 DEF TypeOK, Go
    <3> QED
      BY Zenon, <1>a, <2>1, <2>3, <3>1, <3>2 DEF TypeOK, TaskTypeOK, taskVars, privVars
  <2>7. \A m \in Node : next'[m] = IF m = n THEN f.first ELSE next[m]
    BY <1>a, <2>1 DEF TypeOK
  <2>8. ListOrder'
    <3>1. head' = IF log' = <<>> THEN NULL ELSE log'[Len(log')]
      BY <2>1, <2>3
    <3>2. ASSUME NEW i \in 1..L
          PROVE  /\ entry'[log'[i]] # NULL
                 /\ \A j \in DOMAIN log' : log'[i] = log'[j] => i = j
                 /\ next'[log'[i]] = NULL \/ \E j \in 1..(i - 1) : next'[log'[i]] = log'[j]
      <4>1. log[i] \in Node /\ log[i] # n
        <5>1. log[i] \in Linked
          BY <2>3 DEF Linked
        <5> QED
          BY <2>2, <2>3, <5>1
      <4>2. /\ entry[log[i]] # NULL
            /\ \A j \in DOMAIN log : log[i] = log[j] => i = j
            /\ next[log[i]] = NULL \/ \E j \in 1..(i - 1) : next[log[i]] = log[j]
        BY <1>a, <2>3 DEF ListOrder
      <4>3. \A j \in DOMAIN log' : log'[i] = log'[j] => i = j
        <5> TAKE j \in DOMAIN log'
        <5>1. CASE j = L + 1
          BY <2>3, <4>1, <5>1
        <5>2. CASE j \in 1..L
          BY <2>3, <4>2, <5>2
        <5> QED
          BY <2>3, <5>1, <5>2
      <4>4. next'[log'[i]] = NULL \/ \E j \in 1..(i - 1) : next'[log'[i]] = log'[j]
        BY <2>3, <2>7, <4>1, <4>2
      <4>5. entry'[log'[i]] # NULL
        BY <2>1, <2>3, <4>2
      <4> QED
        BY <4>3, <4>4, <4>5
    <3>3. /\ entry'[log'[L + 1]] # NULL
          /\ \A j \in DOMAIN log' : log'[L + 1] = log'[j] => L + 1 = j
          /\ \/ next'[log'[L + 1]] = NULL
             \/ \E j \in 1..(L + 1 - 1) : next'[log'[L + 1]] = log'[j]
      <4>1. \A j \in 1..L : log'[j] # n
        BY <2>2, <2>3 DEF Linked
      <4>2. next'[n] = f.first
        BY <2>2, <2>7
      <4>3. f.first = NULL \/ \E j \in 1..L : f.first = log[j]
        BY <2>2, <2>3 DEF Linked
      <4>4. entry[n] # NULL
        BY <2>2, LimitAssumption DEF Entry
      <4>5. entry'[log'[L + 1]] # NULL
        BY <2>1, <2>3, <4>4
      <4>6. \A j \in DOMAIN log' : log'[L + 1] = log'[j] => L + 1 = j
        BY <2>3, <4>1
      <4>7. \/ next'[log'[L + 1]] = NULL
            \/ \E j \in 1..(L + 1 - 1) : next'[log'[L + 1]] = log'[j]
        BY <2>3, <4>2, <4>3
      <4> QED
        BY <4>5, <4>6, <4>7
    <3>4. \A i \in DOMAIN log' : i \in 1..L \/ i = L + 1
      BY <2>3
    <3>5. \A i \in DOMAIN log' :
            /\ entry'[log'[i]] # NULL
            /\ \A j \in DOMAIN log' : log'[i] = log'[j] => i = j
            /\ next'[log'[i]] = NULL \/ \E j \in 1..(i - 1) : next'[log'[i]] = log'[j]
      BY <3>2, <3>3, <3>4
    <3> QED
      BY <3>1, <3>5 DEF ListOrder
  <2>9. ASSUME NEW d \in Caller PROVE CallerOK(pc[d], frame[d])'
    <3>1. CASE d = c
      <4>1. pc'[d] = "put" /\ frame'[d] = f
        BY Zenon, <1>a, <2>1, <3>1 DEF TypeOK, Go
      <4> QED
        BY <1>b, <2>2, <4>1 DEF CallerOK
    <3>2. CASE d # c
      <4>1. pc'[d] = pc[d] /\ frame'[d] = frame[d]
        BY Zenon, <1>a, <2>1, <3>2 DEF TypeOK, Go
      <4>2. CallerOK(pc[d], frame[d])
        BY DEF ListInv
      <4>3. pc[d] \in LinkPcs => frame[d].node # n
        BY Zenon, <1>a, <2>1, <3>2 DEF NodesDistinct, n, f
      <4> QED
        BY Zenon, <2>1, <2>4, <4>1, <4>2, <4>3 DEF CallerOK
    <3> QED
      BY <3>1, <3>2
  <2>10. NodesDistinct'
    BY Zenon, <1>a, <2>1 DEF NodesDistinct, Go, TypeOK
  <2> QED
    BY <2>6, <2>8, <2>9, <2>10 DEF ListInv
<1>11. CASE PutTask(c)
  <2>1. f.op = "add" /\ f.pid \in Pid /\ f.task \in Task /\ f.ret \in Int
    BY Zenon, <1>11, <1>a DEF PutTask, CallerOK, Frame
  <2>2. usage' \in [Task -> Int]
    BY <1>11, <1>c, <2>1 DEF PutTask, f
  <2>3. Return(c, f, f.ret) /\ UNCHANGED <<taskVars, total_vm, listVars, privVars>>
    BY <1>11 DEF PutTask, f
  <2> QED
    BY Zenon, <1>d, <2>1, <2>2, <2>3, ReturnStep
<1>12. CASE GetWalk(c)
  <2>1. pc[c] = "walk" /\ f.op = "get" /\ UNCHANGED <<taskVars, total_vm, usage, listVars, privVars>>
    BY <1>12 DEF GetWalk, f
  <2>2. CASE Go(c, "count", f)
    <3>1. CallerOK("count", f)
      BY <1>b, <2>1 DEF CallerOK
    <3> QED
      BY Zenon, <1>c, <2>1, <2>2, <3>1, LocalStep
  <2>3. CASE Go(c, "idle", [f EXCEPT !.ret = EFAULT])
    <3>1. CallerOK("idle", [f EXCEPT !.ret = EFAULT])
      BY Zenon, <1>b DEF CallerOK, Frame
    <3> QED
      BY <1>c, <2>1, <2>3, <3>1, LocalStep
  <2>4. CASE f.cur # NULL /\ Go(c, "walk", [Advance(f) EXCEPT !.buf = Append(@, entry[f.cur])])
    <3> DEFINE g == Advance(f)
    <3> DEFINE h == [g EXCEPT !.buf = Append(@, entry[f.cur])]
    <3>1. f.cur \in Linked /\ f.cur \in Node
      BY <1>a, <2>1, <2>4, LinkedType DEF CallerOK
    <3>2. next[f.cur] \in Linked \cup {NULL} /\ next[f.cur] \in NodeOrNull /\ entry[f.cur] \in Entry
      BY <1>a, <3>1, LinkedClosed DEF TypeOK
    <3>3. g \in Frame /\ g.cur = next[f.cur] /\ g.op = f.op /\ g.buf = f.buf
      BY <1>b, <3>1, <3>2, AdvanceType
    <3> HIDE DEF g
    <3>4. Append(g.buf, entry[f.cur]) \in Seq(Entry)
      BY <3>2, <3>3 DEF Frame
    <3>5. h \in Frame /\ h.cur = g.cur /\ h.op = g.op
      BY Zenon, <3>3, <3>4 DEF Frame
    <3> HIDE DEF h
    <3>6. CallerOK("walk", h)
      BY Zenon, <2>1, <3>2, <3>3, <3>5 DEF CallerOK
    <3>7. Go(c, "walk", h)
      BY <2>4 DEF h, g
    <3> QED
      BY Zenon, <1>c, <2>1, <3>6, <3>7, LocalStep
  <2> QED
    BY <1>12, <2>2, <2>3, <2>4 DEF GetWalk, f
<1>13. CASE GetCount(c)
  <2> DEFINE n == Len(f.buf)
  <2>1. pc[c] = "count" /\ UNCHANGED <<taskVars, total_vm, usage, listVars, privVars>>
    BY <1>13 DEF GetCount
  <2>2. n \in Nat
    BY <1>b DEF Frame
  <2> HIDE DEF n
  <2>3. n % IntRange \in Nat /\ n \div IntRange \in Nat
    BY <2>2, LimitAssumption
  <2>4. ASSUME NEW u \in (Nat \cup {NULL}) \X (Nat \cup {NULL}), NEW r \in Int,
               Go(c, "idle", [f EXCEPT !.user = u, !.ret = r])
        PROVE  ListInv'
    <3>1. CallerOK("idle", [f EXCEPT !.user = u, !.ret = r])
      BY Zenon, <1>b DEF CallerOK, Frame
    <3> QED
      BY <1>c, <2>1, <2>4, <3>1, LocalStep
  <2>5. \E u \in (Nat \cup {NULL}) \X (Nat \cup {NULL}), r \in Int :
          Go(c, "idle", [f EXCEPT !.user = u, !.ret = r])
    <3>1. f.user \in (Nat \cup {NULL}) \X (Nat \cup {NULL})
      BY <1>b DEF Frame
    <3>2. /\ <<n % IntRange, n \div IntRange>> \in (Nat \cup {NULL}) \X (Nat \cup {NULL})
          /\ <<n % IntRange, NULL>> \in (Nat \cup {NULL}) \X (Nat \cup {NULL})
      BY <2>3
    <3> DEFINE G(u, r) == Go(c, "idle", [f EXCEPT !.user = u, !.ret = r])
    <3>3. \/ G(<<n % IntRange, n \div IntRange>>, n)
          \/ \E u \in {f.user, <<n % IntRange, NULL>>} : G(u, EFAULT)
      BY <1>13 DEF GetCount, f, n
    <3> HIDE DEF G
    <3>4. \E u \in (Nat \cup {NULL}) \X (Nat \cup {NULL}), r \in Int : G(u, r)
      BY <2>2, <3>1, <3>2, <3>3
    <3> QED
      BY Zenon, <3>4 DEF G
  <2> QED
    BY Zenon, <2>4, <2>5
<1> QED
  BY <1>1, <1>2, <1>3, <1>4, <1>5, <1>6, <1>7, <1>8, <1>9, <1>10, <1>11, <1>12, <1>13
     DEF Step

LEMMA NextInv == ListInv /\ [Next]_vars => ListInv'
<1> SUFFICES ASSUME ListInv, [Next]_vars PROVE ListInv'
  OBVIOUS
<1>1. CASE Next
  BY <1>1, ProcessInv, CallInv, StepInv DEF Next
<1>2. CASE UNCHANGED vars
  <2>1. Linked' = Linked
    BY <1>2 DEF vars, listVars, Linked
  <2> QED
    BY Zenon, <1>2, <2>1 DEF ListInv, TypeOK, TaskTypeOK, ListOrder, CallerOK, NodesDistinct,
                      vars, taskVars, listVars, privVars
<1> QED
  BY <1>1, <1>2

LEMMA SpecInv == Spec => []ListInv
BY InitInv, NextInv, PTL DEF Spec

\* Every reachable state of the calls is well typed, for any number of callers.
THEOREM TypeCorrect == Spec => []TypeOK
<1>1. ListInv => TypeOK
  BY DEF ListInv
<1> QED
  BY <1>1, SpecInv, PTL

\* Unlocked concurrent list_add calls never create a cycle in the list or
\* expose a node that is not linked: every walk of add and get ends.
THEOREM ListStaysOrdered == Spec => []ListOrder
<1>1. ListInv => ListOrder
  BY DEF ListInv
<1> QED
  BY <1>1, SpecInv, PTL

LEMMA LinkedFixed ==
  ASSUME ListInv, [Next]_vars
  PROVE  \A n \in Linked : next'[n] = next[n] /\ entry'[n] = entry[n]
<1>1. CASE UNCHANGED <<next, entry>>
  BY Zenon, <1>1
<1>2. ASSUME NEW c \in Caller, Kmalloc(c)
      PROVE  \A n \in Linked : next'[n] = next[n] /\ entry'[n] = entry[n]
  <2>1. \A n \in Linked : n \in Node /\ entry[n] # NULL
    <3>1. NULL \notin Entry
      BY LimitAssumption DEF Entry
    <3> QED
      BY <3>1, LinkedType, LinkedClosed DEF ListInv
  <2> QED
    BY Zenon, <1>2, <2>1 DEF Kmalloc, ListInv, TypeOK
<1>3. ASSUME NEW c \in Caller, ListAddPublish(c)
      PROVE  \A n \in Linked : next'[n] = next[n] /\ entry'[n] = entry[n]
  <2>1. frame[c].node \notin Linked
    BY Zenon, <1>3 DEF ListInv, CallerOK, ListAddPublish, LinkPcs
  <2>2. Linked \subseteq Node
    BY LinkedType DEF ListInv
  <2> QED
    BY <1>3, <2>1, <2>2 DEF ListAddPublish, ListInv, TypeOK
<1>4. CASE UNCHANGED vars
  BY <1>4 DEF vars, listVars
<1>5. CASE ProcessStep
  BY Zenon, <1>1, <1>5 DEF ProcessStep, ResizeMm, listVars
<1>6. ASSUME NEW c \in Caller, Call(c) PROVE UNCHANGED <<next, entry>>
  BY Zenon, <1>6 DEF Call, AddCall, GetCall, UpdateCall, RemoveCall, listVars
<1>7. ASSUME NEW c \in Caller, Step(c), ~ Kmalloc(c), ~ ListAddPublish(c)
      PROVE  UNCHANGED <<next, entry>>
  BY Zenon, <1>7 DEF Step, FindVpid, GetPidTask, GetStalePid, ReadMm, ReadVm, ReadHead,
              AddWalk, ListAddRead, PutTask, GetWalk, GetCount, listVars
<1> QED
  BY Zenon, <1>1, <1>2, <1>3, <1>4, <1>5, <1>6, <1>7 DEF Next

\* No step of any call changes a node that is already on the list.
THEOREM LinkedNodesAreFinal == Spec => LinkedIsFinal
<1>1. ListInv /\ [Next]_vars =>
        [\A n \in Linked : next'[n] = next[n] /\ entry'[n] = entry[n]]_vars
  BY LinkedFixed
<1> QED
  BY <1>1, SpecInv, PTL DEF Spec, LinkedIsFinal

-----------------------------------------------------------------------------
(* add balances its references on tasks.                                   *)

\* A caller at pc k with local variables f owns a reference on t.
Holds(k, f, t) == f.op = "add" /\ f.task = t /\ k \notin {"idle", "find", "get"}

LEMMA HoldersFinite == \A t \in Task : IsFiniteSet(Holders(t))
BY LimitAssumption, FS_Subset DEF Holders

\* A step that neither takes nor drops a reference keeps the balance.
LEMMA SameHolders ==
  ASSUME ListInv, RefsBalanced, NEW c \in Caller, NEW to, NEW f, Go(c, to, f),
         UNCHANGED usage,
         \A t \in Task : Holds(to, f, t) <=> Holds(pc[c], frame[c], t)
  PROVE  RefsBalanced'
<1>1. \A t \in Task : Holders(t)' = Holders(t)
  BY DEF Holders, Holds, Go, ListInv, TypeOK
<1> QED
  BY <1>1 DEF RefsBalanced

\* A step that takes one reference on u counts it.
LEMMA TakeHolder ==
  ASSUME ListInv, RefsBalanced, NEW c \in Caller, NEW to, NEW f, Go(c, to, f),
         NEW u \in Task, usage' = [usage EXCEPT ![u] = @ + 1],
         \A t \in Task : ~ Holds(pc[c], frame[c], t),
         \A t \in Task : Holds(to, f, t) <=> t = u
  PROVE  RefsBalanced'
<1>1. \A t \in Task : Holders(t)' = IF t = u THEN Holders(t) \cup {c} ELSE Holders(t)
  BY DEF Holders, Holds, Go, ListInv, TypeOK
<1>2. c \notin Holders(u)
  BY Zenon DEF Holders, Holds
<1>3. Cardinality(Holders(u) \cup {c}) = Cardinality(Holders(u)) + 1
  BY Zenon, <1>2, HoldersFinite, FS_AddElement
<1> QED
  BY Zenon, <1>1, <1>3 DEF RefsBalanced, ListInv, TypeOK

\* A step that drops the reference on u uncounts it.
LEMMA DropHolder ==
  ASSUME ListInv, RefsBalanced, NEW c \in Caller, NEW to, NEW f, Go(c, to, f),
         NEW u \in Task, usage' = [usage EXCEPT ![u] = @ - 1],
         \A t \in Task : Holds(pc[c], frame[c], t) <=> t = u,
         \A t \in Task : ~ Holds(to, f, t)
  PROVE  RefsBalanced'
<1>1. \A t \in Task : Holders(t)' = IF t = u THEN Holders(t) \ {c} ELSE Holders(t)
  BY DEF Holders, Holds, Go, ListInv, TypeOK
<1>2. c \in Holders(u)
  BY Zenon DEF Holders, Holds
<1>3. Cardinality(Holders(u) \ {c}) = Cardinality(Holders(u)) - 1
  BY Zenon, <1>2, HoldersFinite, FS_RemoveElement
<1> QED
  BY Zenon, <1>1, <1>3 DEF RefsBalanced, ListInv, TypeOK

LEMMA ReturnHolders ==
  ASSUME ListInv, RefsBalanced, NEW c \in Caller, NEW f, NEW r, Return(c, f, r),
         UNCHANGED usage, pc[c] \in {"idle", "find", "get"}
  PROVE  RefsBalanced'
<1> DEFINE g == [NoCall EXCEPT !.op = f.op, !.pid = f.pid, !.ret = r]
<1>1. Go(c, "idle", g)
  BY DEF Return
<1> HIDE DEF g
<1> QED
  BY <1>1, SameHolders DEF Holds

LEMMA RefsStep == ASSUME ListInv, RefsBalanced, NEW c \in Caller, Step(c) PROVE RefsBalanced'
<1> DEFINE f == frame[c]
<1>a. TypeOK /\ CallerOK(pc[c], f) /\ f \in Frame
  BY Zenon DEF ListInv, CallerOK
<1> USE DEF AddPcs, PinPcs, LinkPcs
<1> HIDE DEF f
<1>1. CASE FindVpid(c)
  <2>1. CASE Return(c, f, ESRCH)
    BY <1>1, <2>1, ReturnHolders DEF FindVpid
  <2>2. CASE Go(c, "get", [f EXCEPT !.task = pid_task[f.pid]])
    BY <1>1, <2>2, SameHolders DEF FindVpid, Holds
  <2> QED
    BY <1>1, <2>1, <2>2 DEF FindVpid, f
<1>2. CASE GetPidTask(c)
  <2>1. f.op = "add" /\ f.task \in Task
    BY Zenon, <1>2, <1>a DEF GetPidTask, CallerOK
  <2>2. \A t \in Task : ~ Holds(pc[c], frame[c], t) /\ (Holds("mm", f, t) <=> t = f.task)
    BY Zenon, <1>2, <2>1 DEF GetPidTask, Holds
  <2>3. Go(c, "mm", f) /\ usage' = [usage EXCEPT ![f.task] = @ + 1]
    BY <1>2 DEF GetPidTask, f
  <2> QED
    BY Zenon, <2>1, <2>2, <2>3, TakeHolder
<1>3. CASE GetStalePid(c)
  <2>1. f.op = "add" /\ pc[c] = "get"
    BY <1>3, <1>a DEF GetStalePid, CallerOK
  <2>2. CASE Return(c, f, ESRCH) /\ UNCHANGED usage
    BY <2>1, <2>2, ReturnHolders
  <2>3. CASE Go(c, "oops", [f EXCEPT !.task = NULL]) /\ UNCHANGED usage
    <3>1. \A t \in Task : ~ Holds("oops", [f EXCEPT !.task = NULL], t)
      BY <1>a, TaskAssumption DEF Holds, Frame
    <3>2. \A t \in Task : ~ Holds(pc[c], frame[c], t)
      BY <2>1 DEF Holds
    <3> QED
      BY <2>3, <3>1, <3>2, SameHolders
  <2>4. ASSUME NEW t \in {pid_task[p] : p \in Pid} \ {NULL},
               usage' = [usage EXCEPT ![t] = @ + 1],
               Go(c, "mm", [f EXCEPT !.task = t])
        PROVE  RefsBalanced'
    <3> DEFINE g == [f EXCEPT !.task = t]
    <3>1. t \in Task
      BY <1>a DEF TypeOK, TaskTypeOK
    <3>2. g.op = "add" /\ g.task = t
      BY <1>a, <2>1 DEF Frame
    <3> HIDE DEF g
    <3>3. Go(c, "mm", g)
      BY <2>4 DEF g
    <3>4. \A u \in Task : ~ Holds(pc[c], frame[c], u) /\ (Holds("mm", g, u) <=> u = t)
      BY Zenon, <2>1, <3>2 DEF Holds
    <3> QED
      BY Zenon, <2>4, <3>1, <3>3, <3>4, TakeHolder
  <2> QED
    BY Zenon, <1>3, <2>2, <2>3, <2>4 DEF GetStalePid, f
<1>4. ASSUME NEW to, NEW g, Go(c, to, g), UNCHANGED usage, g.op = f.op, g.task = f.task,
             pc[c] \notin {"idle", "find", "get"},
             to \notin {"idle", "find", "get"} \/ f.op # "add"
      PROVE  RefsBalanced'
  BY <1>4, SameHolders DEF Holds, f
<1>5. ASSUME NEW u, CheckUsage(c, u), UNCHANGED usage, pc[c] \in {"mm", "vm"} PROVE RefsBalanced'
  <2> DEFINE g == [f EXCEPT !.ret = E_OVER_LIMIT]
  <2>1. g.op = f.op /\ g.task = f.task
    BY <1>a DEF Frame
  <2>2. Go(c, "put", g) \/ Go(c, "head", f)
    BY <1>5 DEF CheckUsage, f
  <2> HIDE DEF g
  <2> QED
    BY <1>4, <1>5, <2>1, <2>2
<1>6. CASE ReadMm(c)
  <2> DEFINE g == [f EXCEPT !.mm = mm[f.task]]
  <2>1. g.op = f.op /\ g.task = f.task
    BY <1>a DEF Frame
  <2>2. CheckUsage(c, 0) \/ Go(c, "vm", g)
    BY <1>6 DEF ReadMm, f
  <2>3. UNCHANGED usage /\ pc[c] = "mm"
    BY <1>6 DEF ReadMm
  <2> HIDE DEF g
  <2> QED
    BY <1>4, <1>5, <2>1, <2>2, <2>3
<1>7. CASE ReadVm(c)
  <2>1. (\E u : CheckUsage(c, u)) \/ Go(c, "oops", f)
    BY Zenon, <1>7 DEF ReadVm, f
  <2>2. UNCHANGED usage /\ pc[c] = "vm"
    BY <1>7 DEF ReadVm
  <2> QED
    BY <1>4, <1>5, <2>1, <2>2
<1>8. CASE ReadHead(c)
  <2> DEFINE g == [f EXCEPT !.cur = head, !.hd = head]
  <2>1. g.op = f.op /\ g.task = f.task
    BY <1>a DEF Frame
  <2>2. Go(c, "walk", g) /\ UNCHANGED usage /\ pc[c] = "head"
    BY <1>8 DEF ReadHead, f
  <2> HIDE DEF g
  <2> QED
    BY <1>4, <2>1, <2>2
<1>9. CASE AddWalk(c)
  <2> DEFINE g == [f EXCEPT !.ret = E_DUPLICATE]
  <2> DEFINE h == Advance(f)
  <2>1. g.op = f.op /\ g.task = f.task /\ h.op = f.op /\ h.task = f.task
    BY <1>a DEF Frame, Advance
  <2>2. Go(c, "alloc", f) \/ Go(c, "put", g) \/ Go(c, "walk", h)
    BY <1>9 DEF AddWalk, f
  <2>3. UNCHANGED usage /\ pc[c] = "walk"
    BY <1>9 DEF AddWalk
  <2> HIDE DEF g, h
  <2> QED
    BY <1>4, <2>1, <2>2, <2>3
<1>10. CASE Kmalloc(c)
  <2> DEFINE g == [f EXCEPT !.ret = ENOMEM]
  <2> DEFINE h(n) == [f EXCEPT !.node = n]
  <2>1. g.op = f.op /\ g.task = f.task /\ \A n : h(n).op = f.op /\ h(n).task = f.task
    BY <1>a DEF Frame
  <2>2. Go(c, "put", g) \/ \E n : Go(c, "link", h(n))
    BY Zenon, <1>10 DEF Kmalloc, f
  <2>3. UNCHANGED usage /\ pc[c] = "alloc"
    BY <1>10 DEF Kmalloc
  <2> HIDE DEF g, h
  <2> QED
    BY <1>4, <2>1, <2>2, <2>3
<1>11. CASE ListAddRead(c)
  <2> DEFINE g == [f EXCEPT !.first = head]
  <2>1. g.op = f.op /\ g.task = f.task
    BY <1>a DEF Frame
  <2>2. Go(c, "publish", g) /\ UNCHANGED usage /\ pc[c] = "link"
    BY <1>11 DEF ListAddRead, f
  <2> HIDE DEF g
  <2> QED
    BY <1>4, <2>1, <2>2
<1>12. CASE ListAddPublish(c)
  <2>1. Go(c, "put", f) /\ UNCHANGED usage /\ pc[c] = "publish"
    BY <1>12 DEF ListAddPublish, f
  <2> QED
    BY <1>4, <2>1
<1>13. CASE GetWalk(c) \/ GetCount(c)
  <2>1. UNCHANGED usage /\ pc[c] \in {"walk", "count"} /\ f.op = "get"
    BY <1>13, <1>a DEF GetWalk, GetCount, CallerOK, f
  <2>2. \E to, g : Go(c, to, g) /\ g.op = "get"
    <3>1. CASE GetWalk(c)
      <4> DEFINE g == [f EXCEPT !.ret = EFAULT]
      <4> DEFINE h == [Advance(f) EXCEPT !.buf = Append(@, entry[f.cur])]
      <4>1. g.op = "get" /\ h.op = "get"
        BY <1>a, <2>1 DEF Frame, Advance
      <4>2. Go(c, "count", f) \/ Go(c, "idle", g) \/ Go(c, "walk", h)
        BY <3>1 DEF GetWalk, f
      <4> HIDE DEF g, h
      <4> QED
        BY <2>1, <4>1, <4>2
    <3>2. CASE GetCount(c)
      <4> DEFINE g(u, r) == [f EXCEPT !.user = u, !.ret = r]
      <4>1. \A u, r : g(u, r).op = "get"
        BY <1>a, <2>1 DEF Frame
      <4>2. \E u, r : Go(c, "idle", g(u, r))
        BY Zenon, <3>2 DEF GetCount, f
      <4> HIDE DEF g
      <4> QED
        BY <4>1, <4>2
    <3> QED
      BY <1>13, <3>1, <3>2
  <2> QED
    BY <2>1, <2>2, SameHolders DEF Holds, f
<1>14. CASE PutTask(c)
  <2> DEFINE g == [NoCall EXCEPT !.op = f.op, !.pid = f.pid, !.ret = f.ret]
  <2>1. f.op = "add" /\ f.task \in Task /\ pc[c] = "put"
    BY Zenon, <1>14, <1>a DEF PutTask, CallerOK
  <2>2. Go(c, "idle", g) /\ usage' = [usage EXCEPT ![f.task] = @ - 1]
    BY <1>14 DEF PutTask, Return, f
  <2> HIDE DEF g
  <2> QED
    BY Zenon, <2>1, <2>2, DropHolder DEF Holds, f
<1> QED
  BY <1>1, <1>2, <1>3, <1>6, <1>7, <1>8, <1>9, <1>10, <1>11, <1>12, <1>13, <1>14 DEF Step

LEMMA RefsNext == ListInv /\ RefsBalanced /\ [Next]_vars => RefsBalanced'
<1> SUFFICES ASSUME ListInv, RefsBalanced, [Next]_vars PROVE RefsBalanced'
  OBVIOUS
<1>1. CASE UNCHANGED <<usage, pc, frame>>
  BY <1>1 DEF RefsBalanced, Holders
<1>2. ASSUME NEW c \in Caller, Call(c) PROVE RefsBalanced'
  <2>1. pc[c] = "idle" /\ UNCHANGED usage
    BY Zenon, <1>2 DEF Call, AddCall, GetCall, UpdateCall, RemoveCall
  <2>2. \/ \E f, r : Return(c, f, r)
        \/ \E f : Go(c, "find", f)
        \/ \E f : Go(c, "head", f) /\ f.op = "get"
    <3>1. ASSUME NEW max, NEW null, GetCall(c, max, null)
          PROVE (\E f, r : Return(c, f, r)) \/ \E f : Go(c, "head", f) /\ f.op = "get"
      <4> DEFINE g == [NoCall EXCEPT !.op = "get", !.max = max]
      <4>1. Return(c, g, EINVAL) \/ Go(c, "head", g)
        BY <3>1 DEF GetCall
      <4>2. g.op = "get"
        BY DEF NoCall
      <4> HIDE DEF g
      <4> QED
        BY <4>1, <4>2
    <3>2. ASSUME NEW p, NEW l, NEW b, AddCall(c, p, l, b) \/ UpdateCall(c, p, l, b)
          PROVE (\E f, r : Return(c, f, r)) \/ \E f : Go(c, "find", f)
      BY <3>2 DEF AddCall, UpdateCall
    <3>3. ASSUME NEW p, NEW b, RemoveCall(c, p, b)
          PROVE \E f, r : Return(c, f, r)
      BY <3>3 DEF RemoveCall
    <3> QED
      BY <1>2, <3>1, <3>2, <3>3 DEF Call
  <2> QED
    BY Zenon, <2>1, <2>2, ReturnHolders, SameHolders DEF Holds
<1>3. UNCHANGED vars \/ ProcessStep => UNCHANGED <<usage, pc, frame>>
  BY DEF vars, ProcessStep, ResizeMm
<1> QED
  BY <1>1, <1>2, <1>3, RefsStep DEF Next

\* However add ends, each reference it took on a task is dropped exactly once:
\* the references outstanding are those of calls in progress (or faulted).
THEOREM TaskRefsBalanced == Spec => []RefsBalanced
<1>1. Init => RefsBalanced
  <2> SUFFICES ASSUME Init, NEW t \in Task PROVE usage[t] = Cardinality(Holders(t))
    BY DEF RefsBalanced
  <2>1. Holders(t) = {}
    BY Zenon DEF Init, Holders, NoCall
  <2> QED
    BY <2>1, FS_EmptySet DEF Init
<1> QED
  BY <1>1, RefsNext, SpecInv, PTL DEF Spec

-----------------------------------------------------------------------------
(* get reports one state of the list.                                      *)

\* What a get at pc k has copied with local variables f.
Copied(f) ==
  /\ Len(f.path) = Len(f.buf) /\ Len(f.buf) <= f.max
  /\ f.hd \in Linked \cup {NULL} /\ f.cur \in Linked \cup {NULL}
  /\ \A i \in 1..Len(f.path) : f.path[i] \in Linked /\ f.buf[i] = entry[f.path[i]]
  /\ IsWalk(f)

SnapOK(k, f) == f.op = "get" =>
  /\ k \in {"head", "walk", "count"} => f.ret = 0
  /\ k = "head" => f.path = <<>> /\ f.buf = <<>>
  /\ k # "head" /\ f.ret # EINVAL => Copied(f)
  /\ k = "count" => f.cur = NULL \/ Len(f.buf) = f.max
  /\ k = "idle" /\ f.ret >= 0 => f.ret = Len(f.buf) /\ (f.cur = NULL \/ Len(f.buf) = f.max)

SnapInv == \A c \in Caller : SnapOK(pc[c], frame[c])

LEMMA SnapImplies == ListInv /\ SnapInv => GetIsSnapshot
<1> SUFFICES ASSUME ListInv, SnapInv, NEW c \in Caller,
                    frame[c].op = "get", pc[c] # "head", frame[c].ret # EINVAL
             PROVE  LET f == frame[c] IN
                    /\ IsWalk(f)
                    /\ f.buf = [i \in 1..Len(f.path) |-> entry[f.path[i]]]
                    /\ Len(f.buf) <= f.max
                    /\ pc[c] = "idle" /\ f.ret >= 0 =>
                         f.ret = Len(f.buf) /\ (f.cur = NULL \/ Len(f.buf) = f.max)
  BY Zenon DEF GetIsSnapshot
<1> DEFINE f == frame[c]
<1>1. f \in Frame /\ Copied(f)
  BY Zenon DEF ListInv, CallerOK, SnapInv, SnapOK
<1>2. f.buf \in Seq(Entry) /\ f.path \in Seq(Node)
  BY Zenon, <1>1 DEF Frame
<1>3. pc[c] = "idle" /\ f.ret >= 0 => f.ret = Len(f.buf) /\ (f.cur = NULL \/ Len(f.buf) = f.max)
  BY Zenon DEF SnapInv, SnapOK
<1> HIDE DEF f
<1>4. f.buf = [i \in 1..Len(f.path) |-> entry[f.path[i]]]
  <2> DEFINE b == f.buf
             e == [i \in 1..Len(f.path) |-> entry[f.path[i]]]
  <2>1. b = [i \in 1..Len(f.path) |-> b[i]]
    BY <1>1, <1>2 DEF Copied
  <2>2. \A i \in 1..Len(f.path) : b[i] = entry[f.path[i]]
    BY <1>1 DEF Copied
  <2> QED BY Zenon, <2>1, <2>2
<1> QED BY Zenon, <1>1, <1>3, <1>4 DEF Copied, f

\* A node on the list stays there.
LEMMA LinkedGrows == ListInv /\ [Next]_vars => Linked \subseteq Linked'
<1> SUFFICES ASSUME ListInv, [Next]_vars PROVE Linked \subseteq Linked'
  OBVIOUS
<1>1. CASE UNCHANGED log
  BY <1>1 DEF Linked
<1>2. ASSUME NEW c \in Caller, ListAddPublish(c) PROVE Linked \subseteq Linked'
  <2>1. log \in Seq(Node) /\ frame[c].node \in Node
    BY Zenon, <1>2 DEF ListInv, TypeOK, CallerOK, ListAddPublish, LinkPcs
  <2>2. \A i \in DOMAIN log : i \in DOMAIN log' /\ log'[i] = log[i]
    BY <1>2, <2>1 DEF ListAddPublish
  <2> QED BY <2>2 DEF Linked
<1>3. CASE UNCHANGED vars
  BY <1>1, <1>3 DEF vars, listVars
<1>4. CASE ProcessStep
  BY <1>1, <1>4 DEF ProcessStep, ResizeMm, listVars
<1>5. ASSUME NEW c \in Caller, Call(c) PROVE UNCHANGED log
  BY Zenon, <1>5 DEF Call, AddCall, GetCall, UpdateCall, RemoveCall, listVars
<1>6. ASSUME NEW c \in Caller, Step(c), ~ ListAddPublish(c) PROVE UNCHANGED log
  BY Zenon, <1>6 DEF Step, FindVpid, GetPidTask, GetStalePid, ReadMm, ReadVm, ReadHead,
              AddWalk, Kmalloc, ListAddRead, PutTask, GetWalk, GetCount, listVars
<1> QED BY <1>1, <1>2, <1>3, <1>4, <1>5, <1>6 DEF Next

\* What a caller has copied stays as it was while the list grows.
LEMMA CopiedKept ==
  ASSUME ListInv, [Next]_vars, NEW f \in Frame, Copied(f) PROVE Copied(f)'
<1> DEFINE n == Len(f.path)
<1>1. f.path \in Seq(Node) /\ n \in Nat
  BY DEF Frame
<1>2. Linked \subseteq Linked' /\ \A m \in Linked : next'[m] = next[m] /\ entry'[m] = entry[m]
  BY LinkedGrows, LinkedFixed
<1>3. \A i \in 1..n : f.path[i] \in Linked
  BY DEF Copied
<1>4. f.path # <<>> => n \in 1..n
  BY <1>1
<1>5. \A i \in 1..(n - 1) : i \in 1..n
  BY <1>1
<1>6. IsWalk(f)'
  BY Zenon, <1>2, <1>3, <1>4, <1>5 DEF Copied, IsWalk
<1> QED BY Zenon, <1>2, <1>3, <1>6 DEF Copied

LEMMA SnapKept ==
  ASSUME ListInv, [Next]_vars, NEW f \in Frame, NEW k, SnapOK(k, f) PROVE SnapOK(k, f)'
<1>1. Copied(f) => Copied(f)'
  BY CopiedKept
<1> QED BY <1>1 DEF SnapOK

\* A step in which caller c goes on to a state of which SnapOK holds afterwards.
LEMMA SnapStep ==
  ASSUME ListInv, SnapInv, [Next]_vars, NEW c \in Caller, NEW to, NEW f, Go(c, to, f), SnapOK(to, f)'
  PROVE  SnapInv'
<1>1. \A d \in Caller : /\ pc'[d] = IF d = c THEN to ELSE pc[d]
                        /\ frame'[d] = IF d = c THEN f ELSE frame[d]
  BY DEF Go, ListInv, TypeOK
<1>2. ASSUME NEW d \in Caller, d # c PROVE SnapOK(pc[d], frame[d])'
  <2>1. frame[d] \in Frame /\ SnapOK(pc[d], frame[d])
    BY Zenon DEF ListInv, CallerOK, SnapInv
  <2>2. PICK k, g : k = pc[d] /\ g = frame[d]
    BY Zenon
  <2>3. SnapOK(k, g)'
    BY Zenon, <2>1, <2>2, SnapKept
  <2> QED BY Zenon, <1>1, <1>2, <2>2, <2>3
<1>3. SnapOK(pc[c], frame[c])'
  BY <1>1
<1> QED BY <1>2, <1>3 DEF SnapInv

LEMMA ReturnGoes ==
  ASSUME NEW c, NEW f, NEW r, Return(c, f, r) PROVE \E g : Go(c, "idle", g) /\ g.op = f.op
<1> DEFINE g == [NoCall EXCEPT !.op = f.op, !.pid = f.pid, !.ret = r]
<1>1. Go(c, "idle", g)
  BY DEF Return
<1>2. g.op = f.op
  BY DEF NoCall
<1> HIDE DEF g
<1> QED BY <1>1, <1>2

\* The steps of add only ever leave an add behind.
LEMMA AddSteps ==
  ASSUME ListInv, NEW c \in Caller, Step(c), frame[c].op # "get"
  PROVE  \E to, g : Go(c, to, g) /\ g.op # "get"
<1> DEFINE f == frame[c]
<1>a. CallerOK(pc[c], f) /\ f \in Frame /\ f.op # "get"
  BY Zenon DEF ListInv, CallerOK
<1>e. \A r : [f EXCEPT !.ret = r].op = f.op
  BY <1>a DEF Frame
<1>1. CASE FindVpid(c)
  <2> DEFINE g == [f EXCEPT !.task = pid_task[f.pid]]
  <2>1. g.op = f.op
    BY <1>a DEF Frame
  <2>2. Return(c, f, ESRCH) \/ Go(c, "get", g)
    BY <1>1 DEF FindVpid
  <2> HIDE DEF g
  <2> QED BY <1>a, <2>1, <2>2, ReturnGoes
<1>2. CASE GetPidTask(c) \/ ListAddPublish(c)
  BY Zenon, <1>a, <1>2 DEF GetPidTask, ListAddPublish
<1>3. CASE GetStalePid(c)
  <2> DEFINE g(t) == [f EXCEPT !.task = t]
  <2>1. \A t : g(t).op = f.op
    BY <1>a DEF Frame
  <2>2. \/ Return(c, f, ESRCH) \/ Go(c, "oops", g(NULL))
        \/ \E t \in {pid_task[p] : p \in Pid} \ {NULL} : Go(c, "mm", g(t))
    BY Zenon, <1>3 DEF GetStalePid
  <2> HIDE DEF g
  <2> QED BY <1>a, <2>1, <2>2, ReturnGoes
<1>4. ASSUME NEW u, CheckUsage(c, u) PROVE \E to, g : Go(c, to, g) /\ g.op # "get"
  BY Zenon, <1>a, <1>e, <1>4 DEF CheckUsage
<1>5. CASE ReadMm(c)
  <2>1. [f EXCEPT !.mm = mm[f.task]].op = f.op
    BY <1>a DEF Frame
  <2>2. CheckUsage(c, 0) \/ Go(c, "vm", [f EXCEPT !.mm = mm[f.task]])
    BY <1>5 DEF ReadMm
  <2> QED BY Zenon, <1>a, <1>4, <2>1, <2>2
<1>6. CASE ReadVm(c)
  BY Zenon, <1>a, <1>4, <1>6 DEF ReadVm
<1>7. CASE ReadHead(c)
  <2>1. [f EXCEPT !.cur = head, !.hd = head].op = f.op
    BY <1>a DEF Frame
  <2> QED BY Zenon, <1>a, <1>7, <2>1 DEF ReadHead
<1>8. CASE AddWalk(c)
  <2>1. Advance(f).op = f.op
    BY <1>a DEF Frame, Advance
  <2>2. Go(c, "alloc", f) \/ (\E r : Go(c, "put", [f EXCEPT !.ret = r])) \/ Go(c, "walk", Advance(f))
    BY Zenon, <1>8 DEF AddWalk
  <2> QED BY Zenon, <1>a, <1>e, <2>1, <2>2
<1>9. CASE Kmalloc(c)
  <2> DEFINE g(n) == [f EXCEPT !.node = n]
             e == [f EXCEPT !.ret = ENOMEM]
  <2>1. e.op = f.op /\ \A n : g(n).op = f.op
    BY <1>a DEF Frame
  <2>2. Go(c, "put", e) \/ \E n \in Node : Go(c, "link", g(n))
    BY Zenon, <1>9 DEF Kmalloc
  <2> HIDE DEF g, e
  <2> QED BY <1>a, <1>e, <2>1, <2>2
<1>10. CASE ListAddRead(c)
  <2>1. [f EXCEPT !.first = head].op = f.op
    BY <1>a DEF Frame
  <2> QED BY Zenon, <1>a, <1>10, <2>1 DEF ListAddRead
<1>11. CASE PutTask(c)
  BY <1>a, <1>11, ReturnGoes DEF PutTask
<1>12. ~ GetWalk(c) /\ ~ GetCount(c)
  BY <1>a DEF GetWalk, GetCount, CallerOK
<1> QED BY Zenon, <1>1, <1>2, <1>3, <1>5, <1>6, <1>7, <1>8, <1>9, <1>10, <1>11, <1>12 DEF Step

\* One more entry copied.
LEMMA CopyOne ==
  ASSUME ListInv, NEW f \in Frame, Copied(f), f.cur \in Linked, Len(f.buf) < f.max,
         NEW h \in Frame, h.cur = next[f.cur], h.path = Append(f.path, f.cur), h.hd = f.hd,
         h.buf = Append(f.buf, entry[f.cur]), h.max = f.max
  PROVE  Copied(h)
<1> DEFINE n == Len(f.path)
<1>1. /\ f.path \in Seq(Node) /\ f.buf \in Seq(Entry) /\ n \in Nat /\ Len(f.buf) = n
      /\ f.cur \in Node /\ entry[f.cur] \in Entry /\ next[f.cur] \in Linked \cup {NULL}
  BY LinkedType, LinkedClosed DEF Frame, ListInv, Copied
<1>2. /\ Len(h.path) = n + 1 /\ Len(h.buf) = n + 1 /\ h.path # <<>>
      /\ \A i \in 1..n : h.path[i] = f.path[i] /\ h.buf[i] = f.buf[i]
      /\ h.path[n + 1] = f.cur /\ h.buf[n + 1] = entry[f.cur]
  <2>1. Len(h.path) = n + 1 /\ h.path[n + 1] = f.cur /\ \A i \in 1..n : h.path[i] = f.path[i]
    BY <1>1
  <2>2. Len(h.buf) = n + 1 /\ h.buf[n + 1] = entry[f.cur] /\ \A i \in 1..n : h.buf[i] = f.buf[i]
    BY <1>1
  <2>3. h.path # <<>>
    BY <1>1, <2>1
  <2> QED BY Zenon, <2>1, <2>2, <2>3
<1>3. f.max \in Nat
  BY LimitAssumption DEF Frame
<1>4. \A i \in 1..(n + 1) : i \in 1..n \/ i = n + 1
  BY <1>1
<1>5. \A i \in 1..Len(h.path) : h.path[i] \in Linked /\ h.buf[i] = entry[h.path[i]]
  BY Zenon, <1>1, <1>2, <1>4 DEF Copied
<1>6. IsWalk(h)
  <2>1. h.cur = next[h.path[Len(h.path)]]
    BY <1>2
  <2>2. h.path[1] = h.hd
    <3>1. CASE n = 0
      <4>1. f.path = <<>>
        BY <1>1, <3>1
      <4> QED BY <1>2, <3>1, <4>1 DEF Copied, IsWalk
    <3>2. CASE n > 0
      <4>1. f.path # <<>> /\ 1 \in 1..n
        BY <1>1, <3>2
      <4> QED BY Zenon, <1>2, <4>1 DEF Copied, IsWalk
    <3> QED BY <1>1, <3>1, <3>2
  <2>3. ASSUME NEW i \in 1..(Len(h.path) - 1) PROVE h.path[i + 1] = next[h.path[i]]
    <3>1. i \in 1..n
      BY <1>1, <1>2
    <3>2. CASE i = n
      <4>1. f.path # <<>>
        BY <1>1, <3>1
      <4> QED BY Zenon, <1>2, <3>1, <3>2, <4>1 DEF Copied, IsWalk
    <3>3. CASE i # n
      <4>1. i \in 1..(n - 1) /\ i + 1 \in 1..n
        BY <1>1, <3>1, <3>3
      <4> QED BY Zenon, <1>2, <3>1, <4>1 DEF Copied, IsWalk
    <3> QED BY Zenon, <3>2, <3>3
  <2> QED BY Zenon, <1>2, <2>1, <2>2, <2>3 DEF IsWalk
<1> QED BY <1>1, <1>2, <1>3, <1>5, <1>6 DEF Copied

LEMMA SnapNext == ListInv /\ SnapInv /\ [Next]_vars => SnapInv'
<1> SUFFICES ASSUME ListInv, SnapInv, [Next]_vars PROVE SnapInv'
  OBVIOUS
<1>1. CASE UNCHANGED <<pc, frame>>
  <2> SUFFICES ASSUME NEW d \in Caller PROVE SnapOK(pc[d], frame[d])'
    BY DEF SnapInv
  <2>1. frame[d] \in Frame /\ SnapOK(pc[d], frame[d])
    BY Zenon DEF ListInv, CallerOK, SnapInv
  <2>2. PICK k, g : k = pc[d] /\ g = frame[d]
    BY Zenon
  <2>3. SnapOK(k, g)'
    BY <2>1, <2>2, SnapKept
  <2> QED BY <1>1, <2>2, <2>3
<1>2. ASSUME NEW c \in Caller, NEW to, NEW g, Go(c, to, g), g.op # "get" PROVE SnapInv'
  BY Zenon, <1>2, SnapStep DEF SnapOK
<1>3. ASSUME NEW c \in Caller, NEW to, NEW g \in Frame, Go(c, to, g), SnapOK(to, g) PROVE SnapInv'
  BY <1>3, SnapKept, SnapStep
<1>4. ASSUME NEW c \in Caller, Call(c) PROVE SnapInv'
  <2>1. ASSUME NEW max \in 0..MaxEntries, NEW null \in BOOLEAN, GetCall(c, max, null) PROVE SnapInv'
    <3> DEFINE f == [NoCall EXCEPT !.op = "get", !.max = max]
               e == [NoCall EXCEPT !.op = "get", !.pid = 0, !.ret = EINVAL]
    <3>1. f \in Frame /\ f.path = <<>> /\ f.buf = <<>> /\ f.ret = 0 /\ f.pid = 0 /\ f.op = "get"
      BY Zenon, NoCallType DEF Frame, NoCall
    <3>2. e \in Frame /\ e.ret = EINVAL
      BY Zenon, NoCallType, TypeOfErrors DEF Frame, NoCall
    <3>3. Go(c, "head", f) \/ Go(c, "idle", e)
      BY Zenon, <2>1, <3>1 DEF GetCall, Return
    <3> HIDE DEF f, e
    <3>4. SnapOK("head", f) /\ SnapOK("idle", e)
      BY <3>1, <3>2 DEF SnapOK, EINVAL
    <3> QED BY Zenon, <1>3, <3>1, <3>2, <3>3, <3>4
  <2>2. ASSUME NEW pid, NEW limit, NEW capable, AddCall(c, pid, limit, capable)
        PROVE  \E to, g : Go(c, to, g) /\ g.op # "get"
    <3> DEFINE f == [NoCall EXCEPT !.op = "add", !.pid = pid, !.limit = limit]
    <3>1. f.op = "add"
      BY DEF NoCall
    <3>2. Go(c, "find", f) \/ \E r \in {EINVAL, EPERM} : Return(c, f, r)
      BY <2>2 DEF AddCall, EINVAL, EPERM
    <3> HIDE DEF f
    <3> QED BY <3>1, <3>2, ReturnGoes
  <2>3. ASSUME NEW pid, NEW limit, NEW capable, UpdateCall(c, pid, limit, capable) \/ RemoveCall(c, pid, capable)
        PROVE  \E to, g : Go(c, to, g) /\ g.op # "get"
    <3>1. PICK f, r : /\ f \in {[op |-> "update", pid |-> pid], [op |-> "remove", pid |-> pid]}
                      /\ Return(c, f, r)
      BY <2>3 DEF UpdateCall, RemoveCall
    <3>2. f.op # "get"
      BY <3>1
    <3> QED BY <3>1, <3>2, ReturnGoes
  <2> QED BY <1>2, <1>4, <2>1, <2>2, <2>3 DEF Call
<1>5. ASSUME NEW c \in Caller, Step(c), frame[c].op # "get" PROVE SnapInv'
  BY <1>2, <1>5, AddSteps
<1>6. ASSUME NEW c \in Caller, Step(c), frame[c].op = "get" PROVE SnapInv'
  <2> DEFINE f == frame[c]
  <2>a. /\ CallerOK(pc[c], f) /\ f \in Frame /\ SnapOK(pc[c], f) /\ f.op = "get"
        /\ f.max \in Nat /\ Len(f.buf) \in Nat
    <3>1. CallerOK(pc[c], f) /\ SnapOK(pc[c], f) /\ f.op = "get"
      BY Zenon, <1>6 DEF ListInv, SnapInv
    <3> HIDE DEF f
    <3>2. f \in Frame
      BY Zenon, <3>1 DEF CallerOK
    <3>3. f.max \in Nat /\ f.buf \in Seq(Entry)
      BY <3>2, LimitAssumption DEF Frame
    <3> QED BY <3>1, <3>2, <3>3
  <2>b. EFAULT \in Int /\ EFAULT # EINVAL /\ EFAULT < 0
    BY DEF EFAULT, EINVAL
  <2>1. ReadHead(c) \/ GetWalk(c) \/ GetCount(c)
    BY Zenon, <1>6, <2>a DEF Step, FindVpid, GetPidTask, GetStalePid, ReadMm, ReadVm, AddWalk, Kmalloc,
       ListAddRead, ListAddPublish, PutTask, CallerOK, AddPcs, PinPcs
  <2>2. CASE ReadHead(c)
    <3> DEFINE g == [f EXCEPT !.cur = head, !.hd = head]
    <3>1. Go(c, "walk", g) /\ pc[c] = "head"
      BY <2>2 DEF ReadHead
    <3>2. head \in Linked \cup {NULL} /\ head \in NodeOrNull
      BY LinkedClosed DEF ListInv, TypeOK
    <3> HIDE DEF f
    <3>3. /\ g \in Frame /\ g.cur = head /\ g.hd = head /\ g.path = f.path /\ g.buf = f.buf
          /\ g.ret = f.ret /\ g.max = f.max /\ g.op = f.op
      BY Zenon, <2>a, <3>2 DEF Frame
    <3> HIDE DEF g
    <3>4. g.path = <<>> /\ g.buf = <<>> /\ g.ret = 0
      BY Zenon, <2>a, <3>1, <3>3 DEF SnapOK
    <3>5. Len(g.path) = 0 /\ Len(g.buf) = 0
      BY <3>4
    <3>6. IsWalk(g)
      BY <3>3, <3>4, <3>5 DEF IsWalk
    <3>7. Copied(g)
      BY <2>a, <3>2, <3>3, <3>5, <3>6 DEF Copied
    <3> QED BY Zenon, <1>3, <3>1, <3>3, <3>4, <3>7 DEF SnapOK
  <2>3. CASE GetWalk(c)
    <3> DEFINE e == [f EXCEPT !.ret = EFAULT]
               a == Advance(f)
               h == [a EXCEPT !.buf = Append(@, entry[f.cur])]
    <3>1. /\ pc[c] = "walk"
          /\ \/ Go(c, "count", f) /\ (f.cur = NULL \/ Len(f.buf) >= f.max)
             \/ Go(c, "idle", e)
             \/ Go(c, "walk", h) /\ f.cur # NULL /\ Len(f.buf) < f.max
      BY <2>3 DEF GetWalk
    <3> HIDE DEF f
    <3>2. f.ret = 0 /\ Copied(f) /\ f.cur \in Linked \cup {NULL}
      BY <2>a, <3>1 DEF SnapOK, EINVAL, Copied
    <3>3. CASE Go(c, "count", f) /\ (f.cur = NULL \/ Len(f.buf) >= f.max)
      <4>1. f.cur = NULL \/ Len(f.buf) = f.max
        BY <2>a, <3>2, <3>3 DEF Copied
      <4> QED BY Zenon, <1>3, <2>a, <3>2, <3>3, <4>1 DEF SnapOK
    <3>4. CASE Go(c, "idle", e)
      <4>1. /\ e \in Frame /\ e.ret = EFAULT /\ e.path = f.path /\ e.buf = f.buf /\ e.cur = f.cur
            /\ e.hd = f.hd /\ e.max = f.max
        BY Zenon, <2>a, <2>b DEF Frame
      <4> HIDE DEF e
      <4>2. IsWalk(e) <=> IsWalk(f)
        BY Zenon, <4>1 DEF IsWalk
      <4>3. Copied(e)
        BY Zenon, <3>2, <4>1, <4>2 DEF Copied
      <4> QED BY <1>3, <2>b, <3>4, <4>1, <4>3 DEF SnapOK
    <3>5. CASE Go(c, "walk", h) /\ f.cur # NULL /\ Len(f.buf) < f.max
      <4>1. f.cur \in Linked /\ f.cur \in Node /\ next[f.cur] \in NodeOrNull /\ entry[f.cur] \in Entry
        BY <3>2, <3>5, LinkedType, LinkedClosed DEF ListInv, TypeOK
      <4>2. /\ a \in Frame /\ a.cur = next[f.cur] /\ a.path = Append(f.path, f.cur) /\ a.buf = f.buf
            /\ a.hd = f.hd /\ a.max = f.max /\ a.ret = f.ret
        BY Zenon, <2>a, <4>1, AdvanceType
      <4> HIDE DEF a
      <4>3. Append(a.buf, entry[f.cur]) \in Seq(Entry)
        BY <4>1, <4>2 DEF Frame
      <4>4. /\ h \in Frame /\ h.cur = a.cur /\ h.path = a.path /\ h.hd = a.hd /\ h.max = a.max
            /\ h.ret = a.ret /\ h.buf = Append(a.buf, entry[f.cur])
        BY Zenon, <4>2, <4>3 DEF Frame
      <4> HIDE DEF h
      <4>5. Copied(h)
        BY Zenon, <2>a, <3>2, <3>5, <4>1, <4>2, <4>4, CopyOne
      <4>6. Go(c, "walk", h) /\ h.ret = 0
        BY Zenon, <3>2, <3>5, <4>2, <4>4
      <4> QED BY Zenon, <1>3, <4>4, <4>5, <4>6 DEF SnapOK
    <3> QED BY <3>1, <3>3, <3>4, <3>5
  <2>4. CASE GetCount(c)
    <3> DEFINE n == Len(f.buf)
               g(u, r) == [f EXCEPT !.user = u, !.ret = r]
    <3>1. /\ pc[c] = "count"
          /\ \/ Go(c, "idle", g(<<n % IntRange, n \div IntRange>>, n))
             \/ \E u \in {f.user, <<n % IntRange, NULL>>} : Go(c, "idle", g(u, EFAULT))
      BY <2>4 DEF GetCount
    <3> HIDE DEF f
    <3>2. f.ret = 0 /\ Copied(f) /\ (f.cur = NULL \/ n = f.max)
      BY <2>a, <3>1 DEF SnapOK, EINVAL
    <3>3. ASSUME NEW u \in (Nat \cup {NULL}) \X (Nat \cup {NULL}), NEW r \in {n, EFAULT}, Go(c, "idle", g(u, r))
          PROVE  SnapInv'
      <4> DEFINE h == [f EXCEPT !.user = u, !.ret = r]
      <4>0. r \in Int
        BY <2>a, <2>b
      <4>1. /\ h \in Frame /\ h.ret = r /\ h.path = f.path /\ h.buf = f.buf /\ h.cur = f.cur
            /\ h.hd = f.hd /\ h.max = f.max
        BY Zenon, <2>a, <4>0 DEF Frame
      <4>2. Go(c, "idle", h)
        BY <3>3
      <4> HIDE DEF h
      <4>3. IsWalk(h) <=> IsWalk(f)
        BY Zenon, <4>1 DEF IsWalk
      <4>4. Copied(h)
        BY Zenon, <3>2, <4>1, <4>3 DEF Copied
      <4>5. SnapOK("idle", h)
        BY <2>a, <2>b, <3>2, <4>1, <4>4 DEF SnapOK
      <4> QED BY Zenon, <1>3, <4>1, <4>2, <4>5
    <3>4. /\ <<n % IntRange, n \div IntRange>> \in (Nat \cup {NULL}) \X (Nat \cup {NULL})
          /\ <<n % IntRange, NULL>> \in (Nat \cup {NULL}) \X (Nat \cup {NULL})
      <4>1. n \in Nat /\ IntRange \in Nat /\ IntRange > 0
        BY <2>a, LimitAssumption
      <4> HIDE DEF n
      <4>2. n % IntRange \in Nat /\ n \div IntRange \in Nat
        BY <4>1
      <4> QED BY <4>2
    <3>5. f.user \in (Nat \cup {NULL}) \X (Nat \cup {NULL})
      BY Zenon, <2>a DEF Frame
    <3> HIDE DEF n, g
    <3> QED BY Zenon, <3>1, <3>3, <3>4, <3>5
  <2> QED BY <2>1, <2>2, <2>3, <2>4
<1>7. CASE ProcessStep \/ UNCHANGED vars
  BY <1>1, <1>7 DEF vars, ProcessStep, ResizeMm
<1> QED BY Zenon, <1>4, <1>5, <1>6, <1>7 DEF Next

\* get reports one state of the list although others keep linking nodes while
\* it walks and copies, for any number of callers and nodes.
THEOREM GetReportsSnapshot == Spec => []GetIsSnapshot
<1>1. Init => SnapInv
  BY DEF Init, SnapInv, SnapOK, NoCall
<1> QED BY <1>1, SpecInv, SnapNext, SnapImplies, PTL DEF Spec

-----------------------------------------------------------------------------
(* One caller at a time: the list is the documented registry.              *)

OneCaller == \A c, d \in Caller : c = d

\* Without a race every node leads to the one linked before it.
Chained == \A i \in DOMAIN log : next[log[i]] = IF i = 1 THEN NULL ELSE log[i - 1]

Absent(p) == \A n \in Linked : entry[n].pid # p

\* What an add at pc k knows of the list: no node that its search has passed
\* holds its pid, and no node at all once the search is over.
AddOK(k, f) == f.op = "add" =>
  /\ k = "walk" => \E j \in 0..Len(log) : /\ f.cur = IF j = 0 THEN NULL ELSE log[j]
                                          /\ \A i \in (j + 1)..Len(log) : entry[log[i]].pid # f.pid
  /\ k \in {"alloc", "link", "publish"} => Absent(f.pid)
  /\ k \in LinkPcs => entry[f.node] = [pid |-> f.pid, limit |-> f.limit]
  /\ k = "publish" => f.first = head

RegInv == Chained /\ \A c \in Caller : AddOK(pc[c], frame[c])

LEMMA WalkReachesAll == ListInv /\ Chained => Reachable = Linked
<1> SUFFICES ASSUME ListInv, Chained PROVE Reachable = Linked
  OBVIOUS
<1> DEFINE L == Len(log)
<1>0. /\ log \in Seq(Node) /\ L \in Nat /\ DOMAIN log = 1..L /\ NULL \notin Node
      /\ Linked \subseteq Node /\ head \in Linked \cup {NULL}
      /\ \A n \in Linked : next[n] \in Linked \cup {NULL}
  BY LimitAssumption, LinkedType, LinkedClosed DEF ListInv, TypeOK
<1>1. Reachable \subseteq Linked
  BY <1>0 DEF Reachable
<1>2. ASSUME NEW S \in SUBSET Node, head \in S \cup {NULL}, \A m \in S : next[m] \in S \cup {NULL},
             NEW i \in 1..L, log[i] \notin S
      PROVE  FALSE
  <2> DEFINE T == {j \in Nat : j < L /\ log[L - j] \notin S}
  <2>1. T \subseteq Nat
    OBVIOUS
  <2>2. L - i \in T
    <3>1. L - i \in Nat /\ L - i < L /\ L - (L - i) = i
      BY <1>0
    <3> QED BY <1>2, <3>1
  <2>3. PICK m \in T : \A j \in T : ~ (<<j, m>> \in OpToRel(<, Nat))
    BY Zenon, <2>1, <2>2, NatLessThanWellFounded, WFMin
  <2>4. m \in Nat /\ m < L /\ log[L - m] \notin S /\ L - m \in 1..L /\ log[L - m] \in Node
    BY <1>0
  <2>5. CASE m = 0
    <3>1. head = log[L]
      BY <1>0, <2>4 DEF ListInv, ListOrder
    <3> QED BY <1>0, <1>2, <2>4, <2>5, <3>1
  <2>6. CASE m # 0
    <3>1. m - 1 \in Nat /\ m - 1 < L /\ m - 1 < m /\ L - (m - 1) \in 1..L /\ L - (m - 1) # 1
          /\ L - (m - 1) - 1 = L - m
      BY <1>0, <2>4, <2>6
    <3>2. m - 1 \notin T
      <4>1. <<m - 1, m>> \in OpToRel(<, Nat)
        BY <2>4, <3>1 DEF OpToRel
      <4> QED BY Zenon, <2>3, <4>1
    <3>3. log[L - (m - 1)] \in S
      BY <3>1, <3>2
    <3>4. next[log[L - (m - 1)]] = log[L - m]
      BY Zenon, <1>0, <3>1 DEF Chained
    <3>5. log[L - m] \in S \cup {NULL}
      BY <1>2, <3>3, <3>4
    <3> QED BY <1>0, <2>4, <3>5
  <2> QED BY <2>5, <2>6
<1>3. Linked \subseteq Reachable
  <2> SUFFICES ASSUME NEW n \in Linked PROVE n \in Reachable
    OBVIOUS
  <2>1. PICK i \in 1..L : n = log[i]
    BY <1>0 DEF Linked
  <2>2. n \in Node
    BY Zenon, <1>0
  <2> QED BY Zenon, <1>2, <2>1, <2>2 DEF Reachable
<1> QED BY <1>1, <1>3

\* A step of the caller that leaves the list alone.
LEMMA RegStep ==
  ASSUME OneCaller, ListInv, RegInv, NEW c \in Caller, NEW to, NEW g, Go(c, to, g), AddOK(to, g),
         UNCHANGED listVars
  PROVE  RegInv'
<1>1. Chained'
  BY Zenon DEF RegInv, Chained, listVars
<1>2. Linked' = Linked /\ log' = log /\ entry' = entry /\ head' = head
  BY Zenon DEF Linked, listVars
<1>3. AddOK(to, g)'
  <2>1. Absent(g.pid)' <=> Absent(g.pid)
    BY Zenon, <1>2 DEF Absent
  <2> QED BY Zenon, <1>2, <2>1 DEF AddOK
<1>4. \A d \in Caller : pc'[d] = to /\ frame'[d] = g
  BY DEF Go, OneCaller, ListInv, TypeOK
<1> QED BY Zenon, <1>1, <1>3, <1>4 DEF RegInv

LEMMA RegReturn ==
  ASSUME OneCaller, ListInv, RegInv, NEW c \in Caller, NEW f, NEW r, Return(c, f, r), UNCHANGED listVars
  PROVE  RegInv'
<1> DEFINE g == [NoCall EXCEPT !.op = f.op, !.pid = f.pid, !.ret = r]
<1>1. Go(c, "idle", g)
  BY DEF Return
<1> HIDE DEF g
<1>2. AddOK("idle", g)
  BY Zenon DEF AddOK, LinkPcs
<1> QED BY <1>1, <1>2, RegStep

LEMMA RegCall == ASSUME OneCaller, ListInv, RegInv, NEW c \in Caller, Call(c) PROVE RegInv'
<1>1. UNCHANGED listVars
  BY Zenon DEF Call, AddCall, GetCall, UpdateCall, RemoveCall
<1>2. \E f : \/ \E r : Return(c, f, r)
             \/ Go(c, "find", f) \/ Go(c, "head", f)
  <2>1. ASSUME NEW p, NEW l, NEW b, AddCall(c, p, l, b) \/ UpdateCall(c, p, l, b)
        PROVE \E f : (\E r : Return(c, f, r)) \/ Go(c, "find", f)
    BY <2>1 DEF AddCall, UpdateCall
  <2>2. ASSUME NEW p, NEW b, RemoveCall(c, p, b)
        PROVE \E f, r : Return(c, f, r)
    BY <2>2 DEF RemoveCall
  <2>3. ASSUME NEW m, NEW b, GetCall(c, m, b)
        PROVE \E f : (\E r : Return(c, f, r)) \/ Go(c, "head", f)
    BY <2>3 DEF GetCall
  <2> QED BY <2>1, <2>2, <2>3 DEF Call
<1>3. \A f : AddOK("find", f) /\ AddOK("head", f)
  BY Zenon DEF AddOK, LinkPcs
<1> QED BY <1>1, <1>2, <1>3, RegReturn, RegStep

\* The places at which an add knows nothing of the list.
LEMMA AddOKElsewhere ==
  ASSUME NEW k, NEW f, k \notin {"walk", "alloc", "link", "publish"} \/ f.op # "add" PROVE AddOK(k, f)
  BY Zenon DEF AddOK, LinkPcs

LEMMA RegWalk ==
  ASSUME OneCaller, ListInv, RegInv, NEW c \in Caller, ReadHead(c) \/ AddWalk(c) PROVE RegInv'
<1> DEFINE f == frame[c]
           L == Len(log)
<1>0. /\ f \in Frame /\ CallerOK(pc[c], f) /\ AddOK(pc[c], f) /\ UNCHANGED listVars
      /\ log \in Seq(Node) /\ L \in Nat /\ DOMAIN log = 1..L /\ NULL \notin Node
  BY LimitAssumption DEF ListInv, CallerOK, RegInv, TypeOK, ReadHead, AddWalk
<1>1. CASE ReadHead(c)
  <2> DEFINE g == [f EXCEPT !.cur = head, !.hd = head]
  <2>1. Go(c, "walk", g)
    BY <1>1 DEF ReadHead
  <2>2. g.cur = head
    BY <1>0 DEF Frame
  <2>3. head = IF L = 0 THEN NULL ELSE log[L]
    BY <1>0 DEF ListInv, ListOrder
  <2> HIDE DEF g
  <2>4. AddOK("walk", g)
    <3>1. L \in 0..L /\ (L + 1)..L = {}
      BY <1>0
    <3> QED BY Zenon, <2>2, <2>3, <3>1 DEF AddOK, LinkPcs
  <2> QED BY Zenon, <1>0, <2>1, <2>4, RegStep
<1>2. CASE AddWalk(c)
  <2> DEFINE a == Advance(f)
             e == [f EXCEPT !.ret = E_DUPLICATE]
  <2>1. /\ pc[c] = "walk" /\ f.op = "add"
        /\ \/ f.cur = NULL /\ Go(c, "alloc", f)
           \/ Go(c, "put", e)
           \/ f.cur # NULL /\ entry[f.cur].pid # f.pid /\ Go(c, "walk", a)
    BY <1>2 DEF AddWalk
  <2>2. PICK j \in 0..L : /\ f.cur = IF j = 0 THEN NULL ELSE log[j]
                          /\ \A i \in (j + 1)..L : entry[log[i]].pid # f.pid
    BY <1>0, <2>1 DEF AddOK
  <2> HIDE DEF f, L
  <2>3. CASE f.cur = NULL /\ Go(c, "alloc", f)
    <3>1. j = 0
      BY <1>0, <2>2, <2>3
    <3>2. Absent(f.pid)
      BY <1>0, <2>2, <3>1 DEF Absent, Linked
    <3>3. AddOK("alloc", f)
      BY Zenon, <3>2 DEF AddOK, LinkPcs
    <3> QED BY <1>0, <2>3, <3>3, RegStep
  <2>4. CASE Go(c, "put", e)
    BY <1>0, <2>4, AddOKElsewhere, RegStep
  <2>5. CASE f.cur # NULL /\ entry[f.cur].pid # f.pid /\ Go(c, "walk", a)
    <3>1. j \in 1..L /\ f.cur = log[j] /\ f.cur \in Node
      BY <1>0, <2>2, <2>5
    <3>2. next[f.cur] = (IF j = 1 THEN NULL ELSE log[j - 1]) /\ next[f.cur] \in NodeOrNull
      BY Zenon, <1>0, <3>1 DEF RegInv, Chained, ListInv, TypeOK
    <3>3. a.cur = next[f.cur] /\ a.pid = f.pid /\ a.op = f.op
      BY Zenon, <1>0, <3>1, <3>2, AdvanceType
    <3> HIDE DEF a
    <3>4. /\ j - 1 \in 0..L /\ (j = 1 <=> j - 1 = 0)
          /\ \A i \in (j - 1 + 1)..L : i = j \/ i \in (j + 1)..L
      BY <1>0, <3>1
    <3>5. \A i \in (j - 1 + 1)..L : entry[log[i]].pid # a.pid
      BY Zenon, <2>2, <2>5, <3>1, <3>3, <3>4
    <3>6. AddOK("walk", a)
      BY Zenon, <3>2, <3>3, <3>4, <3>5 DEF AddOK, LinkPcs, L
    <3> QED BY Zenon, <1>0, <2>5, <3>6, RegStep
  <2> QED BY <2>1, <2>3, <2>4, <2>5
<1> QED BY <1>1, <1>2

LEMMA RegKmalloc ==
  ASSUME OneCaller, ListInv, RegInv, NEW c \in Caller, Kmalloc(c) PROVE RegInv'
<1> DEFINE f == frame[c]
           e == [f EXCEPT !.ret = ENOMEM]
           h(n) == [f EXCEPT !.node = n]
           new == [pid |-> f.pid, limit |-> f.limit]
<1>0. /\ f \in Frame /\ pc[c] = "alloc" /\ f.op = "add" /\ Absent(f.pid) /\ UNCHANGED <<head, next, log>>
      /\ entry \in [Node -> Entry \cup {NULL}] /\ Linked \subseteq Node
      /\ \A n \in Linked : entry[n] # NULL
  <2>1. pc[c] = "alloc"
    BY DEF Kmalloc
  <2>2. f.op = "add" /\ f \in Frame
    BY Zenon, <2>1 DEF ListInv, CallerOK, AddPcs
  <2>3. NULL \notin Entry
    BY LimitAssumption DEF Entry
  <2>4. Absent(f.pid)
    BY Zenon, <2>1, <2>2 DEF RegInv, AddOK
  <2>5. UNCHANGED <<head, next, log>>
    BY DEF Kmalloc
  <2>6. \A n \in Linked : entry[n] # NULL
    BY Zenon, <2>3, LinkedClosed DEF ListInv
  <2> QED BY Zenon, <2>1, <2>2, <2>4, <2>5, <2>6, LinkedType DEF ListInv, TypeOK
<1>1. \/ Go(c, "put", e) /\ UNCHANGED entry
      \/ \E n \in Node : /\ entry[n] = NULL /\ entry' = [entry EXCEPT ![n] = new]
                         /\ Go(c, "link", h(n))
  BY Zenon DEF Kmalloc
<1>2. CASE Go(c, "put", e) /\ UNCHANGED entry
  <2> HIDE DEF e
  <2> QED BY <1>0, <1>2, AddOKElsewhere, RegStep DEF listVars
<1>3. ASSUME NEW n \in Node, entry[n] = NULL, entry' = [entry EXCEPT ![n] = new], Go(c, "link", h(n))
      PROVE  RegInv'
  <2>0. PICK g, p, l : g = h(n) /\ p = f.pid /\ l = f.limit
    BY Zenon
  <2>1. g.pid = p /\ g.limit = l /\ g.node = n
    BY <1>0, <2>0 DEF Frame
  <2>2. \A d \in Caller : pc'[d] = "link" /\ frame'[d] = g
    BY <1>3, <2>0 DEF Go, OneCaller, ListInv, TypeOK
  <2>3. Linked' = Linked /\ \A m \in Linked : entry'[m] = entry[m]
    BY <1>0, <1>3 DEF Linked
  <2>4. Absent(p)'
    BY <1>0, <2>0, <2>3 DEF Absent
  <2>5. entry'[n] = [pid |-> p, limit |-> l]
    BY <1>0, <1>3, <2>0
  <2>6. AddOK("link", g)'
    BY Zenon, <2>1, <2>4, <2>5 DEF AddOK
  <2>7. Chained'
    BY Zenon, <1>0 DEF RegInv, Chained
  <2> QED BY Zenon, <2>2, <2>6, <2>7 DEF RegInv
<1> HIDE DEF h
<1> QED BY <1>1, <1>2, <1>3

LEMMA RegListAdd ==
  ASSUME OneCaller, ListInv, RegInv, NEW c \in Caller, ListAddRead(c) \/ ListAddPublish(c)
  PROVE  RegInv'
<1> DEFINE f == frame[c]
           L == Len(log)
<1>0. f \in Frame /\ CallerOK(pc[c], f) /\ AddOK(pc[c], f)
  BY Zenon DEF ListInv, CallerOK, RegInv
<1>1. CASE ListAddRead(c)
  <2> DEFINE g == [f EXCEPT !.first = head]
  <2>1. Go(c, "publish", g) /\ UNCHANGED listVars /\ pc[c] = "link"
    BY <1>1 DEF ListAddRead
  <2>2. g.op = f.op /\ g.first = head /\ g.pid = f.pid /\ g.limit = f.limit /\ g.node = f.node
    BY <1>0 DEF Frame
  <2> HIDE DEF g
  <2>3. AddOK("publish", g)
    BY Zenon, <1>0, <2>1, <2>2 DEF AddOK, LinkPcs
  <2> QED BY <2>1, <2>3, RegStep
<1>2. CASE ListAddPublish(c)
  <2> DEFINE n == f.node
  <2>1. /\ pc[c] = "publish" /\ next' = [next EXCEPT ![n] = f.first] /\ log' = Append(log, n)
        /\ Go(c, "put", f)
    BY Zenon, <1>2 DEF ListAddPublish
  <2>2. f.op = "add" /\ n \in Node /\ n \notin Linked /\ f.first = head
    BY Zenon, <1>0, <2>1 DEF CallerOK, AddOK, LinkPcs, AddPcs
  <2>3. /\ log \in Seq(Node) /\ L \in Nat /\ DOMAIN log = 1..L /\ next \in [Node -> NodeOrNull]
        /\ head = IF L = 0 THEN NULL ELSE log[L]
    BY DEF ListInv, TypeOK, ListOrder
  <2> HIDE DEF n, L
  <2>4. /\ DOMAIN log' = 1..(L + 1) /\ log'[L + 1] = n
        /\ \A i \in 1..L : log'[i] = log[i] /\ log[i] \in Node /\ log[i] # n
    <3>1. DOMAIN log' = 1..(L + 1) /\ log'[L + 1] = n /\ \A i \in 1..L : log'[i] = log[i]
      BY <2>1, <2>2, <2>3 DEF L
    <3>2. \A i \in 1..L : log[i] \in Node /\ log[i] \in Linked
      BY <2>3 DEF Linked
    <3> QED BY Zenon, <2>2, <3>1, <3>2
  <2>5. \A m \in Node : next'[m] = IF m = n THEN head ELSE next[m]
    BY Zenon, <2>1, <2>2, <2>3
  <2>6. Chained'
    <3> SUFFICES ASSUME NEW i \in DOMAIN log'
                 PROVE  next'[log'[i]] = IF i = 1 THEN NULL ELSE log'[i - 1]
      BY Zenon DEF Chained
    <3>1. CASE i \in 1..L
      <4>1. i = 1 \/ i - 1 \in 1..L
        BY <2>3, <3>1
      <4>2. next[log[i]] = IF i = 1 THEN NULL ELSE log[i - 1]
        BY Zenon, <2>3, <3>1 DEF RegInv, Chained
      <4> QED BY <2>4, <2>5, <3>1, <4>1, <4>2
    <3>2. CASE i = L + 1
      <4>1. (i = 1 <=> L = 0) /\ i - 1 = L /\ (L # 0 => L \in 1..L)
        BY <2>3, <3>2
      <4> QED BY Zenon, <2>2, <2>3, <2>4, <2>5, <3>2, <4>1
    <3> QED BY <2>3, <2>4, <3>1, <3>2
  <2>7. \A d \in Caller : pc'[d] = "put" /\ frame'[d] = f
    BY <2>1 DEF Go, OneCaller, ListInv, TypeOK
  <2>8. AddOK("put", f)'
    BY Zenon DEF AddOK, LinkPcs
  <2> QED BY <2>6, <2>7, <2>8 DEF RegInv
<1> QED BY <1>1, <1>2

LEMMA RegNext == OneCaller /\ ListInv /\ RegInv /\ [Next]_vars => RegInv'
<1> SUFFICES ASSUME OneCaller, ListInv, RegInv, [Next]_vars PROVE RegInv'
  OBVIOUS
<1>1. CASE UNCHANGED <<listVars, pc, frame>>
  <2>1. Linked' = Linked
    BY <1>1 DEF Linked, listVars
  <2> QED BY Zenon, <1>1, <2>1 DEF RegInv, Chained, AddOK, Absent, listVars
<1>2. CASE ProcessStep \/ UNCHANGED vars
  BY <1>1, <1>2 DEF vars, ProcessStep, ResizeMm
<1>3. ASSUME NEW c \in Caller, Step(c) PROVE RegInv'
  <2>1. CASE ReadHead(c) \/ AddWalk(c) \/ Kmalloc(c) \/ ListAddRead(c) \/ ListAddPublish(c)
    BY <2>1, RegWalk, RegKmalloc, RegListAdd
  <2>2. ASSUME NEW u, CheckUsage(c, u) PROVE \E g : Go(c, "put", g) \/ Go(c, "head", g)
    BY <2>2 DEF CheckUsage
  <2>3. CASE FindVpid(c) \/ GetPidTask(c) \/ GetStalePid(c) \/ ReadMm(c) \/ ReadVm(c) \/ PutTask(c) \/ GetCount(c)
    <3>1. UNCHANGED listVars
      BY <2>3 DEF FindVpid, GetPidTask, GetStalePid, ReadMm, ReadVm, PutTask, GetCount
    <3>2. CASE FindVpid(c) \/ GetPidTask(c) \/ GetStalePid(c)
      <4>1. \E g : (\E r : Return(c, g, r)) \/ Go(c, "get", g) \/ Go(c, "mm", g) \/ Go(c, "oops", g)
        BY Zenon, <3>2 DEF FindVpid, GetPidTask, GetStalePid
      <4> QED BY <3>1, <4>1, AddOKElsewhere, RegReturn, RegStep
    <3>3. CASE ReadMm(c) \/ ReadVm(c)
      <4>1. (\E u : CheckUsage(c, u)) \/ \E g : Go(c, "vm", g) \/ Go(c, "oops", g)
        BY <3>3 DEF ReadMm, ReadVm
      <4> QED BY <2>2, <3>1, <4>1, AddOKElsewhere, RegStep
    <3>4. CASE PutTask(c) \/ GetCount(c)
      <4>1. \E g : (\E r : Return(c, g, r)) \/ Go(c, "idle", g)
        BY <3>4 DEF PutTask, GetCount
      <4> QED BY <3>1, <4>1, AddOKElsewhere, RegReturn, RegStep
    <3> QED BY <2>3, <3>2, <3>3, <3>4
  <2>4. CASE GetWalk(c)
    <3> DEFINE f == frame[c]
               h == [Advance(f) EXCEPT !.buf = Append(@, entry[f.cur])]
    <3>1. f \in Frame /\ f.op = "get" /\ UNCHANGED listVars
      BY <2>4 DEF ListInv, CallerOK, GetWalk
    <3>2. h.op = f.op
      BY <3>1 DEF Frame, Advance
    <3>3. Go(c, "walk", h) \/ \E g : Go(c, "count", g) \/ Go(c, "idle", g)
      BY <2>4 DEF GetWalk
    <3> HIDE DEF h
    <3>4. AddOK("walk", h)
      BY <3>1, <3>2, AddOKElsewhere
    <3> QED BY Zenon, <3>1, <3>3, <3>4, AddOKElsewhere, RegStep
  <2> QED BY <1>3, <2>1, <2>3, <2>4 DEF Step
<1> QED BY <1>2, <1>3, RegCall DEF Next

\* The step of the registry that a step of the calls is.
LEMMA RegistryStep ==
  ASSUME OneCaller, ListInv, RegInv, [Next]_vars, ListInv', RegInv'
  PROVE  [Registry!Next]_Listed
<1>1. Listed = {entry[n] : n \in Linked} /\ Listed' = {entry'[n] : n \in Linked'}
  <2>1. Reachable = Linked
    BY Zenon, WalkReachesAll DEF RegInv
  <2>2. Reachable' = Linked'
    <3>1. (ListInv /\ Chained => Reachable = Linked)'
      BY WalkReachesAll, PTL
    <3> QED BY <3>1 DEF RegInv
  <2> QED BY <2>1, <2>2 DEF Listed
<1>2. \A n \in Linked : entry'[n] = entry[n]
  BY LinkedFixed
<1>3. CASE Linked' = Linked
  BY <1>1, <1>2, <1>3
<1>4. ASSUME NEW c \in Caller, ListAddPublish(c) PROVE Registry!Next
  <2> DEFINE f == frame[c]
             e == [pid |-> f.pid, limit |-> f.limit]
  <2>1. /\ f.op = "add" /\ f.pid \in Pid /\ f.limit \in Limit /\ f.node \in Node
        /\ entry[f.node] = e /\ Absent(f.pid) /\ entry' = entry
    BY Zenon, <1>4 DEF ListInv, CallerOK, ListAddPublish, RegInv, AddOK, LinkPcs, AddPcs
  <2>2. Linked' = Linked \cup {f.node}
    <3>1. log \in Seq(Node) /\ log' = Append(log, f.node)
      BY Zenon, <1>4 DEF ListInv, TypeOK, ListAddPublish
    <3>2. /\ DOMAIN log' = DOMAIN log \cup {Len(log) + 1}
          /\ log'[Len(log) + 1] = f.node /\ \A i \in DOMAIN log : log'[i] = log[i]
      BY <2>1, <3>1
    <3> QED BY Zenon, <3>2 DEF Linked
  <2>3. Listed' = Listed \cup {e}
    BY Zenon, <1>1, <1>2, <2>1, <2>2
  <2>4. ~ Registry!Has(f.pid)
    BY Zenon, <1>1, <2>1 DEF Registry!Has, Absent
  <2>5. Registry!Add(f.pid, f.limit)
    BY <2>3, <2>4 DEF Registry!Add
  <2> QED BY Zenon, <2>1, <2>5 DEF Registry!Next
<1>5. CASE UNCHANGED log
  BY Zenon, <1>3, <1>5 DEF Linked
<1>6. CASE ProcessStep \/ UNCHANGED vars
  BY <1>5, <1>6 DEF ProcessStep, ResizeMm, vars, listVars
<1>7. ASSUME NEW c \in Caller, Call(c) PROVE UNCHANGED log
  BY Zenon, <1>7 DEF Call, AddCall, GetCall, UpdateCall, RemoveCall, listVars
<1>8. ASSUME NEW c \in Caller, Step(c), ~ ListAddPublish(c) PROVE UNCHANGED log
  BY Zenon, <1>8 DEF Step, FindVpid, GetPidTask, GetStalePid, ReadMm, ReadVm, ReadHead,
              AddWalk, Kmalloc, ListAddRead, PutTask, GetWalk, GetCount, listVars
<1> QED BY <1>4, <1>5, <1>6, <1>7, <1>8 DEF Next

\* With one caller the list is the registry of the documentation: a limit is
\* added once per pid and never lost, for any processes, nodes and limits.
THEOREM SerialImplementsRegistry == ASSUME OneCaller PROVE Spec => ImplementsRegistry
<1>1. Init => RegInv
  BY DEF Init, RegInv, Chained, AddOK, LinkPcs, NoCall
<1>2. Init => Registry!Init
  <2> SUFFICES ASSUME Init PROVE Listed = {}
    BY DEF Registry!Init
  <2>1. {} \in SUBSET Node /\ head = NULL
    BY DEF Init
  <2>2. Reachable = {}
    BY Zenon, <2>1 DEF Reachable
  <2> QED BY <2>2 DEF Listed
<1>3. Spec => []RegInv
  BY <1>1, SpecInv, RegNext, PTL DEF Spec
<1>4. ListInv /\ RegInv /\ [Next]_vars /\ ListInv' /\ RegInv' => [Registry!Next]_Listed
  BY RegistryStep
<1> QED BY <1>2, <1>3, <1>4, SpecInv, PTL DEF Spec, ImplementsRegistry, Registry!Spec

=============================================================================
