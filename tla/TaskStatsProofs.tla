--------------------------- MODULE TaskStatsProofs ---------------------------
(***************************************************************************)
(* Proofs about TaskStats, for any number of callers and tasks.            *)
(***************************************************************************)
EXTENDS TaskStats, TLAPS, FiniteSetTheorems, WellFoundedInduction

\* The time that a leaf may take.
USE SMTT(20), ZenonT(20)

TaskPcs == {"zombie", "getmm", "vm", "rss", "oom", "put", "next"}
MmPcs == {"vm", "rss", "oom", "put"}

\* What the local variables of a caller at pc k satisfy.
CallerOK(k, f) ==
  /\ k \in Pcs /\ f \in Frame
  /\ k # "idle" => f.op \in {"stats", "tamalloc"}
  /\ k \in {"find", "zombie", "next"} => f.op = "tamalloc"
  /\ k = "oom" => f.op = "stats"
  /\ k = "find" => f.task = NULL
  /\ k \in TaskPcs => f.task \in Task
  /\ f.mm # NULL <=> k \in MmPcs

\* Where a task stands, as the other tables show it.
LifeOK ==
  /\ \A t \in Task : mm[t] # NULL => life[t] = "run"
  /\ \A t \in listed : life[t] \in {"run", "zombie"}
  /\ \A t \in freed : life[t] = "dead"
  /\ \A p \in Pid : pid_task[p] # NULL => life[pid_task[p]] \in {"run", "zombie"}
  /\ \A t \in Task : waits[t] # {} => life[t] = "dead"
  /\ \A t \in Task : gone_next[t] # NULL => life[t] = "dead" /\ life[gone_next[t]] # "new"

\* Caller c may use t until its read-side section ends.
Safe(c, t) == /\ t \notin freed /\ life[t] # "new"
              /\ life[t] = "dead" => c \in waits[t]

\* The task under a caller's cursor is safe, and so is the one its next pointer
\* leads to, along any chain of entries unlinked during the section.
RcuOK ==
  /\ \A t \in Task : waits[t] \subseteq InSection
  /\ \A c \in InSection : frame[c].task # NULL => Safe(c, frame[c].task)
  /\ \A t \in Task : \A c \in waits[t] : gone_next[t] # NULL => Safe(c, gone_next[t])

\* The inductive invariant behind TypeOK and TaskNotFreed.
RcuInv == /\ TypeOK
          /\ \A c \in Caller : CallerOK(pc[c], frame[c])
          /\ LifeOK
          /\ RcuOK

LEMMA NoCallType == NoCall \in Frame
BY DEF NoCall, Frame

\* Among processes of which some are listed there is an oldest.
LEMMA OldestExists ==
  ASSUME TypeOK, NEW S \in SUBSET Task, S # {}
  PROVE  \E t \in S : \A u \in S : born[t] <= born[u]
<1> DEFINE B == {born[t] : t \in S}
<1>1. B \subseteq Nat /\ B # {}
  BY DEF TypeOK
<1>2. \E x \in B : \A y \in B : ~ (<<y, x>> \in OpToRel(<, Nat))
  <2> HIDE DEF B
  <2> QED
    BY Zenon, <1>1, NatLessThanWellFounded, WFMin
<1>3. PICK x \in B : \A y \in B : ~ (y < x)
  BY Zenon, <1>1, <1>2 DEF OpToRel
<1>4. PICK t \in S : born[t] = x
  BY <1>3
<1>5. \A u \in S : born[u] \in Nat /\ born[t] \in Nat /\ ~ (born[u] < born[t])
  BY <1>3, <1>4 DEF TypeOK
<1> QED
  BY <1>5

LEMMA OldestProp ==
  ASSUME TypeOK, NEW S \in SUBSET Task
  PROVE  /\ S = {} => Oldest(S) = NULL
         /\ S # {} => Oldest(S) \in S /\ \A u \in S : born[Oldest(S)] <= born[u]
BY OldestExists DEF Oldest

\* The walk only ever moves on to a task the caller may use.
LEMMA NextSafe ==
  ASSUME RcuInv, NEW c \in InSection, NEW t \in Task, Safe(c, t), NextTask(t) # NULL
  PROVE  NextTask(t) \in Task /\ Safe(c, NextTask(t))
<1>1. CASE t \in listed
  <2> DEFINE S == {u \in listed : born[u] > born[t]}
  <2>1. NextTask(t) = Oldest(S) /\ S \in SUBSET Task
    BY <1>1 DEF NextTask, RcuInv, TypeOK
  <2>2. Oldest(S) \in S
    <3> HIDE DEF S
    <3> QED BY <2>1, OldestProp DEF RcuInv
  <2> QED
    BY <2>1, <2>2 DEF RcuInv, LifeOK, Safe, TypeOK
<1>2. CASE t \notin listed
  BY <1>2 DEF NextTask, RcuInv, RcuOK, LifeOK, Safe, TypeOK
<1> QED
  BY <1>1, <1>2

\* A caller that stays in its section, or enters it, and leaves the tables of
\* tasks and of RCU alone.
LEMMA LocalStep ==
  ASSUME RcuInv, NEW c \in Caller, NEW to, NEW f, Go(c, to, f), CallerOK(to, f),
         to # "idle", f.task # NULL => Safe(c, f.task),
         UNCHANGED <<pid_task, life, mm>>, UNCHANGED sizeVars, UNCHANGED listVars,
         UNCHANGED rcuVars,
         mm_users' \in [Task -> Int], stay' \in [Caller -> SUBSET Task]
  PROVE  RcuInv'
<1> USE DEF RcuInv
<1>1. pc' \in [Caller -> Pcs] /\ frame' \in [Caller -> Frame]
  BY DEF Go, CallerOK, TypeOK
<1>2. TypeOK'
  BY <1>1 DEF TypeOK, TaskTypeOK, sizeVars, listVars, rcuVars
<1>3. \A d \in Caller : pc'[d] = (IF d = c THEN to ELSE pc[d])
                        /\ frame'[d] = IF d = c THEN f ELSE frame[d]
  BY DEF Go, TypeOK
<1>4. \A d \in Caller : CallerOK(pc[d], frame[d])'
  BY <1>3 DEF CallerOK
<1>5. LifeOK'
  BY DEF LifeOK, listVars, rcuVars
<1>6. \A d, t : Safe(d, t)' <=> Safe(d, t)
  BY DEF Safe, rcuVars
<1>7. InSection' = InSection \cup {c}
  BY <1>3 DEF InSection
<1>8. RcuOK'
  <2>1. \A t \in Task : waits'[t] \subseteq InSection'
    BY <1>7 DEF RcuOK, rcuVars
  <2>2. \A d \in InSection' : frame'[d].task # NULL => Safe(d, frame[d].task)'
    BY <1>3, <1>6, <1>7 DEF RcuOK, InSection
  <2>3. \A t \in Task : \A d \in waits'[t] : gone_next'[t] # NULL => Safe(d, gone_next[t])'
    BY <1>6 DEF RcuOK, rcuVars, listVars
  <2> QED
    BY <2>1, <2>2, <2>3 DEF RcuOK
<1> QED
  BY <1>2, <1>4, <1>5, <1>8

\* A caller that leaves its section.
LEMMA ReturnStep ==
  ASSUME RcuInv, NEW c \in Caller, NEW f, NEW r \in {0, ESRCH, EFAULT, EINVAL},
         Return(c, f, r), f.op \in {"stats", "tamalloc"}, RcuUnlock(c),
         UNCHANGED taskVars, UNCHANGED sizeVars, UNCHANGED listVars, UNCHANGED freed,
         UNCHANGED stay
  PROVE  RcuInv'
<1> USE DEF RcuInv
<1> DEFINE g == [NoCall EXCEPT !.op = f.op, !.ret = r]
<1>1. g \in Frame /\ g.task = NULL /\ g.mm = NULL
  BY Zenon, NoCallType DEF Frame, NoCall
<1>2. Go(c, "idle", g)
  BY DEF Return
<1>3. CallerOK("idle", g)
  BY <1>1 DEF CallerOK, Pcs, MmPcs, TaskPcs
<1> HIDE DEF g
<1>4. pc' \in [Caller -> Pcs] /\ frame' \in [Caller -> Frame]
  BY <1>1, <1>2, <1>3 DEF Go, TypeOK, CallerOK
<1>5. waits' \in [Task -> SUBSET Caller] /\ \A t \in Task : waits'[t] = waits[t] \ {c}
  BY DEF RcuUnlock, TypeOK
<1>6. TypeOK'
  BY <1>4, <1>5 DEF TypeOK, TaskTypeOK, taskVars, sizeVars, listVars
<1>7. \A d \in Caller : pc'[d] = (IF d = c THEN "idle" ELSE pc[d])
                        /\ frame'[d] = IF d = c THEN g ELSE frame[d]
  BY <1>2 DEF Go, TypeOK
<1>8. \A d \in Caller : CallerOK(pc[d], frame[d])'
  BY <1>3, <1>7 DEF CallerOK
<1>9. LifeOK'
  BY <1>5 DEF LifeOK, taskVars, listVars
<1>10. InSection' = InSection \ {c}
  BY <1>7 DEF InSection
<1>11. \A d \in InSection', t \in Task : Safe(d, t) => Safe(d, t)'
  BY <1>5, <1>10 DEF Safe, taskVars
<1>12. RcuOK'
  <2>1. \A t \in Task : waits'[t] \subseteq InSection'
    BY <1>5, <1>10 DEF RcuOK
  <2>2. \A d \in InSection' : frame'[d].task # NULL => Safe(d, frame[d].task)'
    <3> TAKE d \in InSection'
    <3>1. d # c /\ d \in InSection /\ d \in Caller
      BY <1>10 DEF InSection
    <3>2. frame'[d] = frame[d] /\ frame[d] \in Frame
      BY <3>1, <1>7 DEF TypeOK
    <3>3. frame[d].task \in Task \cup {NULL}
      BY <3>2 DEF Frame
    <3> QED
      BY <3>1, <3>2, <3>3, <1>11 DEF RcuOK
  <2>3. \A t \in Task : \A d \in waits'[t] : gone_next'[t] # NULL => Safe(d, gone_next[t])'
    BY <1>5, <1>11, <2>1 DEF RcuOK, listVars, TypeOK
  <2> QED
    BY <2>1, <2>2, <2>3 DEF RcuOK
<1> QED
  BY <1>6, <1>8, <1>9, <1>12

-----------------------------------------------------------------------------
\* The cursor moves to t, or the walk ends.
LEMMA VisitInv ==
  ASSUME RcuInv, NEW c \in Caller, NEW t, VisitTask(c, t),
         pc[c] \in {"find", "next"}, t # NULL => t \in Task /\ Safe(c, t),
         UNCHANGED taskVars, UNCHANGED sizeVars, UNCHANGED listVars, UNCHANGED rcuVars,
         UNCHANGED stay
  PROVE  RcuInv'
<1> DEFINE k == IF t = NULL THEN "unlock" ELSE "zombie"
           g == [frame[c] EXCEPT !.task = t]
<1>1. frame[c] \in Frame /\ frame[c].op = "tamalloc" /\ frame[c].mm = NULL
  BY DEF RcuInv, CallerOK, MmPcs
<1>2. g \in Frame /\ g.op = "tamalloc" /\ g.mm = NULL /\ g.task = t
  BY <1>1 DEF Frame
<1>3. Go(c, k, g) /\ k # "idle"
  BY DEF VisitTask
<1>4. CallerOK(k, g)
  <2> HIDE DEF g
  <2> QED
    BY <1>2 DEF CallerOK, Pcs, TaskPcs, MmPcs
<1>5. /\ mm_users' \in [Task -> Int] /\ stay' \in [Caller -> SUBSET Task]
      /\ UNCHANGED <<pid_task, life, mm>>
  BY DEF RcuInv, TypeOK, TaskTypeOK, taskVars
<1> HIDE DEF g, k
<1> QED
  BY <1>2, <1>3, <1>4, <1>5, LocalStep

LEMMA StepInv == ASSUME RcuInv, NEW c \in Caller, Step(c) PROVE RcuInv'
<1> DEFINE f == frame[c]
<1>a. /\ TypeOK /\ CallerOK(pc[c], f) /\ f \in Frame
      /\ f.task # NULL /\ pc[c] # "idle" => Safe(c, f.task)
  BY DEF RcuInv, CallerOK, RcuOK, InSection
<1>b. mm_users \in [Task -> Int] /\ stay \in [Caller -> SUBSET Task]
  BY <1>a DEF TypeOK, TaskTypeOK
<1> HIDE DEF f
<1>1. CASE WalkFirst(c)
  <2>1. Oldest(listed) # NULL => Oldest(listed) \in Task /\ Safe(c, Oldest(listed))
    <3>1. listed \in SUBSET Task
      BY <1>a DEF TypeOK
    <3>2. Oldest(listed) # NULL => Oldest(listed) \in listed
      BY <1>a, <3>1, OldestProp
    <3> QED
      BY <3>1, <3>2 DEF RcuInv, LifeOK, Safe
  <2> QED
    BY <1>1, <2>1, VisitInv DEF WalkFirst
<1>2. CASE WalkNext(c)
  <2>1. f.task \in Task /\ f.task # NULL /\ c \in InSection
    BY <1>2, <1>a, TaskAssumption DEF WalkNext, CallerOK, TaskPcs, InSection
  <2>2. NextTask(f.task) # NULL => NextTask(f.task) \in Task /\ Safe(c, NextTask(f.task))
    BY <1>2, <2>1, <1>a, NextSafe DEF WalkNext
  <2> QED
    BY <1>2, <2>2, VisitInv DEF WalkNext, f
<1>3. CASE CheckZombie(c)
  <2> DEFINE k == IF life[f.task] = "zombie" THEN "next" ELSE "getmm"
  <2>1. pc[c] = "zombie" /\ Go(c, k, f) /\ UNCHANGED <<taskVars, sizeVars, listVars, rcuVars, stay>>
    BY <1>3 DEF CheckZombie, f
  <2>2. CallerOK(k, f)
    BY <1>a, <2>1 DEF CallerOK, Pcs, TaskPcs, MmPcs
  <2>3. k # "idle"
    OBVIOUS
  <2> HIDE DEF k
  <2> QED
    BY <1>a, <1>b, <2>1, <2>2, <2>3, LocalStep DEF taskVars
<1>4. CASE GetTaskMm(c)
  <2>0. pc[c] = "getmm" /\ f.task \in Task /\ f.op \in {"stats", "tamalloc"}
    BY <1>4, <1>a DEF GetTaskMm, CallerOK, TaskPcs
  <2>u. UNCHANGED <<pid_task, life, mm, sizeVars, listVars, freed, stay>>
    BY <1>4 DEF GetTaskMm
  <2>1. CASE mm[f.task] # NULL
    <3> DEFINE m == mm[f.task]
               g == [f EXCEPT !.mm = m]
    <3>1. m \in Task
      BY <1>a, <2>0, <2>1 DEF TypeOK, TaskTypeOK
    <3>2. /\ mm_users' = [mm_users EXCEPT ![m] = @ + 1] /\ Go(c, "vm", g) /\ UNCHANGED waits
      BY <1>4, <2>1 DEF GetTaskMm, f
    <3>3. g \in Frame /\ g.task = f.task /\ g.op = f.op /\ g.mm = m
      BY <1>a, <3>1 DEF Frame
    <3>4. mm_users' \in [Task -> Int]
      BY <1>b, <3>1, <3>2
    <3>5. m # NULL
      BY <2>1
    <3> HIDE DEF g, m
    <3>6. CallerOK("vm", g)
      BY <2>0, <3>3, <3>5 DEF CallerOK, Pcs, TaskPcs, MmPcs
    <3> QED
      BY <1>a, <1>b, <2>0, <2>u, <3>2, <3>3, <3>4, <3>6, LocalStep DEF rcuVars
  <2>2. CASE mm[f.task] = NULL /\ f.op = "tamalloc"
    <3>1. Go(c, "next", f) /\ UNCHANGED <<mm_users, waits>>
      BY <1>4, <2>2 DEF GetTaskMm, f
    <3>2. CallerOK("next", f)
      BY <1>a, <2>0, <2>2 DEF CallerOK, Pcs, TaskPcs, MmPcs
    <3> QED
      BY <1>a, <1>b, <2>0, <2>u, <3>1, <3>2, LocalStep DEF rcuVars
  <2>3. CASE mm[f.task] = NULL /\ f.op = "stats"
    <3>1. RcuUnlock(c) /\ Return(c, f, EINVAL) /\ UNCHANGED mm_users
      BY <1>4, <2>3 DEF GetTaskMm, f
    <3> QED
      BY <2>0, <2>u, <3>1, ReturnStep DEF taskVars
  <2> QED
    BY <2>0, <2>1, <2>2, <2>3
<1>5. CASE ReadVm(c)
  <2> DEFINE v == f.vm + Convert(f, total_vm[f.mm])
             g == [f EXCEPT !.vm = v]
  <2>1. /\ pc[c] = "vm" /\ Go(c, "rss", g)
        /\ UNCHANGED <<taskVars, sizeVars, listVars, rcuVars, stay>>
    BY <1>5 DEF ReadVm, f
  <2>2. v \in Nat
    <3>1. f.mm \in Task /\ f.vm \in Nat
      BY <1>a, <2>1 DEF CallerOK, MmPcs, Frame
    <3>2. total_vm[f.mm] \in Nat
      BY <1>a, <3>1 DEF TypeOK
    <3> QED
      BY <3>1, <3>2, StatsAssumption DEF Convert
  <2>3. g \in Frame /\ g.task = f.task /\ g.op = f.op /\ g.mm = f.mm
    <3> HIDE DEF v
    <3> QED BY <1>a, <2>2 DEF Frame
  <2> HIDE DEF g
  <2>4. CallerOK("rss", g)
    BY <1>a, <2>1, <2>3 DEF CallerOK, Pcs, TaskPcs, MmPcs
  <2> QED
    BY <1>a, <1>b, <2>1, <2>3, <2>4, LocalStep DEF taskVars
<1>6. CASE ReadRss(c)
  <2> DEFINE r == f.rss + Convert(f, rss[f.mm])
             q == IF f.vm > 0 THEN (r * 100) \div f.vm ELSE 0
             g == [f EXCEPT !.rss = r, !.percent = q]
             h == [f EXCEPT !.rss = r, !.seen = Append(@, f.task)]
  <2>1. /\ pc[c] = "rss" /\ UNCHANGED <<taskVars, sizeVars, listVars, rcuVars, stay>>
        /\ IF f.op = "stats" THEN Go(c, "oom", g) ELSE Go(c, "put", h)
    BY <1>6 DEF ReadRss, f
  <2>2. r \in Nat /\ f.task \in Task
    <3>1. f.mm \in Task /\ f.rss \in Nat /\ f.task \in Task
      BY <1>a, <2>1 DEF CallerOK, MmPcs, TaskPcs, Frame
    <3>2. rss[f.mm] \in Nat
      BY <1>a, <3>1 DEF TypeOK
    <3> QED
      BY <3>1, <3>2, StatsAssumption DEF Convert
  <2>3. q \in Nat
    <3>1. f.vm \in Nat
      BY <1>a DEF Frame
    <3> HIDE DEF r
    <3> QED
      BY <3>1, <2>2
  <2>4. g \in Frame /\ g.task = f.task /\ g.op = f.op /\ g.mm = f.mm
    <3> HIDE DEF r, q
    <3> QED BY Zenon, <1>a, <2>2, <2>3 DEF Frame
  <2>5. h \in Frame /\ h.task = f.task /\ h.op = f.op /\ h.mm = f.mm
    <3>1. Append(f.seen, f.task) \in Seq(Task)
      BY <1>a, <2>2 DEF Frame
    <3> HIDE DEF r, q
    <3> QED BY Zenon, <1>a, <2>2, <2>3, <3>1 DEF Frame
  <2> HIDE DEF g, h, r, q
  <2>6. CASE f.op = "stats"
    <3>1. CallerOK("oom", g)
      BY <1>a, <2>1, <2>4, <2>6 DEF CallerOK, Pcs, TaskPcs, MmPcs
    <3> QED
      BY <1>a, <1>b, <2>1, <2>4, <2>6, <3>1, LocalStep DEF taskVars
  <2>7. CASE f.op # "stats"
    <3>1. CallerOK("put", h)
      BY <1>a, <2>1, <2>5 DEF CallerOK, Pcs, TaskPcs, MmPcs
    <3> QED
      BY <1>a, <1>b, <2>1, <2>5, <2>7, <3>1, LocalStep DEF taskVars
  <2> QED
    BY <2>6, <2>7
<1>7. CASE ReadOom(c)
  <2> DEFINE g == [f EXCEPT !.oom = GroupLeader[f.task]]
  <2>1. /\ pc[c] = "oom" /\ Go(c, "put", g)
        /\ UNCHANGED <<taskVars, sizeVars, listVars, rcuVars, stay>>
    BY <1>7 DEF ReadOom, f
  <2>2. GroupLeader[f.task] \in Task
    BY <1>a, <2>1, TaskAssumption DEF CallerOK, TaskPcs
  <2>3. g \in Frame /\ g.task = f.task /\ g.op = f.op /\ g.mm = f.mm
    BY <1>a, <2>2 DEF Frame
  <2> HIDE DEF g
  <2>4. CallerOK("put", g)
    BY <1>a, <2>1, <2>3 DEF CallerOK, Pcs, TaskPcs, MmPcs
  <2> QED
    BY <1>a, <1>b, <2>1, <2>3, <2>4, LocalStep DEF taskVars
<1>8. CASE Mmput(c)
  <2> DEFINE k == IF f.op = "stats" THEN "unlock" ELSE "next"
             g == [f EXCEPT !.mm = NULL]
  <2>1. /\ pc[c] = "put" /\ Go(c, k, g) /\ mm_users' = [mm_users EXCEPT ![f.mm] = @ - 1]
        /\ UNCHANGED <<pid_task, life, mm, sizeVars, listVars, rcuVars, stay>>
    BY <1>8 DEF Mmput, f
  <2>2. g \in Frame /\ g.task = f.task /\ g.op = f.op /\ g.mm = NULL
    BY <1>a DEF Frame
  <2>3. mm_users' \in [Task -> Int]
    <3>1. f.mm \in Task
      BY <1>a, <2>1 DEF CallerOK, MmPcs, Frame
    <3> QED BY <1>b, <2>1, <3>1
  <2>4. k # "idle" /\ k \notin MmPcs /\ k \in Pcs /\ (k = "next" <=> f.op # "stats") /\ k \in {"unlock", "next"}
    BY DEF MmPcs, Pcs
  <2> HIDE DEF g, k
  <2>5. CallerOK(k, g)
    BY <1>a, <2>1, <2>2, <2>4 DEF CallerOK, TaskPcs, MmPcs
  <2> QED
    BY <1>a, <1>b, <2>1, <2>2, <2>3, <2>4, <2>5, LocalStep
<1>9. CASE Finish(c)
  <2>1. f.op \in {"stats", "tamalloc"}
    BY <1>a, <1>9 DEF Finish, CallerOK
  <2> QED
    BY <1>9, <2>1, ReturnStep DEF Finish, f
<1> QED
  BY <1>1, <1>2, <1>3, <1>4, <1>5, <1>6, <1>7, <1>8, <1>9 DEF Step

LEMMA CallInv == ASSUME RcuInv, NEW c \in Caller, Call(c) PROVE RcuInv'
<1>a. /\ TypeOK /\ mm_users \in [Task -> Int] /\ stay \in [Caller -> SUBSET Task]
      /\ pid_task \in [Pid -> Task \cup {NULL}] /\ listed \subseteq Task
  BY DEF RcuInv, TypeOK, TaskTypeOK
<1>1. CASE TamallocCall(c)
  <2> DEFINE g == [NoCall EXCEPT !.op = "tamalloc"]
  <2>1. g \in Frame /\ g.op = "tamalloc" /\ g.task = NULL /\ g.mm = NULL
    BY Zenon, NoCallType DEF Frame, NoCall
  <2>2. /\ Go(c, "find", g) /\ stay' = [stay EXCEPT ![c] = {t \in listed : mm[t] # NULL}]
        /\ UNCHANGED <<taskVars, sizeVars, listVars, rcuVars>>
    BY <1>1 DEF TamallocCall
  <2> HIDE DEF g
  <2>3. CallerOK("find", g)
    BY <2>1 DEF CallerOK, Pcs, TaskPcs, MmPcs
  <2>4. stay' \in [Caller -> SUBSET Task]
    BY <1>a, <2>2
  <2> QED
    BY <1>a, <2>1, <2>2, <2>3, <2>4, LocalStep DEF taskVars
<1>2. ASSUME NEW p \in Pid, StatsCall(c, p) PROVE RcuInv'
  <2> DEFINE t == pid_task[p]
             g == [NoCall EXCEPT !.op = "stats", !.task = t]
  <2>0. t \in Task \cup {NULL}
    BY <1>a
  <2>1. g \in Frame /\ g.op = "stats" /\ g.task = t /\ g.mm = NULL
    BY Zenon, <2>0, NoCallType DEF Frame, NoCall
  <2>2. /\ pc[c] = "idle" /\ UNCHANGED <<taskVars, sizeVars, listVars, rcuVars, stay>>
        /\ IF t = NULL THEN Return(c, g, ESRCH) ELSE Go(c, "getmm", g)
    BY <1>2 DEF StatsCall
  <2>3. CASE t = NULL
    <3>1. RcuUnlock(c)
      <4>1. \A u \in Task : c \notin waits[u]
        BY <2>2 DEF RcuInv, RcuOK, InSection
      <4>2. waits' = waits /\ waits = [u \in Task |-> waits[u]]
        BY <2>2, <1>a DEF rcuVars, TypeOK
      <4> QED
        BY <4>1, <4>2 DEF RcuUnlock
    <3> HIDE DEF g
    <3> QED
      BY <2>1, <2>2, <2>3, <3>1, ReturnStep DEF rcuVars
  <2>4. CASE t # NULL
    <3>1. Safe(c, t)
      BY <2>0, <2>4 DEF RcuInv, LifeOK, Safe
    <3> HIDE DEF g, t
    <3>2. CallerOK("getmm", g)
      BY <2>0, <2>1, <2>4 DEF CallerOK, Pcs, TaskPcs, MmPcs
    <3> QED
      BY <1>a, <2>1, <2>2, <2>4, <3>1, <3>2, LocalStep DEF taskVars
  <2> QED
    BY <2>3, <2>4
<1> QED
  BY <1>1, <1>2 DEF Call

\* Steps of the processes keep every caller where it is.
LEMMA ProcessCallers ==
  ASSUME RcuInv, UNCHANGED <<pc, frame>>
  PROVE  /\ \A c \in Caller : CallerOK(pc[c], frame[c])'
         /\ InSection' = InSection
BY DEF RcuInv, CallerOK, InSection

LEMMA ProcessInv == ASSUME RcuInv, ProcessStep PROVE RcuInv'
<1> USE DEF RcuInv
<1>a. /\ pid_task \in [Pid -> Task \cup {NULL}] /\ life \in [Task -> {"new", "run", "zombie", "dead"}]
      /\ mm \in [Task -> Task \cup {NULL}] /\ mm_users \in [Task -> Int]
      /\ listed \subseteq Task /\ freed \subseteq Task
      /\ gone_next \in [Task -> Task \cup {NULL}] /\ waits \in [Task -> SUBSET Caller]
  BY DEF TypeOK, TaskTypeOK
<1>b. NULL \notin Task
  BY TaskAssumption
<1>1. ASSUME NEW t \in Task, NEW p \in Pid, NEW m \in MmChoices(t), NewTask(t, p, m)
      PROVE  RcuInv'
  <2>1. m \in Task \cup {NULL}
    BY <1>a DEF MmChoices
  <2>2. /\ life[t] = "new" /\ life' = [life EXCEPT ![t] = "run"]
        /\ pid_task' = [pid_task EXCEPT ![p] = t] /\ mm' = [mm EXCEPT ![t] = m]
        /\ mm_users' = IF m = NULL THEN mm_users ELSE [mm_users EXCEPT ![m] = @ + 1]
    BY <1>1 DEF NewTask, Clone
  <2>3. /\ UNCHANGED <<gone_next, freed, waits, stay, pc, frame>>
        /\ listed' \in {listed, listed \cup {t}}
    BY <1>1 DEF NewTask, rcuVars
  <2>4. total_vm' \in [Task -> Nat] /\ rss' \in [Task -> Nat]
    <3>1. Pages \subseteq Nat
      BY StatsAssumption
    <3> QED
      BY <1>1, <3>1 DEF NewTask, TypeOK, sizeVars
  <2>5. born' \in [Task -> Nat] /\ clock' \in Nat
    BY <1>1 DEF NewTask, TypeOK
  <2>6. TypeOK'
    <3>1. mm_users' \in [Task -> Int]
      BY <1>a, <2>1, <2>2
    <3> QED
      BY Zenon, <1>a, <2>1, <2>2, <2>3, <2>4, <2>5, <3>1 DEF TypeOK, TaskTypeOK
  <2>7. LifeOK'
    <3>1. /\ \A u \in Task : life'[u] = (IF u = t THEN "run" ELSE life[u])
                             /\ mm'[u] = (IF u = t THEN m ELSE mm[u])
          /\ \A q \in Pid : pid_task'[q] = IF q = p THEN t ELSE pid_task[q]
      BY <1>a, <2>2
    <3>2. /\ \A u \in Task : mm'[u] # NULL => life'[u] = "run"
          /\ \A u \in listed' : life'[u] \in {"run", "zombie"}
      BY <1>a, <2>3, <3>1 DEF LifeOK
    <3>3. /\ \A u \in freed' : life'[u] = "dead"
          /\ \A u \in Task : waits'[u] # {} => life'[u] = "dead"
      BY <1>a, <2>2, <2>3, <3>1 DEF LifeOK
    <3>4. \A q \in Pid : pid_task'[q] # NULL => life'[pid_task'[q]] \in {"run", "zombie"}
      BY <1>a, <3>1 DEF LifeOK
    <3>5. \A u \in Task : gone_next'[u] # NULL => life'[u] = "dead" /\ life'[gone_next'[u]] # "new"
      BY <1>a, <2>2, <2>3, <3>1 DEF LifeOK
    <3> QED
      BY <3>2, <3>3, <3>4, <3>5 DEF LifeOK
  <2>8. RcuOK'
    <3>1. \A c, u : Safe(c, u) /\ u \in Task => Safe(c, u)'
      BY <1>a, <2>2, <2>3 DEF Safe
    <3>2. \A c \in Caller : frame[c].task \in Task \cup {NULL}
      BY DEF TypeOK, Frame
    <3> QED
      BY Zenon, <1>a, <2>3, <3>1, <3>2, ProcessCallers DEF RcuOK, InSection
  <2> QED
    BY <2>3, <2>6, <2>7, <2>8, ProcessCallers
<1>2. ASSUME NEW t \in Task, ExitTask(t) PROVE RcuInv'
  <2>1. /\ life[t] = "run" /\ life' = [life EXCEPT ![t] = "zombie"]
        /\ mm' = [mm EXCEPT ![t] = NULL] /\ UNCHANGED pid_task
        /\ mm_users' = IF mm[t] = NULL THEN mm_users ELSE [mm_users EXCEPT ![mm[t]] = @ - 1]
        /\ stay' = [c \in Caller |-> stay[c] \ {t}]
        /\ UNCHANGED <<sizeVars, listVars, rcuVars, pc, frame>>
    BY <1>2 DEF ExitTask, Exit
  <2>2. mm_users' \in [Task -> Int]
    BY <1>a, <2>1
  <2>3. TypeOK'
    BY <1>a, <2>1, <2>2 DEF TypeOK, TaskTypeOK, sizeVars, listVars, rcuVars
  <2>4. LifeOK'
    BY <1>a, <2>1 DEF LifeOK, listVars, rcuVars
  <2>5. RcuOK'
    <3>1. \A c, u : Safe(c, u) /\ u \in Task => Safe(c, u)'
      BY <1>a, <2>1 DEF Safe, rcuVars
    <3>2. \A c \in Caller : frame[c].task \in Task \cup {NULL}
      BY DEF TypeOK, Frame
    <3> QED
      BY Zenon, <1>a, <2>1, <3>1, <3>2, ProcessCallers DEF RcuOK, InSection, rcuVars, listVars
  <2> QED
    BY <2>1, <2>3, <2>4, <2>5, ProcessCallers
<1>3. ASSUME NEW t \in Task, ReleaseTask(t) PROVE RcuInv'
  <2>1. /\ life[t] = "zombie" /\ life' = [life EXCEPT ![t] = "dead"]
        /\ pid_task' = [p \in Pid |-> IF pid_task[p] = t THEN NULL ELSE pid_task[p]]
        /\ UNCHANGED <<mm, mm_users, sizeVars, born, clock, freed, stay, pc, frame>>
        /\ listed' = listed \ {t}
        /\ gone_next' = [gone_next EXCEPT ![t] = NextTask(t)]
        /\ waits' = [waits EXCEPT ![t] = InSection]
    BY <1>3 DEF ReleaseTask, Release
  <2>2. /\ NextTask(t) \in Task \cup {NULL}
        /\ NextTask(t) # NULL => NextTask(t) \in listed /\ NextTask(t) # t
    <3>1. CASE t \in listed
      <4> DEFINE S == {u \in listed : born[u] > born[t]}
      <4>1. NextTask(t) = Oldest(S) /\ S \in SUBSET Task
        BY <1>a, <3>1 DEF NextTask
      <4>2. Oldest(S) = NULL \/ Oldest(S) \in S
        <5> HIDE DEF S
        <5> QED BY Zenon, <4>1, OldestProp
      <4>3. t \notin S
        BY DEF TypeOK
      <4> QED
        BY <1>a, <4>1, <4>2, <4>3
    <3>2. CASE t \notin listed
      BY Zenon, <1>a, <2>1, <3>2 DEF NextTask, LifeOK
    <3> QED
      BY <3>1, <3>2
  <2>3. TypeOK'
    BY <1>a, <2>1, <2>2 DEF TypeOK, TaskTypeOK, sizeVars, InSection
  <2>4. LifeOK'
    <3>1. \A u \in Task : life'[u] = (IF u = t THEN "dead" ELSE life[u])
                           /\ gone_next'[u] = (IF u = t THEN NextTask(t) ELSE gone_next[u])
                           /\ waits'[u] = (IF u = t THEN InSection ELSE waits[u])
      BY Zenon, <1>a, <2>1
    <3>2. /\ \A u \in Task : mm'[u] # NULL => life'[u] = "run"
          /\ \A u \in listed' : life'[u] \in {"run", "zombie"}
      BY <1>a, <2>1, <3>1 DEF LifeOK
    <3>3. /\ \A u \in freed' : life'[u] = "dead"
          /\ \A u \in Task : waits'[u] # {} => life'[u] = "dead"
      BY <1>a, <2>1, <3>1 DEF LifeOK
    <3>4. \A q \in Pid : pid_task'[q] # NULL => life'[pid_task'[q]] \in {"run", "zombie"}
      <4>1. \A q \in Pid : pid_task'[q] # NULL => pid_task[q] # t /\ pid_task'[q] = pid_task[q]
        BY <1>a, <2>1
      <4> QED
        BY <1>a, <3>1, <4>1 DEF LifeOK
    <3>5. \A u \in Task : gone_next'[u] # NULL => life'[u] = "dead" /\ life'[gone_next'[u]] # "new"
      <4> TAKE u \in Task
      <4>1. CASE u = t
        BY <1>a, <1>b, <2>2, <3>1, <4>1 DEF LifeOK
      <4>2. CASE u # t
        BY <1>a, <3>1, <4>2 DEF LifeOK
      <4> QED
        BY <4>1, <4>2
    <3> QED
      BY Zenon, <3>2, <3>3, <3>4, <3>5 DEF LifeOK
  <2>5. RcuOK'
    <3>1. \A c \in InSection, u \in Task : Safe(c, u) => Safe(c, u)'
      BY <1>a, <2>1 DEF Safe
    <3>2. \A c \in Caller : frame[c].task \in Task \cup {NULL}
      BY DEF TypeOK, Frame
    <3>3. InSection' = InSection
      BY Zenon, <2>1, ProcessCallers
    <3>4. \A u \in Task : waits'[u] \subseteq InSection
      BY Zenon, <1>a, <2>1 DEF RcuOK
    <3>5. \A c \in InSection : frame'[c].task # NULL => Safe(c, frame[c].task)'
      BY <2>1, <3>1, <3>2 DEF RcuOK, InSection
    <3>6. ASSUME NEW u \in Task, NEW c \in waits'[u], gone_next'[u] # NULL
          PROVE  Safe(c, gone_next[u])'
      <4>1. CASE u = t
        <5>1. gone_next'[u] = NextTask(t) /\ NextTask(t) \in listed /\ NextTask(t) # t
          BY <1>a, <2>1, <2>2, <3>6, <4>1
        <5>2. life[NextTask(t)] \in {"run", "zombie"} /\ NextTask(t) \notin freed
          BY <5>1 DEF LifeOK
        <5> QED
          BY <1>a, <2>1, <5>1, <5>2 DEF Safe
      <4>2. CASE u # t
        <5>1. gone_next'[u] = gone_next[u] /\ c \in waits[u] /\ c \in InSection
          BY <1>a, <2>1, <3>4, <4>2
        <5> QED
          BY <1>a, <3>1, <3>6, <5>1 DEF RcuOK
      <4> QED
        BY <4>1, <4>2
    <3> QED
      BY <3>3, <3>4, <3>5, <3>6 DEF RcuOK
  <2> QED
    BY <2>1, <2>3, <2>4, <2>5, ProcessCallers
<1>4. ASSUME NEW t \in Task, FreeTask(t) PROVE RcuInv'
  <2>1. /\ life[t] = "dead" /\ waits[t] = {} /\ freed' = freed \cup {t}
        /\ UNCHANGED <<pid_task, life, mm, mm_users, sizeVars, listVars, waits, stay, pc, frame>>
    BY Zenon, <1>4 DEF FreeTask, taskVars
  <2>2. TypeOK'
    BY <2>1 DEF TypeOK, TaskTypeOK, sizeVars, listVars
  <2>3. LifeOK'
    BY Zenon, <2>1 DEF LifeOK, listVars
  <2>4. RcuOK'
    <3>1. \A c, u : Safe(c, u) => Safe(c, u)'
      BY <2>1 DEF Safe
    <3> QED
      BY <2>1, <3>1 DEF RcuOK, InSection, listVars
  <2> QED
    BY <2>1, <2>2, <2>3, <2>4, ProcessCallers
<1>5. ASSUME NEW t \in Task, NEW v \in Pages \cup {0}, NEW r \in Pages \cup {0}, ResizeMm(t, v, r)
      PROVE  RcuInv'
  <2>1. /\ UNCHANGED <<pid_task, life, mm, mm_users, listVars, freed, waits, stay, pc, frame>>
        /\ total_vm' = [total_vm EXCEPT ![t] = v] /\ rss' = [rss EXCEPT ![t] = r]
    BY <1>5 DEF ResizeMm, taskVars, rcuVars
  <2>2. v \in Nat /\ r \in Nat
    BY StatsAssumption
  <2>3. TypeOK'
    BY <2>1, <2>2 DEF TypeOK, TaskTypeOK, listVars
  <2>4. LifeOK' /\ RcuOK'
    BY Zenon, <2>1 DEF LifeOK, RcuOK, Safe, InSection, listVars
  <2> QED
    BY <2>1, <2>3, <2>4, ProcessCallers
<1> QED
  BY <1>1, <1>2, <1>3, <1>4, <1>5 DEF ProcessStep

LEMMA NextInv == RcuInv /\ [Next]_vars => RcuInv'
<1> SUFFICES ASSUME RcuInv, [Next]_vars PROVE RcuInv'
  OBVIOUS
<1>1. CASE UNCHANGED vars
  BY Zenon, <1>1 DEF vars, taskVars, sizeVars, listVars, rcuVars, RcuInv, TypeOK, TaskTypeOK, CallerOK,
       LifeOK, RcuOK, Safe, InSection
<1> QED
  BY <1>1, StepInv, CallInv, ProcessInv DEF Next

LEMMA InitInv == Init => RcuInv
<1> SUFFICES ASSUME Init PROVE RcuInv
  OBVIOUS
<1>1. NoCall \in Frame /\ NoCall.mm = NULL
  BY NoCallType DEF NoCall
<1>2. \A c \in Caller : pc[c] = "idle" /\ frame[c] = NoCall
  BY DEF Init
<1>3. TypeOK
  BY <1>1 DEF Init, TaskInit, TypeOK, TaskTypeOK, Pcs
<1>4. \A c \in Caller : CallerOK(pc[c], frame[c])
  BY <1>1, <1>2 DEF CallerOK, Pcs, TaskPcs, MmPcs
<1>5. LifeOK
  BY DEF Init, TaskInit, LifeOK
<1>6. RcuOK
  BY <1>2 DEF Init, RcuOK, InSection
<1> QED
  BY <1>3, <1>4, <1>5, <1>6 DEF RcuInv

LEMMA SpecInv == Spec => []RcuInv
BY InitInv, NextInv, PTL DEF Spec

\* The type invariant of the statistics calls.
THEOREM TypeCorrect == Spec => []TypeOK
<1>1. RcuInv => TypeOK
  BY DEF RcuInv
<1> QED
  BY <1>1, SpecInv, PTL

\* No call uses a task_struct after it was freed: the RCU section of tamalloc
\* and of memory_allocation_statistics spans every use.
THEOREM TaskStaysAllocated == Spec => []TaskNotFreed
<1>1. RcuInv => TaskNotFreed
  BY DEF RcuInv, RcuOK, Safe, TaskNotFreed
<1> QED
  BY <1>1, SpecInv, PTL

-----------------------------------------------------------------------------
(* References on address spaces. *)

LEMMA UsersFinite ==
  \A m : /\ IsFiniteSet(MmHolders(m)) /\ Cardinality(MmHolders(m)) \in Nat
         /\ IsFiniteSet(MmTasks(m)) /\ Cardinality(MmTasks(m)) \in Nat
<1> TAKE m
<1>1. IsFiniteSet(Caller) /\ IsFiniteSet(Task)
  BY StatsAssumption
<1>2. MmHolders(m) \in SUBSET Caller /\ MmTasks(m) \in SUBSET Task
  BY DEF MmHolders, MmTasks
<1>3. IsFiniteSet(MmHolders(m)) /\ IsFiniteSet(MmTasks(m))
  BY <1>1, <1>2, FS_Subset
<1> QED
  BY <1>3, FS_CardinalityType

LEMMA UsersNat == \A m : Cardinality(MmHolders(m)) \in Nat /\ Cardinality(MmTasks(m)) \in Nat
BY UsersFinite

\* A caller's step that takes or drops no reference.
LEMMA SameUsers ==
  ASSUME RcuInv, UsersBalanced, NEW c \in Caller, NEW to, NEW f, Go(c, to, f),
         f.mm = frame[c].mm, UNCHANGED <<mm, mm_users>>
  PROVE  UsersBalanced'
<1>1. \A m \in Task : MmHolders(m)' = MmHolders(m) /\ MmTasks(m)' = MmTasks(m)
  BY Zenon DEF MmHolders, MmTasks, Go, RcuInv, TypeOK
<1> QED
  BY <1>1 DEF UsersBalanced

\* get_task_mm.
LEMMA TakeUser ==
  ASSUME RcuInv, UsersBalanced, NEW c \in Caller, NEW to, NEW f, Go(c, to, f),
         frame[c].mm = NULL, NEW u \in Task, f.mm = u, UNCHANGED mm,
         mm_users' = [mm_users EXCEPT ![u] = @ + 1]
  PROVE  UsersBalanced'
<1>0. NULL \notin Task /\ mm_users \in [Task -> Int]
  BY Zenon, TaskAssumption DEF RcuInv, TypeOK, TaskTypeOK
<1>1. \A m \in Task : MmTasks(m)' = MmTasks(m)
  BY Zenon DEF MmTasks
<1>2. \A m \in Task : MmHolders(m)' = IF m = u THEN MmHolders(m) \cup {c} ELSE MmHolders(m)
  BY <1>0 DEF MmHolders, Go, RcuInv, TypeOK
<1>3. c \notin MmHolders(u)
  BY <1>0 DEF MmHolders
<1>4. Cardinality(MmHolders(u) \cup {c}) = Cardinality(MmHolders(u)) + 1
  BY Zenon, <1>3, UsersFinite, FS_AddElement
<1>5. ASSUME NEW m \in Task
      PROVE  mm_users'[m] = Cardinality(MmTasks(m)') + Cardinality(MmHolders(m)')
  <2>1. /\ Cardinality(MmHolders(m)) \in Nat /\ Cardinality(MmTasks(m)) \in Nat
        /\ mm_users[m] = Cardinality(MmTasks(m)) + Cardinality(MmHolders(m))
    BY UsersNat DEF UsersBalanced
  <2>2. CASE m = u
    <3>1. MmHolders(m)' = MmHolders(m) \cup {c} /\ MmTasks(m)' = MmTasks(m)
      BY <1>1, <1>2, <2>2
    <3>2. Cardinality(MmHolders(m) \cup {c}) = Cardinality(MmHolders(m)) + 1
      BY <1>4, <2>2
    <3>3. mm_users'[m] = mm_users[m] + 1
      BY <1>0, <2>2
    <3>4. /\ Cardinality(MmHolders(m)') = Cardinality(MmHolders(m)) + 1
          /\ Cardinality(MmTasks(m)') = Cardinality(MmTasks(m))
      BY <3>1, <3>2
    <3> QED
      BY <2>1, <3>3, <3>4
  <2>3. CASE m # u
    BY <1>0, <1>1, <1>2, <2>1, <2>3
  <2> QED
    BY <2>2, <2>3
<1> QED
  BY <1>5 DEF UsersBalanced

\* mmput.
LEMMA DropUser ==
  ASSUME RcuInv, UsersBalanced, NEW c \in Caller, NEW to, NEW f, Go(c, to, f),
         f.mm = NULL, NEW u \in Task, frame[c].mm = u, UNCHANGED mm,
         mm_users' = [mm_users EXCEPT ![u] = @ - 1]
  PROVE  UsersBalanced'
<1>0. NULL \notin Task /\ mm_users \in [Task -> Int]
  BY Zenon, TaskAssumption DEF RcuInv, TypeOK, TaskTypeOK
<1>1. \A m \in Task : MmTasks(m)' = MmTasks(m)
  BY Zenon DEF MmTasks
<1>2. \A m \in Task : MmHolders(m)' = IF m = u THEN MmHolders(m) \ {c} ELSE MmHolders(m)
  BY <1>0 DEF MmHolders, Go, RcuInv, TypeOK
<1>3. c \in MmHolders(u)
  BY DEF MmHolders
<1>4. Cardinality(MmHolders(u) \ {c}) = Cardinality(MmHolders(u)) - 1
  BY Zenon, <1>3, UsersFinite, FS_RemoveElement
<1>5. ASSUME NEW m \in Task
      PROVE  mm_users'[m] = Cardinality(MmTasks(m)') + Cardinality(MmHolders(m)')
  <2>1. /\ Cardinality(MmHolders(m)) \in Nat /\ Cardinality(MmTasks(m)) \in Nat
        /\ mm_users[m] = Cardinality(MmTasks(m)) + Cardinality(MmHolders(m))
    BY UsersNat DEF UsersBalanced
  <2>2. CASE m = u
    <3>1. MmHolders(m)' = MmHolders(m) \ {c} /\ MmTasks(m)' = MmTasks(m)
      BY <1>1, <1>2, <2>2
    <3>2. Cardinality(MmHolders(m) \ {c}) = Cardinality(MmHolders(m)) - 1
      BY <1>4, <2>2
    <3>3. mm_users'[m] = mm_users[m] - 1
      BY <1>0, <2>2
    <3>4. /\ Cardinality(MmHolders(m)') = Cardinality(MmHolders(m)) - 1
          /\ Cardinality(MmTasks(m)') = Cardinality(MmTasks(m))
      BY <3>1, <3>2
    <3> QED
      BY <2>1, <3>3, <3>4
  <2>3. CASE m # u
    BY <1>0, <1>1, <1>2, <2>1, <2>3
  <2> QED
    BY <2>2, <2>3
<1> QED
  BY <1>5 DEF UsersBalanced

LEMMA ReturnUsers ==
  ASSUME RcuInv, UsersBalanced, NEW c \in Caller, NEW f, NEW r, Return(c, f, r),
         frame[c].mm = NULL, UNCHANGED <<mm, mm_users>>
  PROVE  UsersBalanced'
<1>1. [NoCall EXCEPT !.op = f.op, !.ret = r].mm = NULL
  BY DEF NoCall
<1> QED
  BY Zenon, <1>1, SameUsers DEF Return

LEMMA CallerUsers ==
  ASSUME RcuInv, UsersBalanced, NEW c \in Caller, Step(c) \/ Call(c) PROVE UsersBalanced'
<1> DEFINE f == frame[c]
<1>a. CallerOK(pc[c], f) /\ f \in Frame
  BY Zenon DEF RcuInv, CallerOK
<1> HIDE DEF f
<1>1. CASE WalkFirst(c) \/ WalkNext(c)
  <2>1. ASSUME NEW t, VisitTask(c, t), UNCHANGED taskVars PROVE UsersBalanced'
    <3>1. [f EXCEPT !.task = t].mm = f.mm
      BY <1>a DEF Frame
    <3> QED
      BY Zenon, <2>1, <3>1, SameUsers DEF VisitTask, taskVars, f
  <2> QED
    BY Zenon, <1>1, <2>1 DEF WalkFirst, WalkNext
<1>2. CASE CheckZombie(c)
  BY Zenon, <1>2, SameUsers DEF CheckZombie, taskVars
<1>3. CASE GetTaskMm(c)
  <2>1. f.mm = NULL /\ f.task \in Task
    BY <1>3, <1>a DEF GetTaskMm, CallerOK, MmPcs, TaskPcs
  <2>2. CASE mm[f.task] # NULL
    <3>1. mm[f.task] \in Task
      BY <2>1, <2>2 DEF RcuInv, TypeOK, TaskTypeOK
    <3>2. [f EXCEPT !.mm = mm[f.task]].mm = mm[f.task]
      BY <1>a DEF Frame
    <3>3. /\ Go(c, "vm", [f EXCEPT !.mm = mm[f.task]]) /\ UNCHANGED mm
          /\ mm_users' = [mm_users EXCEPT ![mm[f.task]] = @ + 1]
      BY <1>3, <2>2 DEF GetTaskMm, f
    <3> QED
      BY Zenon, <2>1, <3>1, <3>2, <3>3, TakeUser DEF f
  <2>3. CASE mm[f.task] = NULL /\ Go(c, "next", f) /\ UNCHANGED <<mm, mm_users>>
    BY <2>3, SameUsers DEF f
  <2>4. CASE mm[f.task] = NULL /\ Return(c, f, EINVAL) /\ UNCHANGED <<mm, mm_users>>
    BY <2>1, <2>4, ReturnUsers DEF f
  <2> QED
    BY <1>3, <2>2, <2>3, <2>4 DEF GetTaskMm, f
<1>4. CASE ReadVm(c)
  <2> DEFINE v == f.vm + Convert(f, total_vm[f.mm])
  <2>1. [f EXCEPT !.vm = v].mm = f.mm
    BY <1>a DEF Frame
  <2>2. Go(c, "rss", [f EXCEPT !.vm = v]) /\ UNCHANGED <<mm, mm_users>>
    BY <1>4 DEF ReadVm, taskVars, f
  <2> HIDE DEF v
  <2> QED
    BY Zenon, <2>1, <2>2, SameUsers DEF f
<1>5. CASE ReadRss(c)
  <2> DEFINE r == f.rss + Convert(f, rss[f.mm])
             q == IF f.vm > 0 THEN (r * 100) \div f.vm ELSE 0
             g == [f EXCEPT !.rss = r, !.percent = q]
             h == [f EXCEPT !.rss = r, !.seen = Append(@, f.task)]
  <2>1. g.mm = f.mm /\ h.mm = f.mm
    BY <1>a DEF Frame
  <2>2. (Go(c, "oom", g) \/ Go(c, "put", h)) /\ UNCHANGED <<mm, mm_users>>
    BY <1>5 DEF ReadRss, taskVars, f
  <2> HIDE DEF g, h
  <2> QED
    BY <2>1, <2>2, SameUsers DEF f
<1>6. CASE ReadOom(c)
  <2>1. [f EXCEPT !.oom = GroupLeader[f.task]].mm = f.mm
    BY <1>a DEF Frame
  <2> QED
    BY Zenon, <1>6, <2>1, SameUsers DEF ReadOom, taskVars, f
<1>7. CASE Mmput(c)
  <2>1. [f EXCEPT !.mm = NULL].mm = NULL
    BY <1>a DEF Frame
  <2>2. f.mm \in Task
    BY <1>7, <1>a DEF Mmput, CallerOK, MmPcs, Frame
  <2> QED
    BY Zenon, <1>7, <2>1, <2>2, DropUser DEF Mmput, f
<1>8. CASE Finish(c)
  <2>1. f.mm = NULL
    BY <1>8, <1>a DEF Finish, CallerOK, MmPcs
  <2> QED
    BY <1>8, <2>1, ReturnUsers DEF Finish, taskVars, f
<1>9. CASE TamallocCall(c)
  <2>1. f.mm = NULL
    BY <1>9, <1>a DEF TamallocCall, CallerOK, MmPcs
  <2>2. [NoCall EXCEPT !.op = "tamalloc"].mm = NULL
    BY DEF NoCall
  <2> QED
    BY Zenon, <1>9, <2>1, <2>2, SameUsers DEF TamallocCall, taskVars, f
<1>10. ASSUME NEW p \in Pid, StatsCall(c, p) PROVE UsersBalanced'
  <2> DEFINE g == [NoCall EXCEPT !.op = "stats", !.task = pid_task[p]]
  <2>1. f.mm = NULL
    BY <1>10, <1>a DEF StatsCall, CallerOK, MmPcs
  <2>2. g.mm = NULL
    BY DEF NoCall
  <2>3. (Return(c, g, ESRCH) \/ Go(c, "getmm", g)) /\ UNCHANGED <<mm, mm_users>>
    BY <1>10 DEF StatsCall, taskVars
  <2> HIDE DEF g
  <2> QED
    BY <2>1, <2>2, <2>3, SameUsers, ReturnUsers DEF f
<1> QED
  BY <1>1, <1>2, <1>3, <1>4, <1>5, <1>6, <1>7, <1>8, <1>9, <1>10 DEF Step, Call

LEMMA ProcessUsers == ASSUME RcuInv, UsersBalanced, ProcessStep PROVE UsersBalanced'
<1>a. /\ mm \in [Task -> Task \cup {NULL}] /\ mm_users \in [Task -> Int] /\ NULL \notin Task
      /\ life \in [Task -> {"new", "run", "zombie", "dead"}]
  BY TaskAssumption DEF RcuInv, TypeOK, TaskTypeOK
<1>1. ASSUME NEW t \in Task, NEW p \in Pid, NEW m \in MmChoices(t), NewTask(t, p, m)
      PROVE  UsersBalanced'
  <2>1. /\ m \in Task \cup {NULL} /\ mm[t] = NULL /\ mm' = [mm EXCEPT ![t] = m]
        /\ mm_users' = IF m = NULL THEN mm_users ELSE [mm_users EXCEPT ![m] = @ + 1]
        /\ UNCHANGED frame
    <3>1. m \in Task \cup {NULL}
      BY <1>a DEF MmChoices
    <3>2. life[t] = "new"
      BY <1>1 DEF NewTask, Clone
    <3>3. mm[t] = NULL
      BY <3>2 DEF RcuInv, LifeOK
    <3> QED
      BY Zenon, <1>1, <3>1, <3>3 DEF NewTask, Clone
  <2>2. \A x \in Task : /\ MmHolders(x)' = MmHolders(x)
                        /\ MmTasks(x)' = IF x = m THEN MmTasks(x) \cup {t} ELSE MmTasks(x)
    BY <1>a, <2>1 DEF MmHolders, MmTasks
  <2>3. m \in Task => Cardinality(MmTasks(m) \cup {t}) = Cardinality(MmTasks(m)) + 1
    <3>1. m \in Task => t \notin MmTasks(m)
      BY <1>a, <2>1 DEF MmTasks
    <3> QED
      BY Zenon, <3>1, UsersFinite, FS_AddElement
  <2>4. ASSUME NEW x \in Task
        PROVE  mm_users'[x] = Cardinality(MmTasks(x)') + Cardinality(MmHolders(x)')
    <3>1. /\ Cardinality(MmHolders(x)) \in Nat /\ Cardinality(MmTasks(x)) \in Nat
          /\ mm_users[x] = Cardinality(MmTasks(x)) + Cardinality(MmHolders(x))
      BY UsersNat DEF UsersBalanced
    <3>2. CASE x = m
      <4>1. MmTasks(x)' = MmTasks(x) \cup {t} /\ MmHolders(x)' = MmHolders(x)
        BY <2>2, <3>2
      <4>2. Cardinality(MmTasks(x) \cup {t}) = Cardinality(MmTasks(x)) + 1
        BY <2>3, <3>2
      <4>3. mm_users'[x] = mm_users[x] + 1
        BY <1>a, <2>1, <3>2
      <4> QED
        BY <3>1, <4>1, <4>2, <4>3
    <3>3. CASE x # m
      BY <1>a, <2>1, <2>2, <3>1, <3>3
    <3> QED
      BY <3>2, <3>3
  <2> QED
    BY <2>4 DEF UsersBalanced
<1>2. ASSUME NEW t \in Task, ExitTask(t) PROVE UsersBalanced'
  <2> DEFINE m == mm[t]
  <2>1. /\ m \in Task \cup {NULL} /\ mm' = [mm EXCEPT ![t] = NULL]
        /\ mm_users' = IF m = NULL THEN mm_users ELSE [mm_users EXCEPT ![m] = @ - 1]
        /\ UNCHANGED frame
    BY <1>a, <1>2 DEF ExitTask, Exit
  <2>2. \A x \in Task : /\ MmHolders(x)' = MmHolders(x)
                        /\ MmTasks(x)' = IF x = m THEN MmTasks(x) \ {t} ELSE MmTasks(x)
    BY <1>a, <2>1 DEF MmHolders, MmTasks
  <2>3. m \in Task => Cardinality(MmTasks(m) \ {t}) = Cardinality(MmTasks(m)) - 1
    <3>1. m \in Task => t \in MmTasks(m)
      BY DEF MmTasks
    <3> QED
      BY Zenon, <3>1, UsersFinite, FS_RemoveElement
  <2> HIDE DEF m
  <2>4. ASSUME NEW x \in Task
        PROVE  mm_users'[x] = Cardinality(MmTasks(x)') + Cardinality(MmHolders(x)')
    <3>1. /\ Cardinality(MmHolders(x)) \in Nat /\ Cardinality(MmTasks(x)) \in Nat
          /\ mm_users[x] = Cardinality(MmTasks(x)) + Cardinality(MmHolders(x))
      BY UsersNat DEF UsersBalanced
    <3>2. CASE x = m
      <4>1. MmTasks(x)' = MmTasks(x) \ {t} /\ MmHolders(x)' = MmHolders(x)
        BY <2>2, <3>2
      <4>2. Cardinality(MmTasks(x) \ {t}) = Cardinality(MmTasks(x)) - 1
        BY <2>3, <3>2
      <4>3. mm_users'[x] = mm_users[x] - 1
        BY <1>a, <2>1, <3>2
      <4> QED
        BY <3>1, <4>1, <4>2, <4>3
    <3>3. CASE x # m
      BY <1>a, <2>1, <2>2, <3>1, <3>3
    <3> QED
      BY <3>2, <3>3
  <2> QED
    BY <2>4 DEF UsersBalanced
<1>3. ASSUME UNCHANGED <<mm, mm_users, frame>> PROVE UsersBalanced'
  BY Zenon, <1>3 DEF UsersBalanced, MmHolders, MmTasks
<1> QED
  BY <1>1, <1>2, <1>3 DEF ProcessStep, ReleaseTask, Release, FreeTask, ResizeMm, taskVars

\* Address space references balance on every path of both calls, for any
\* number of callers, processes and threads.
THEOREM MmUsersBalanced == Spec => []UsersBalanced
<1>1. Init => UsersBalanced
  <2> SUFFICES ASSUME Init, NEW m \in Task PROVE mm_users[m] = Cardinality(MmTasks(m)) + Cardinality(MmHolders(m))
    BY DEF UsersBalanced
  <2>1. NULL \notin Task
    BY TaskAssumption
  <2>2. MmTasks(m) = {} /\ MmHolders(m) = {}
    BY Zenon, <2>1 DEF Init, TaskInit, MmTasks, MmHolders, NoCall
  <2>3. Cardinality(MmTasks(m)) = 0 /\ Cardinality(MmHolders(m)) = 0
    BY <2>2, FS_EmptySet, Zenon
  <2> QED
    BY <2>3 DEF Init, TaskInit
<1>2. RcuInv /\ UsersBalanced /\ [Next]_vars => UsersBalanced'
  <2>1. ASSUME RcuInv, UsersBalanced, UNCHANGED vars PROVE UsersBalanced'
    BY Zenon, <2>1 DEF vars, taskVars, UsersBalanced, MmHolders, MmTasks
  <2> QED
    BY <2>1, CallerUsers, ProcessUsers DEF Next
<1> QED
  BY <1>1, <1>2, SpecInv, PTL DEF Spec

-----------------------------------------------------------------------------
(* A walk of tamalloc over the process list misses no process.            *)

Seen(f) == {f.seen[i] : i \in DOMAIN f.seen}

\* The list is ordered by birth, and the next pointer an unlinked entry keeps
\* still leads a walker to every process that has stayed since its walk began.
BornOK == \A t \in Task :
  /\ born[t] <= clock /\ (life[t] = "new" => born[t] = 0)
  /\ born[t] > 0 => t \in listed \/ life[t] = "dead"
ListedBorn == \A t \in listed : born[t] > 0
DistinctBirths == \A t, u \in Task : born[t] = born[u] /\ born[t] > 0 => t = u
NextLater == \A t \in Task : gone_next[t] # NULL => born[gone_next[t]] > born[t]
StayListed == \A c \in Caller : stay[c] \subseteq {t \in listed : mm[t] # NULL}
WaitsReach == \A t \in Task : \A c \in waits[t] : \A u \in stay[c] :
  born[t] > 0 /\ born[u] > born[t] => gone_next[t] # NULL /\ born[gone_next[t]] <= born[u]

OrderOK == BornOK /\ ListedBorn /\ DistinctBirths /\ NextLater /\ StayListed /\ WaitsReach

\* Caller c at pc k: what it has counted lies before the cursor, and what has
\* stayed and is not counted lies at or behind it.
WalkOK(c, k, f) ==
  f.op = "tamalloc" =>
    /\ \A x \in Seen(f) : born[x] > 0
    /\ \A i, j \in DOMAIN f.seen : f.seen[i] = f.seen[j] => i = j
    /\ k = "find" => f.seen = <<>>
    /\ k \in {"zombie", "getmm", "vm", "rss"} =>
         /\ born[f.task] > 0
         /\ \A u \in stay[c] : u \in Seen(f) \/ born[u] >= born[f.task]
         /\ \A x \in Seen(f) : born[x] < born[f.task]
    /\ k \in {"put", "next"} =>
         /\ born[f.task] > 0
         /\ \A u \in stay[c] : u \in Seen(f) \/ born[u] > born[f.task]
         /\ \A x \in Seen(f) : born[x] <= born[f.task]
    /\ k = "unlock" => stay[c] \subseteq Seen(f)

WalkInv == OrderOK /\ \A c \in Caller : WalkOK(c, pc[c], frame[c])

\* What Append does to a list of tasks, position by position.
LEMMA AppendFacts ==
  ASSUME NEW s \in Seq(Task), NEW e \in Task
  PROVE  /\ DOMAIN Append(s, e) = 1..(Len(s) + 1) /\ DOMAIN s = 1..Len(s)
         /\ \A i \in 1..Len(s) : Append(s, e)[i] = s[i]
         /\ Append(s, e)[Len(s) + 1] = e /\ Len(s) \in Nat
  OBVIOUS

(* ReadRss extends the list of the tasks a walk has counted by one, e: the
   frame h has seen what f had seen, and e. *)
LEMMA ExtendedRange ==
  ASSUME NEW f, NEW h, NEW e \in Task, f.seen \in Seq(Task), h.seen = Append(f.seen, e)
  PROVE  Seen(h) = Seen(f) \cup {e}
<1> DEFINE s == f.seen
           t == h.seen
           n == Len(f.seen)
<1>0. /\ DOMAIN s = 1..n /\ DOMAIN t = 1..(n + 1)
      /\ \A i \in 1..n : t[i] = s[i]
      /\ t[n + 1] = e /\ n \in Nat
  BY AppendFacts
<1> HIDE DEF s, t, n
<1>1. 1..(n + 1) = (1..n) \cup {n + 1}
  BY <1>0
<1>2. ASSUME NEW i \in DOMAIN t PROVE t[i] \in {s[j] : j \in DOMAIN s} \cup {e}
  <2>1. CASE i = n + 1
    BY <1>0, <2>1
  <2>2. CASE i \in 1..n
    BY <1>0, <2>2
  <2> QED
    BY <1>0, <1>1, <2>1, <2>2
<1>3. ASSUME NEW i \in DOMAIN s PROVE s[i] \in {t[j] : j \in DOMAIN t}
  <2>1. i \in DOMAIN t /\ t[i] = s[i]
    BY <1>0, <1>1
  <2> QED
    BY <2>1
<1>4. e \in {t[j] : j \in DOMAIN t}
  <2>1. n + 1 \in DOMAIN t /\ t[n + 1] = e
    BY <1>0, <1>1
  <2> QED
    BY <2>1
<1> QED
  BY <1>2, <1>3, <1>4, Zenon DEF Seen, s, t

(* If s has no repetition and e is new to it, the extension has none either. *)
LEMMA ExtendedDistinct ==
  ASSUME NEW n \in Nat, NEW s, NEW t, NEW e,
         DOMAIN s = 1..n, DOMAIN t = 1..(n + 1),
         \A i \in 1..n : t[i] = s[i], t[n + 1] = e,
         e \notin {s[i] : i \in DOMAIN s},
         \A i, j \in DOMAIN s : s[i] = s[j] => i = j
  PROVE  \A i, j \in DOMAIN t : t[i] = t[j] => i = j
<1>1. 1..(n + 1) = (1..n) \cup {n + 1}
  OBVIOUS
<1>2. \A i \in 1..n : t[i] # e
  <2> TAKE i \in 1..n
  <2>1. t[i] = s[i] /\ s[i] \in {s[j] : j \in DOMAIN s}
    OBVIOUS
  <2> QED
    BY <2>1
<1> TAKE i, j \in DOMAIN t
<1> HAVE t[i] = t[j]
<1>3. CASE i \in 1..n /\ j \in 1..n
  <2>1. s[i] = s[j]
    BY <1>3
  <2> QED
    BY <1>3, <2>1
<1>4. CASE i \in 1..n /\ j = n + 1
  BY <1>2, <1>4
<1>5. CASE i = n + 1 /\ j \in 1..n
  BY <1>2, <1>5
<1>6. CASE i = n + 1 /\ j = n + 1
  BY <1>6
<1> QED
  BY <1>1, <1>3, <1>4, <1>5, <1>6

\* What WalkOK says depends on the births and on what the caller's walk must find.
LEMMA WalkSame ==
  ASSUME born' = born, NEW d, stay'[d] = stay[d], NEW k, NEW g, WalkOK(d, k, g)
  PROVE  WalkOK(d, k, g)'
  BY Zenon DEF WalkOK, Seen

\* A step of one caller's walk that leaves the list alone disturbs no other walk.
LEMMA WalkLocal ==
  ASSUME RcuInv, WalkInv, NEW c \in Caller, NEW to, NEW f, Go(c, to, f), WalkOK(c, to, f),
         UNCHANGED <<life, mm>>, UNCHANGED listVars, UNCHANGED stay,
         \A t \in Task : waits'[t] \subseteq waits[t]
  PROVE  WalkInv'
<1>1. OrderOK'
  BY Zenon DEF WalkInv, OrderOK, BornOK, ListedBorn, DistinctBirths, NextLater, StayListed, WaitsReach, listVars
<1>2. \A d \in Caller : pc'[d] = (IF d = c THEN to ELSE pc[d])
                        /\ frame'[d] = IF d = c THEN f ELSE frame[d]
  BY Zenon DEF Go, RcuInv, TypeOK
<1>3. ASSUME NEW d \in Caller PROVE WalkOK(d, pc[d], frame[d])'
  <2>1. PICK k, g : /\ k = (IF d = c THEN to ELSE pc[d])
                    /\ g = IF d = c THEN f ELSE frame[d]
    BY Zenon
  <2>2. WalkOK(d, k, g)
    BY Zenon, <2>1 DEF WalkInv
  <2>3. WalkOK(d, k, g)'
    BY Zenon, <2>2, WalkSame DEF listVars
  <2> QED BY Zenon, <1>2, <2>1, <2>3
<1> QED
  BY <1>1, <1>3 DEF WalkInv

\* The cursor moves on from an entry that leads to all that is left.
LEMMA WalkVisit ==
  ASSUME RcuInv, WalkInv, NEW c \in Caller, NEW t \in Task \cup {NULL}, VisitTask(c, t),
         pc[c] \in {"find", "next"},
         t = NULL => stay[c] \subseteq Seen(frame[c]),
         t # NULL => /\ born[t] > 0
                     /\ \A u \in stay[c] : u \in Seen(frame[c]) \/ born[u] >= born[t]
                     /\ \A x \in Seen(frame[c]) : born[x] < born[t],
         UNCHANGED <<taskVars, sizeVars, listVars, rcuVars, stay>>
  PROVE  WalkInv'
<1> DEFINE k == IF t = NULL THEN "unlock" ELSE "zombie"
           g == [frame[c] EXCEPT !.task = t]
<1>1. frame[c] \in Frame /\ WalkOK(c, pc[c], frame[c]) /\ frame[c].op = "tamalloc"
  BY Zenon DEF RcuInv, CallerOK, WalkInv
<1>2. g.seen = frame[c].seen /\ g.task = t /\ g.op = "tamalloc"
  BY <1>1 DEF Frame
<1>3. WalkOK(c, k, g)
  <2> HIDE DEF g
  <2>1. Seen(g) = Seen(frame[c])
    BY Zenon, <1>2 DEF Seen
  <2>2. k \in {"unlock", "zombie"} /\ (k = "unlock" <=> t = NULL)
    OBVIOUS
  <2> HIDE DEF k
  <2> QED BY Zenon, <1>1, <1>2, <2>1, <2>2 DEF WalkOK
<1>4. Go(c, k, g)
  BY DEF VisitTask
<1> HIDE DEF k, g
<1> QED
  BY Zenon, <1>3, <1>4, WalkLocal DEF taskVars, rcuVars

\* Where the walk goes from a task: past it, and not past anything that stayed.
LEMMA NextCovers ==
  ASSUME RcuInv, WalkInv, NEW c \in InSection, NEW t \in Task, Safe(c, t), born[t] > 0
  PROVE  /\ NextTask(t) \in Task \cup {NULL}
         /\ NextTask(t) = NULL => \A u \in stay[c] : ~ (born[u] > born[t])
         /\ NextTask(t) # NULL =>
              /\ born[NextTask(t)] > born[t]
              /\ \A u \in stay[c] : born[u] > born[t] => born[u] >= born[NextTask(t)]
<1>0. /\ born \in [Task -> Nat] /\ listed \subseteq Task /\ c \in Caller /\ stay[c] \subseteq listed
      /\ gone_next \in [Task -> Task \cup {NULL}] /\ NULL \notin Task
  BY Zenon, TaskAssumption DEF RcuInv, TypeOK, InSection, WalkInv, OrderOK, BornOK, ListedBorn, DistinctBirths,
     NextLater, StayListed, WaitsReach
<1>1. CASE t \in listed
  <2> DEFINE S == {u \in listed : born[u] > born[t]}
  <2>1. NextTask(t) = Oldest(S) /\ S \in SUBSET Task
    BY <1>0, <1>1 DEF NextTask
  <2>2. /\ S = {} => Oldest(S) = NULL
        /\ S # {} => Oldest(S) \in S /\ \A u \in S : born[Oldest(S)] <= born[u]
    <3> HIDE DEF S
    <3> QED BY Zenon, <2>1, OldestProp DEF RcuInv
  <2>3. \A u \in stay[c] : born[u] > born[t] => u \in S
    BY <1>0
  <2>4. \A u \in S : u \in Task /\ born[u] > born[t] /\ born[u] \in Nat
    BY <1>0
  <2> HIDE DEF S
  <2>5. CASE S = {}
    BY Zenon, <2>1, <2>2, <2>3, <2>5
  <2>6. CASE S # {}
    <3> DEFINE n == Oldest(S)
    <3>1. n \in S /\ n # NULL /\ \A u \in S : born[n] <= born[u]
      BY <1>0, <2>2, <2>4, <2>6
    <3>2. NextTask(t) = n
      BY <2>1
    <3> HIDE DEF n
    <3> QED
      BY <2>3, <2>4, <3>1, <3>2
  <2> QED
    BY Zenon, <2>5, <2>6
<1>2. CASE t \notin listed
  <2>1. NextTask(t) = gone_next[t]
    BY Zenon, <1>2 DEF NextTask
  <2>2. gone_next[t] # NULL => born[gone_next[t]] > born[t]
    BY Zenon DEF WalkInv, OrderOK, BornOK, ListedBorn, DistinctBirths, NextLater, StayListed, WaitsReach
  <2>3. CASE life[t] = "dead"
    <3>1. c \in waits[t]
      BY Zenon, <2>3 DEF Safe
    <3>2. \A u \in stay[c] : born[u] > born[t] => gone_next[t] # NULL /\ born[gone_next[t]] <= born[u]
      BY Zenon, <3>1 DEF WalkInv, OrderOK, BornOK, ListedBorn, DistinctBirths, NextLater, StayListed, WaitsReach
    <3>3. \A u \in stay[c] : born[u] \in Nat
      BY Zenon, <1>0
    <3>4. gone_next[t] # NULL => born[gone_next[t]] \in Nat
      BY <1>0
    <3> QED
      BY Zenon, <1>0, <2>1, <2>2, <3>2, <3>3, <3>4
  <2>4. CASE life[t] # "dead"
    BY Zenon, <1>2, <2>4 DEF WalkInv, OrderOK, BornOK, ListedBorn, DistinctBirths, NextLater, StayListed, WaitsReach
  <2> QED
    BY Zenon, <2>3, <2>4
<1> QED
  BY Zenon, <1>1, <1>2

\* A walk that returns keeps nothing to account for.
LEMMA WalkReturn ==
  ASSUME RcuInv, WalkInv, NEW c \in Caller, NEW f, NEW r, Return(c, f, r),
         UNCHANGED <<life, mm>>, UNCHANGED listVars, UNCHANGED stay,
         \A t \in Task : waits'[t] \subseteq waits[t]
  PROVE  WalkInv'
<1> DEFINE g == [NoCall EXCEPT !.op = f.op, !.ret = r]
<1>1. g.seen = <<>> /\ Go(c, "idle", g)
  BY DEF NoCall, Return
<1> HIDE DEF g
<1>2. WalkOK(c, "idle", g)
  BY <1>1 DEF WalkOK, Seen
<1> QED
  BY Zenon, <1>1, <1>2, WalkLocal

\* Every step of a call in progress keeps the walks complete and free of repetition.
LEMMA WalkStep == ASSUME RcuInv, WalkInv, NEW c \in Caller, Step(c) PROVE WalkInv'
<1> DEFINE f == frame[c]
<1>a. /\ TypeOK /\ CallerOK(pc[c], f) /\ f \in Frame /\ WalkOK(c, pc[c], f)
      /\ f.task # NULL /\ pc[c] # "idle" => Safe(c, f.task)
  BY Zenon DEF RcuInv, CallerOK, RcuOK, InSection, WalkInv
<1>b. /\ born \in [Task -> Nat] /\ listed \subseteq Task /\ NULL \notin Task
      /\ stay[c] \subseteq {t \in listed : mm[t] # NULL}
  BY Zenon, <1>a, TaskAssumption DEF TypeOK, WalkInv, OrderOK, StayListed
<1>c. Seen(f) \subseteq Task
  <2>1. f.seen \in Seq(Task)
    BY Zenon, <1>a DEF Frame
  <2> HIDE DEF f
  <2> QED BY <2>1 DEF Seen
<1>d. \A t, u \in Task : born[t] = born[u] /\ born[t] > 0 => t = u
  BY DEF WalkInv, OrderOK, DistinctBirths
<1> HIDE DEF f
<1>1. CASE WalkFirst(c)
  <2>0. pc[c] = "find" /\ VisitTask(c, Oldest(listed)) /\ UNCHANGED <<taskVars, sizeVars, listVars, rcuVars, stay>>
    BY <1>1 DEF WalkFirst
  <2>1. f.seen = <<>> /\ Seen(f) = {}
    <3>1. f.seen = <<>>
      BY Zenon, <1>a, <2>0 DEF WalkOK, CallerOK
    <3> QED BY <3>1 DEF Seen
  <2>2. /\ listed = {} => Oldest(listed) = NULL
        /\ listed # {} => Oldest(listed) \in listed /\ \A u \in listed : born[Oldest(listed)] <= born[u]
    BY Zenon, <1>a, <1>b, OldestProp
  <2>3. Oldest(listed) = NULL => listed = {}
    BY Zenon, <1>b, <2>2
  <2>4. \A u \in listed : born[u] \in Nat /\ born[u] > 0
    BY Zenon, <1>b DEF WalkInv, OrderOK, ListedBorn
  <2> DEFINE t == Oldest(listed)
  <2>5. /\ t \in Task \cup {NULL}
        /\ t = NULL => stay[c] \subseteq Seen(f)
        /\ t # NULL => /\ born[t] > 0
                       /\ \A u \in stay[c] : u \in Seen(f) \/ born[u] >= born[t]
                       /\ \A x \in Seen(f) : born[x] < born[t]
    BY Zenon, <1>b, <2>1, <2>2, <2>3, <2>4
  <2> HIDE DEF t
  <2> QED
    BY Zenon, <2>0, <2>5, WalkVisit DEF f, t
<1>2. CASE WalkNext(c)
  <2>0. /\ pc[c] = "next" /\ VisitTask(c, NextTask(f.task)) /\ c \in InSection
        /\ UNCHANGED <<taskVars, sizeVars, listVars, rcuVars, stay>>
    BY <1>2 DEF WalkNext, InSection, f
  <2>1. f.task \in Task /\ f.op = "tamalloc" /\ Safe(c, f.task)
    BY Zenon, <1>a, <1>b, <2>0 DEF CallerOK, TaskPcs
  <2>2. /\ born[f.task] > 0
        /\ \A u \in stay[c] : u \in Seen(f) \/ born[u] > born[f.task]
        /\ \A x \in Seen(f) : born[x] <= born[f.task]
    BY Zenon, <1>a, <2>0, <2>1 DEF WalkOK
  <2> DEFINE n == NextTask(f.task)
  <2>3. /\ n \in Task \cup {NULL}
        /\ n = NULL => \A u \in stay[c] : ~ (born[u] > born[f.task])
        /\ n # NULL =>
             /\ born[n] > born[f.task]
             /\ \A u \in stay[c] : born[u] > born[f.task] => born[u] >= born[n]
    BY Zenon, <2>0, <2>1, <2>2, NextCovers
  <2> HIDE DEF n
  <2>4. \A u \in Task : born[u] \in Nat
    BY <1>b
  <2>5. /\ n = NULL => stay[c] \subseteq Seen(f)
        /\ n # NULL => /\ born[n] > 0
                       /\ \A u \in stay[c] : u \in Seen(f) \/ born[u] >= born[n]
                       /\ \A x \in Seen(f) : born[x] < born[n]
    BY <1>b, <1>c, <2>1, <2>2, <2>3, <2>4
  <2> QED
    BY Zenon, <2>0, <2>3, <2>5, WalkVisit DEF f, n
<1>3. CASE CheckZombie(c)
  <2>1. /\ pc[c] = "zombie" /\ Go(c, IF life[f.task] = "zombie" THEN "next" ELSE "getmm", f)
        /\ UNCHANGED <<taskVars, sizeVars, listVars, rcuVars, stay>>
    BY <1>3 DEF CheckZombie, f
  <2>2. f.task \in Task /\ f.op = "tamalloc"
    BY Zenon, <1>a, <2>1 DEF CallerOK, TaskPcs
  <2>3. CASE life[f.task] = "zombie"
    <3>1. f.task \notin stay[c]
      BY Zenon, <1>b, <2>2, <2>3 DEF RcuInv, LifeOK
    <3>2. \A u \in stay[c] : born[u] >= born[f.task] => born[u] > born[f.task]
      <4>1. born[f.task] > 0 /\ born[f.task] \in Nat
        BY Zenon, <1>a, <1>b, <2>1, <2>2 DEF WalkOK
      <4> QED BY <1>b, <1>d, <2>2, <3>1, <4>1
    <3>3. \A x \in Seen(f) : born[x] < born[f.task] => born[x] <= born[f.task]
      BY <1>b, <1>c, <2>2
    <3>4. WalkOK(c, "next", f)
      BY Zenon, <1>a, <2>1, <2>2, <3>2, <3>3 DEF WalkOK
    <3> QED
      BY Zenon, <2>1, <2>3, <3>4, WalkLocal DEF taskVars, rcuVars
  <2>4. CASE life[f.task] # "zombie"
    <3>1. WalkOK(c, "getmm", f)
      BY Zenon, <1>a, <2>1, <2>2 DEF WalkOK
    <3> QED
      BY Zenon, <2>1, <2>4, <3>1, WalkLocal DEF taskVars, rcuVars
  <2> QED
    BY <2>3, <2>4
<1>4. CASE GetTaskMm(c)
  <2>0. pc[c] = "getmm" /\ f.task \in Task /\ UNCHANGED <<life, mm, listVars, stay>>
    BY <1>4, <1>a DEF GetTaskMm, CallerOK, TaskPcs
  <2>1. CASE mm[f.task] # NULL
    <3> DEFINE g == [f EXCEPT !.mm = mm[f.task]]
    <3>1. Go(c, "vm", g) /\ UNCHANGED waits
      BY <1>4, <2>1 DEF GetTaskMm, f
    <3>2. g.op = f.op /\ g.task = f.task /\ g.seen = f.seen
      BY <1>a DEF Frame
    <3> HIDE DEF g
    <3>3. WalkOK(c, "vm", g)
      <4>1. Seen(g) = Seen(f)
        BY Zenon, <3>2 DEF Seen
      <4> QED BY Zenon, <1>a, <2>0, <3>2, <4>1 DEF WalkOK
    <3> QED
      BY Zenon, <2>0, <3>1, <3>3, WalkLocal
  <2>2. CASE mm[f.task] = NULL /\ Go(c, "next", f) /\ f.op = "tamalloc" /\ UNCHANGED waits
    <3>1. f.task \notin stay[c]
      BY <1>b, <2>2
    <3>2. \A u \in stay[c] : born[u] >= born[f.task] => born[u] > born[f.task]
      <4>1. born[f.task] > 0 /\ born[f.task] \in Nat
        BY Zenon, <1>a, <1>b, <2>0, <2>2 DEF WalkOK
      <4> QED BY <1>b, <1>d, <2>0, <3>1, <4>1
    <3>3. \A x \in Seen(f) : born[x] < born[f.task] => born[x] <= born[f.task]
      BY <1>b, <1>c, <2>0
    <3>4. WalkOK(c, "next", f)
      BY Zenon, <1>a, <2>0, <2>2, <3>2, <3>3 DEF WalkOK
    <3> QED
      BY Zenon, <2>0, <2>2, <3>4, WalkLocal
  <2>3. CASE RcuUnlock(c) /\ Return(c, f, EINVAL)
    BY Zenon, <2>0, <2>3, WalkReturn DEF RcuUnlock
  <2> QED
    BY <1>4, <2>1, <2>2, <2>3 DEF GetTaskMm, f
<1>5. CASE ReadVm(c)
  <2> DEFINE v == f.vm + Convert(f, total_vm[f.mm])
             g == [f EXCEPT !.vm = v]
  <2>1. pc[c] = "vm" /\ Go(c, "rss", g) /\ UNCHANGED <<taskVars, listVars, rcuVars, stay>>
    BY <1>5 DEF ReadVm, f
  <2>2. g.op = f.op /\ g.task = f.task /\ g.seen = f.seen
    BY <1>a DEF Frame
  <2> HIDE DEF g
  <2>3. WalkOK(c, "rss", g)
    <3>1. Seen(g) = Seen(f) /\ WalkOK(c, "vm", f)
      BY Zenon, <1>a, <2>1, <2>2 DEF Seen
    <3> QED
      BY Zenon, <2>2, <3>1 DEF WalkOK
  <2> QED
    BY Zenon, <2>1, <2>3, WalkLocal DEF taskVars, rcuVars
<1>6. CASE ReadRss(c)
  <2> DEFINE r == f.rss + Convert(f, rss[f.mm])
             q == IF f.vm > 0 THEN (r * 100) \div f.vm ELSE 0
             g == [f EXCEPT !.rss = r, !.percent = q]
             h == [f EXCEPT !.rss = r, !.seen = Append(@, f.task)]
  <2>1. /\ pc[c] = "rss" /\ UNCHANGED <<taskVars, listVars, rcuVars, stay>>
        /\ IF f.op = "stats" THEN Go(c, "oom", g) ELSE Go(c, "put", h)
    BY <1>6 DEF ReadRss, f
  <2>2. g.op = f.op
    BY <1>a DEF Frame
  <2>3. h.op = f.op /\ h.task = f.task /\ h.seen = Append(f.seen, f.task)
    BY <1>a DEF Frame
  <2> HIDE DEF g, h
  <2>4. CASE f.op = "stats"
    <3>1. WalkOK(c, "oom", g)
      BY <2>2, <2>4 DEF WalkOK
    <3> QED
      BY Zenon, <2>1, <2>4, <3>1, WalkLocal DEF taskVars, rcuVars
  <2>5. CASE f.op # "stats"
    <3>1. f.task \in Task /\ f.op = "tamalloc" /\ f.seen \in Seq(Task)
      BY Zenon, <1>a, <2>1, <2>5 DEF CallerOK, TaskPcs, Frame
    <3>2. /\ born[f.task] > 0 /\ \A x \in Seen(f) : born[x] > 0 /\ born[x] < born[f.task]
          /\ \A u \in stay[c] : u \in Seen(f) \/ born[u] >= born[f.task]
          /\ \A i, j \in DOMAIN f.seen : f.seen[i] = f.seen[j] => i = j
      BY Zenon, <1>a, <2>1, <3>1 DEF WalkOK
    <3>a. /\ DOMAIN h.seen = 1..(Len(f.seen) + 1) /\ DOMAIN f.seen = 1..Len(f.seen)
          /\ \A i \in 1..Len(f.seen) : h.seen[i] = f.seen[i]
          /\ h.seen[Len(f.seen) + 1] = f.task /\ Len(f.seen) \in Nat
      BY <2>3, <3>1, AppendFacts
    <3>3. Seen(h) = Seen(f) \cup {f.task}
      BY <2>3, <3>1, ExtendedRange
    <3>4. f.task \notin Seen(f)
      BY <1>b, <1>c, <3>1, <3>2
    <3>5. \A i, j \in DOMAIN h.seen : h.seen[i] = h.seen[j] => i = j
      <4>1. f.task \notin {f.seen[i] : i \in DOMAIN f.seen}
        BY <3>4, Zenon DEF Seen
      <4> QED
        BY Zenon, <3>2, <3>a, <4>1, ExtendedDistinct
    <3>6. \A u \in stay[c] : u \in Seen(h) \/ born[u] > born[h.task]
      <4>1. \A u \in stay[c] : u \in Task /\ born[u] \in Nat
        BY <1>b
      <4> QED
        BY <1>b, <1>d, <2>3, <3>1, <3>2, <3>3, <4>1
    <3>7. \A x \in Seen(h) : born[x] > 0 /\ born[x] <= born[h.task]
      BY <1>b, <1>c, <2>3, <3>1, <3>2, <3>3
    <3>8. WalkOK(c, "put", h)
      BY Zenon, <2>3, <3>1, <3>2, <3>5, <3>6, <3>7 DEF WalkOK
    <3> QED
      BY Zenon, <2>1, <2>5, <3>8, WalkLocal DEF taskVars, rcuVars
  <2> QED
    BY <2>4, <2>5
<1>7. CASE ReadOom(c)
  <2> DEFINE g == [f EXCEPT !.oom = GroupLeader[f.task]]
  <2>1. pc[c] = "oom" /\ Go(c, "put", g) /\ UNCHANGED <<taskVars, listVars, rcuVars, stay>>
    BY <1>7 DEF ReadOom, f
  <2>2. g.op = f.op /\ f.op = "stats"
    BY <1>a, <2>1 DEF Frame, CallerOK
  <2> HIDE DEF g
  <2>3. WalkOK(c, "put", g)
    BY Zenon, <2>2 DEF WalkOK
  <2> QED
    BY Zenon, <2>1, <2>3, WalkLocal DEF taskVars, rcuVars
<1>8. CASE Mmput(c)
  <2> DEFINE g == [f EXCEPT !.mm = NULL]
  <2>1. /\ pc[c] = "put" /\ UNCHANGED <<life, mm, listVars, rcuVars, stay>>
        /\ Go(c, IF f.op = "stats" THEN "unlock" ELSE "next", g)
    BY <1>8 DEF Mmput, f
  <2>2. g.op = f.op /\ g.task = f.task /\ g.seen = f.seen
    BY <1>a DEF Frame
  <2> HIDE DEF g
  <2>3. WalkOK(c, "next", g) /\ (f.op = "stats" => WalkOK(c, "unlock", g))
    <3>1. Seen(g) = Seen(f) /\ WalkOK(c, "put", f)
      BY Zenon, <1>a, <2>1, <2>2 DEF Seen
    <3> QED
      BY Zenon, <2>2, <3>1 DEF WalkOK
  <2> QED
    BY <2>1, <2>3, WalkLocal DEF rcuVars
<1>9. CASE Finish(c)
  <2>1. RcuUnlock(c) /\ UNCHANGED <<life, mm, listVars, stay>> /\ \E r : Return(c, f, r)
    BY Zenon, <1>9 DEF Finish, taskVars, f
  <2> QED
    BY Zenon, <2>1, WalkReturn DEF RcuUnlock
<1> QED
  BY <1>1, <1>2, <1>3, <1>4, <1>5, <1>6, <1>7, <1>8, <1>9 DEF Step

\* So does entering a call: the walk starts with nothing seen.
LEMMA WalkCall == ASSUME RcuInv, WalkInv, NEW c \in Caller, Call(c) PROVE WalkInv'
<1>1. CASE TamallocCall(c)
  <2> DEFINE g == [NoCall EXCEPT !.op = "tamalloc"]
  <2>1. g.seen = <<>>
    BY DEF NoCall
  <2>2. /\ pc[c] = "idle" /\ Go(c, "find", g)
        /\ stay' = [stay EXCEPT ![c] = {t \in listed : mm[t] # NULL}]
        /\ UNCHANGED <<taskVars, sizeVars, listVars, rcuVars>>
    BY <1>1 DEF TamallocCall
  <2> HIDE DEF g
  <2>3. \A d \in Caller : stay'[d] = IF d = c THEN {t \in listed : mm[t] # NULL} ELSE stay[d]
    BY Zenon, <2>2 DEF RcuInv, TypeOK
  <2>4. \A t \in Task : c \notin waits[t] /\ waits[t] \subseteq Caller
    BY Zenon, <2>2 DEF RcuInv, RcuOK, InSection
  <2>5. OrderOK'
    <3>1. UNCHANGED <<life, mm, listed, born, clock, gone_next, waits>>
      BY <2>2 DEF listVars, rcuVars, taskVars
    <3>2. BornOK' /\ ListedBorn' /\ DistinctBirths' /\ NextLater'
      BY Zenon, <3>1 DEF WalkInv, OrderOK, BornOK, ListedBorn, DistinctBirths, NextLater
    <3>3. StayListed'
      BY Zenon, <2>3, <3>1 DEF WalkInv, OrderOK, StayListed
    <3>4. \A t \in Task : \A d \in waits[t] : stay'[d] = stay[d]
      BY Zenon, <2>3, <2>4
    <3>5. WaitsReach'
      BY Zenon, <3>1, <3>4 DEF WalkInv, OrderOK, WaitsReach
    <3> QED
      BY <3>2, <3>3, <3>5 DEF OrderOK
  <2>6. \A d \in Caller : pc'[d] = (IF d = c THEN "find" ELSE pc[d])
                          /\ frame'[d] = IF d = c THEN g ELSE frame[d]
    BY Zenon, <2>2 DEF Go, RcuInv, TypeOK
  <2>7. WalkOK(c, pc[c], frame[c])'
    <3>1. frame'[c] = g /\ pc'[c] = "find" /\ Seen(g) = {} /\ DOMAIN g.seen = {}
      BY <2>1, <2>6 DEF Seen
    <3>2. Seen(frame[c])' = {}
      BY <3>1 DEF Seen
    <3> QED
      BY Zenon, <2>1, <3>1, <3>2 DEF WalkOK
  <2>8. ASSUME NEW d \in Caller, d # c PROVE WalkOK(d, pc[d], frame[d])'
    <3>1. pc'[d] = pc[d] /\ frame'[d] = frame[d] /\ stay'[d] = stay[d] /\ born' = born
      BY Zenon, <2>2, <2>3, <2>6, <2>8 DEF listVars
    <3>2. WalkOK(d, pc[d], frame[d])
      BY Zenon DEF WalkInv
    <3>3. Seen(frame[d])' = Seen(frame[d])
      BY <3>1 DEF Seen
    <3> QED
      BY Zenon, <3>1, <3>2, <3>3 DEF WalkOK
  <2> QED
    BY Zenon, <2>5, <2>7, <2>8 DEF WalkInv
<1>2. ASSUME NEW p \in Pid, StatsCall(c, p) PROVE WalkInv'
  <2> DEFINE f == [NoCall EXCEPT !.op = "stats", !.task = pid_task[p]]
  <2>1. /\ UNCHANGED <<taskVars, sizeVars, listVars, rcuVars, stay>>
        /\ Return(c, f, ESRCH) \/ Go(c, "getmm", f)
    BY <1>2 DEF StatsCall
  <2>2. f.op = "stats"
    BY DEF NoCall
  <2> HIDE DEF f
  <2>3. WalkOK(c, "getmm", f)
    BY <2>2 DEF WalkOK
  <2> QED
    BY Zenon, <2>1, <2>3, WalkLocal, WalkReturn DEF taskVars, rcuVars
<1> QED
  BY <1>1, <1>2 DEF Call

\* What a process does leaves the order of the walked entries alone.
LEMMA WalkFrame ==
  ASSUME RcuInv, WalkInv, UNCHANGED <<pc, frame>>,
         \A t \in Task : born[t] > 0 => born'[t] = born[t],
         \A c \in Caller : stay'[c] \subseteq stay[c]
  PROVE  \A c \in Caller : WalkOK(c, pc[c], frame[c])'
<1> SUFFICES ASSUME NEW c \in Caller PROVE WalkOK(c, pc[c], frame[c])'
  OBVIOUS
<1>1. /\ frame[c] \in Frame /\ CallerOK(pc[c], frame[c]) /\ WalkOK(c, pc[c], frame[c])
      /\ pc'[c] = pc[c] /\ frame'[c] = frame[c]
  <2>1. CallerOK(pc[c], frame[c]) /\ WalkOK(c, pc[c], frame[c])
    BY DEF RcuInv, WalkInv
  <2>2. frame[c] \in Frame
    BY Zenon, <2>1 DEF CallerOK
  <2> QED
    BY Zenon, <2>1, <2>2
<1>2. \A x \in Seen(frame[c]) : x \in Task
  BY <1>1 DEF Seen, Frame
<1>3. \A u \in stay[c] : u \in Task /\ born[u] > 0
  BY Zenon DEF WalkInv, OrderOK, StayListed, ListedBorn, RcuInv, TypeOK
<1>4. pc[c] \in TaskPcs => frame[c].task \in Task
  BY Zenon, <1>1 DEF CallerOK
<1>5. Seen(frame[c])' = Seen(frame[c])
  BY Zenon, <1>1 DEF Seen
<1>6. SUFFICES ASSUME frame[c].op = "tamalloc" PROVE WalkOK(c, pc[c], frame[c])'
  BY Zenon, <1>1 DEF WalkOK
<1>7. \A x \in Seen(frame[c]) : born[x] > 0 /\ born'[x] = born[x]
  BY Zenon, <1>1, <1>2, <1>6 DEF WalkOK
<1>8. \A u \in stay'[c] : u \in stay[c] /\ born'[u] = born[u]
  BY Zenon, <1>3
<1>9. pc[c] \in TaskPcs \ {"oom"} => born[frame[c].task] > 0 /\ born'[frame[c].task] = born[frame[c].task]
  <2>1. pc[c] \in TaskPcs \ {"oom"} => born[frame[c].task] > 0
    BY Zenon, <1>1, <1>6 DEF WalkOK, TaskPcs
  <2> QED
    BY <1>4, <2>1
<1> QED
  BY Zenon, <1>1, <1>5, <1>6, <1>7, <1>8, <1>9 DEF WalkOK, TaskPcs

\* So do the steps of the processes: fork, exit, release, free and resizing an mm.
LEMMA WalkProcess == ASSUME RcuInv, WalkInv, ProcessStep PROVE WalkInv'
<1>a. /\ life \in [Task -> {"new", "run", "zombie", "dead"}] /\ mm \in [Task -> Task \cup {NULL}]
      /\ listed \subseteq Task /\ born \in [Task -> Nat] /\ clock \in Nat
      /\ gone_next \in [Task -> Task \cup {NULL}] /\ waits \in [Task -> SUBSET Caller]
      /\ stay \in [Caller -> SUBSET Task] /\ TypeOK
  BY Zenon DEF RcuInv, TypeOK, TaskTypeOK
<1>b. NULL \notin Task
  BY TaskAssumption
<1>1. ASSUME NEW t \in Task, NEW p \in Pid, NEW m \in MmChoices(t), NewTask(t, p, m)
      PROVE  WalkInv'
  <2>1. /\ life[t] = "new" /\ life' = [life EXCEPT ![t] = "run"] /\ mm' = [mm EXCEPT ![t] = m]
        /\ UNCHANGED <<gone_next, waits, stay, pc, frame>>
    BY Zenon, <1>1 DEF NewTask, Clone, rcuVars
  <2>2. born[t] = 0 /\ t \notin listed /\ gone_next[t] = NULL /\ waits[t] = {}
    BY Zenon, <1>a, <2>1 DEF RcuInv, LifeOK, WalkInv, OrderOK, BornOK, ListedBorn
  <2>3. \A u \in Task : gone_next[u] # t
    BY Zenon, <1>b, <2>1 DEF RcuInv, LifeOK
  <2>4. \/ UNCHANGED <<listed, clock, born>>
        \/ /\ listed' = listed \cup {t} /\ clock' = clock + 1
           /\ \A u \in Task : born'[u] = IF u = t THEN clock + 1 ELSE born[u]
    BY Zenon, <1>1, <1>a DEF NewTask
  <2>5. \A c \in Caller : stay[c] \subseteq {u \in listed : mm[u] # NULL}
    BY Zenon DEF WalkInv, OrderOK, StayListed
  <2>6. \A c \in Caller : stay'[c] \subseteq {u \in listed' : mm'[u] # NULL}
    BY Zenon, <1>a, <2>1, <2>2, <2>4, <2>5
  <2>7. /\ \A u \in Task : born'[u] <= clock' /\ (life'[u] = "new" => born'[u] = 0)
        /\ \A u \in listed' : born'[u] > 0
        /\ \A u \in Task : born'[u] > 0 => u \in listed' \/ life'[u] = "dead"
    <3>0. BornOK /\ ListedBorn
      BY DEF WalkInv, OrderOK
    <3>1. \A u \in Task : life'[u] = IF u = t THEN "run" ELSE life[u]
      BY <1>a, <2>1
    <3>2. CASE UNCHANGED <<listed, clock, born>>
      <4>1. \A u \in listed' : born'[u] > 0
        BY <3>0, <3>2 DEF ListedBorn
      <4>2. ASSUME NEW u \in Task PROVE /\ born'[u] <= clock' /\ (life'[u] = "new" => born'[u] = 0)
                                        /\ born'[u] > 0 => u \in listed' \/ life'[u] = "dead"
        <5>1. CASE u = t
          BY <1>a, <2>2, <3>2, <5>1
        <5>2. CASE u # t
          BY <3>0, <3>1, <3>2, <5>2 DEF BornOK
        <5> QED
          BY Zenon, <5>1, <5>2
      <4> QED
        BY <4>1, <4>2
    <3>3. CASE /\ listed' = listed \cup {t} /\ clock' = clock + 1
               /\ \A u \in Task : born'[u] = IF u = t THEN clock + 1 ELSE born[u]
      <4>1. \A u \in Task : born[u] \in Nat /\ u \in listed' <=> u \in listed \/ u = t
        BY <1>a, <3>3
      <4>2. ASSUME NEW u \in Task PROVE /\ born'[u] <= clock' /\ (life'[u] = "new" => born'[u] = 0)
                                        /\ born'[u] > 0 => u \in listed' \/ life'[u] = "dead"
        <5>1. CASE u = t
          BY <1>a, <3>1, <3>3, <5>1
        <5>2. CASE u # t
          BY <1>a, <3>0, <3>1, <3>3, <5>2 DEF BornOK
        <5> QED
          BY Zenon, <5>1, <5>2
      <4>3. \A u \in listed' : born'[u] > 0
        BY <1>a, <3>0, <3>3 DEF ListedBorn
      <4> QED
        BY <4>2, <4>3
    <3> QED
      BY Zenon, <2>4, <3>2, <3>3
  <2>8. \A u, w \in Task : born'[u] = born'[w] /\ born'[u] > 0 => u = w
    <3>1. \A u \in Task : born[u] <= clock /\ born[u] \in Nat
      BY Zenon, <1>a DEF WalkInv, OrderOK, BornOK
    <3>2. \A u, w \in Task : born[u] = born[w] /\ born[u] > 0 => u = w
      BY Zenon DEF WalkInv, OrderOK, DistinctBirths
    <3> QED
      BY <1>a, <2>2, <2>4, <3>1, <3>2
  <2>9. \A u \in Task : gone_next'[u] # NULL => born'[gone_next'[u]] > born'[u]
    <3>1. ASSUME NEW u \in Task, gone_next[u] # NULL PROVE born'[gone_next[u]] > born'[u]
      <4>1. u # t /\ gone_next[u] # t /\ gone_next[u] \in Task /\ born[gone_next[u]] > born[u]
        BY Zenon, <1>a, <2>2, <2>3, <3>1 DEF WalkInv, OrderOK, NextLater
      <4> QED
        BY Zenon, <2>4, <4>1
    <3> QED
      BY Zenon, <2>1, <3>1
  <2>10. \A w \in Task : \A c \in waits'[w] : \A u \in stay'[c] :
           born'[w] > 0 /\ born'[u] > born'[w] =>
             gone_next'[w] # NULL /\ born'[gone_next'[w]] <= born'[u]
    <3>1. \A c \in Caller : \A u \in stay[c] : u \in Task /\ u # t
      BY <1>a, <2>2, <2>5
    <3>2. \A w \in Task : \A c \in waits[w] : c \in Caller /\ w # t
      BY <1>a, <2>2
    <3>3. \A u \in Task : u # t => born'[u] = born[u]
      BY <2>4
    <3> QED
      <4> SUFFICES ASSUME NEW w \in Task, NEW c \in waits[w], NEW u \in stay[c],
                          born'[w] > 0, born'[u] > born'[w]
                   PROVE  gone_next[w] # NULL /\ born'[gone_next[w]] <= born'[u]
        BY Zenon, <2>1
      <4>1. c \in Caller /\ w # t /\ u \in Task /\ u # t
        BY <3>1, <3>2
      <4>2. born'[w] = born[w] /\ born'[u] = born[u]
        BY <3>3, <4>1
      <4>3. gone_next[w] # NULL /\ born[gone_next[w]] <= born[u]
        BY Zenon, <4>2 DEF WalkInv, OrderOK, WaitsReach
      <4>4. gone_next[w] \in Task /\ gone_next[w] # t
        BY <1>a, <2>3, <4>3
      <4> QED
        BY Zenon, <3>3, <4>2, <4>3, <4>4
  <2>11. OrderOK'
    <3>1. BornOK' /\ ListedBorn'
      BY Zenon, <2>7 DEF BornOK, ListedBorn
    <3>2. DistinctBirths' /\ NextLater'
      BY <2>8, <2>9 DEF DistinctBirths, NextLater
    <3>3. StayListed' /\ WaitsReach'
      BY Zenon, <2>6, <2>10 DEF StayListed, WaitsReach
    <3> QED
      BY <3>1, <3>2, <3>3 DEF OrderOK
  <2> QED
    BY <2>1, <2>2, <2>4, <2>11, WalkFrame DEF WalkInv
<1>2. ASSUME NEW t \in Task, ExitTask(t) PROVE WalkInv'
  <2>1. /\ life[t] = "run" /\ life' = [life EXCEPT ![t] = "zombie"] /\ mm' = [mm EXCEPT ![t] = NULL]
        /\ stay' = [c \in Caller |-> stay[c] \ {t}] /\ UNCHANGED <<listVars, waits, pc, frame>>
    BY <1>2 DEF ExitTask, Exit, rcuVars
  <2>2. OrderOK'
    <3>1. UNCHANGED <<listed, born, clock, gone_next, waits>>
      BY <2>1 DEF listVars
    <3>2. \A c \in Caller : stay'[c] = stay[c] \ {t}
      BY <2>1
    <3>3. \A c \in Caller : stay'[c] \subseteq {u \in listed' : mm'[u] # NULL}
      BY Zenon, <1>a, <2>1, <3>1, <3>2 DEF WalkInv, OrderOK, StayListed
    <3>4. \A u \in Task : (life'[u] = "new" => life[u] = "new") /\ (life[u] = "dead" => life'[u] = "dead")
      BY <1>a, <2>1
    <3>5. \A w \in Task : \A c \in waits[w] : c \in Caller /\ stay'[c] \subseteq stay[c]
      BY <1>a, <3>2
    <3> QED
      BY Zenon, <3>1, <3>3, <3>4, <3>5 DEF WalkInv, OrderOK, BornOK, ListedBorn, DistinctBirths, NextLater,
         StayListed, WaitsReach
  <2>3. \A c \in Caller : stay'[c] \subseteq stay[c]
    BY Zenon, <2>1
  <2> QED
    BY Zenon, <2>1, <2>2, <2>3, WalkFrame DEF WalkInv, listVars
<1>3. ASSUME NEW t \in Task, ReleaseTask(t) PROVE WalkInv'
  <2>1. /\ life[t] = "zombie" /\ life' = [life EXCEPT ![t] = "dead"]
        /\ UNCHANGED <<mm, born, clock, stay, pc, frame>>
        /\ listed' = listed \ {t} /\ gone_next' = [gone_next EXCEPT ![t] = NextTask(t)]
        /\ waits' = [waits EXCEPT ![t] = InSection]
    BY Zenon, <1>3 DEF ReleaseTask, Release
  <2>2. mm[t] = NULL /\ gone_next[t] = NULL /\ \A c \in Caller : t \notin stay[c]
    BY Zenon, <1>a, <2>1 DEF RcuInv, LifeOK, WalkInv, OrderOK, StayListed
  <2> DEFINE S == {u \in listed : born[u] > born[t]}
  <2>3. t \in listed => NextTask(t) = Oldest(S)
    BY DEF NextTask
  <2>4. t \notin listed => NextTask(t) = NULL /\ born[t] = 0
    <3>1. BornOK /\ life[t] # "dead"
      BY <2>1 DEF WalkInv, OrderOK
    <3>2. t \notin listed => born[t] = 0
      BY <1>a, <3>1 DEF BornOK
    <3>3. t \notin listed => NextTask(t) = NULL
      BY <2>2 DEF NextTask
    <3> QED
      BY <3>2, <3>3
  <2>5. /\ S = {} => Oldest(S) = NULL
        /\ S # {} => Oldest(S) \in S /\ \A u \in S : born[Oldest(S)] <= born[u]
    <3>1. S \in SUBSET Task
      BY <1>a
    <3> HIDE DEF S
    <3> QED
      BY <1>a, <3>1, OldestProp
  <2>6. NextTask(t) # NULL => born[NextTask(t)] > born[t]
    BY <2>3, <2>4, <2>5
  <2>7. \A c \in Caller : \A u \in stay[c] : born[t] > 0 /\ born[u] > born[t] =>
          NextTask(t) # NULL /\ born[NextTask(t)] <= born[u]
    <3>1. \A c \in Caller : stay[c] \subseteq listed
      BY DEF WalkInv, OrderOK, StayListed
    <3>2. \A c \in Caller : \A u \in stay[c] : born[u] > born[t] => u \in S
      BY <3>1
    <3>3. S # {} => Oldest(S) # NULL
      BY <1>a, <1>b, <2>5
    <3> QED
      BY <2>3, <2>4, <2>5, <3>2, <3>3
  <2> HIDE DEF S
  <2>8. \A u \in Task : gone_next'[u] = (IF u = t THEN NextTask(t) ELSE gone_next[u])
                       /\ waits'[u] = (IF u = t THEN InSection ELSE waits[u])
                       /\ life'[u] = IF u = t THEN "dead" ELSE life[u]
    BY Zenon, <1>a, <2>1
  <2>9. InSection \subseteq Caller
    BY DEF InSection
  <2>10. OrderOK'
    <3>1. \A u \in Task : /\ born'[u] <= clock' /\ (life'[u] = "new" => born'[u] = 0)
                          /\ born'[u] > 0 => u \in listed' \/ life'[u] = "dead"
      <4>0. BornOK
        BY Zenon DEF WalkInv, OrderOK
      <4> TAKE u \in Task
      <4>1. CASE u = t
        BY <1>a, <2>1, <2>8, <4>0, <4>1 DEF BornOK
      <4>2. CASE u # t
        BY <2>1, <2>8, <4>0, <4>2 DEF BornOK
      <4> QED
        BY <4>1, <4>2
    <3>2. \A u \in Task : gone_next'[u] # NULL => born'[gone_next'[u]] > born'[u]
      BY <2>1, <2>6, <2>8 DEF WalkInv, OrderOK, NextLater
    <3>3. \A c \in Caller : stay'[c] \subseteq {u \in listed' : mm'[u] # NULL}
      BY Zenon, <2>1, <2>2 DEF WalkInv, OrderOK, StayListed
    <3>4. ASSUME NEW v \in Task, NEW c \in waits'[v], NEW u \in stay'[c], born'[v] > 0, born'[u] > born'[v]
          PROVE  gone_next'[v] # NULL /\ born'[gone_next'[v]] <= born'[u]
      <4>1. CASE v = t
        <5>1. c \in Caller /\ u \in stay[c] /\ gone_next'[v] = NextTask(t) /\ born' = born
          BY Zenon, <2>1, <2>8, <2>9, <3>4, <4>1
        <5> QED
          BY Zenon, <2>7, <3>4, <4>1, <5>1
      <4>2. CASE v # t
        BY Zenon, <2>1, <2>8, <3>4, <4>2 DEF WalkInv, OrderOK, WaitsReach
      <4> QED BY <4>1, <4>2
    <3> QED BY Zenon, <2>1, <3>1, <3>2, <3>3, <3>4 DEF WalkInv, OrderOK, BornOK, ListedBorn, DistinctBirths,
               NextLater, StayListed, WaitsReach
  <2> QED
    BY Zenon, <2>1, <2>10, WalkFrame DEF WalkInv
<1>4. ASSUME UNCHANGED <<life, mm, listVars, waits, stay, pc, frame>> PROVE WalkInv'
  <2>1. OrderOK'
    BY Zenon, <1>4 DEF WalkInv, OrderOK, BornOK, ListedBorn, DistinctBirths, NextLater, StayListed, WaitsReach,
       listVars
  <2> QED
    BY Zenon, <1>4, <2>1, WalkFrame DEF WalkInv, listVars
<1> QED
  BY Zenon, <1>1, <1>2, <1>3, <1>4 DEF ProcessStep, FreeTask, ResizeMm, taskVars, rcuVars

\* No walk is in progress at first.
LEMMA WalkInit == Init => WalkInv
<1> SUFFICES ASSUME Init PROVE WalkInv
  OBVIOUS
<1>1. OrderOK
  BY DEF Init, TaskInit, OrderOK, BornOK, ListedBorn, DistinctBirths, NextLater, StayListed, WaitsReach
<1>2. \A c \in Caller : frame[c].op = "none"
  BY Zenon DEF Init, NoCall
<1> QED
  BY Zenon, <1>1, <1>2 DEF WalkInv, WalkOK

\* The invariant of the walks is inductive, given that of the task records.
LEMMA WalkPreserved == RcuInv /\ WalkInv /\ [Next]_vars => WalkInv'
<1> SUFFICES ASSUME RcuInv, WalkInv, [Next]_vars PROVE WalkInv'
  OBVIOUS
<1>1. CASE UNCHANGED vars
  <2>1. UNCHANGED <<life, mm, listVars, waits, stay, pc, frame>>
    BY <1>1 DEF vars, taskVars, rcuVars
  <2>2. OrderOK'
    BY Zenon, <2>1 DEF WalkInv, OrderOK, BornOK, ListedBorn, DistinctBirths, NextLater, StayListed, WaitsReach,
       listVars
  <2> QED
    BY Zenon, <2>1, <2>2, WalkFrame DEF WalkInv, listVars
<1> QED
  BY <1>1, WalkStep, WalkCall, WalkProcess DEF Next

\* tamalloc's totals rest on every process that had memory from the start of
\* its for_each_process walk to the end, each of them once, for any number of
\* callers and of processes that start, exit and are reaped meanwhile.
THEOREM WalkIsComplete == Spec => []WalkComplete
<1>1. WalkInv => WalkComplete
  BY Zenon DEF WalkInv, WalkOK, WalkComplete, Seen
<1> QED
  BY <1>1, WalkInit, WalkPreserved, SpecInv, PTL DEF Spec

=============================================================================
