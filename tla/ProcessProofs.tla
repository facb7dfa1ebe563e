---------------------------- MODULE ProcessProofs ----------------------------
(***************************************************************************)
(* Proofs about ProcessGroups, Priorities, ResourceLimits and KernelStart, *)
(* for any processes, threads, users, limits, levels of initcalls and      *)
(* asynchronous calls.                                                     *)
(*                                                                         *)
(* SessionTree is not inductive: setpgid lets a process return to the      *)
(* group of its own number without looking at the members of that group.   *)
(* SessionInv adds what the reuse of pid numbers guarantees: a group or a  *)
(* session that has the number of a living process belongs to it.          *)
(*                                                                         *)
(* LimitInv adds to the types what a call knows between its steps: the     *)
(* section of do_prlimit() under task_lock() belongs to one thread for     *)
(* each process, and what has been checked in it stays true until the new  *)
(* limit is written.                                                       *)
(*                                                                         *)
(* StartInv says what the boot thread has done for the others at each of   *)
(* its places (ThreadInv) and how far the initcalls are (CallsInv);        *)
(* OrderInv says which functions have been called.                         *)
(***************************************************************************)
EXTENDS Priorities, ResourceLimits, KernelStart, TLAPS

\* The time that a leaf may take.
USE ZenonT(10), SMTT(20)

\* A process among groups and sessions.
Placed(p) == /\ pgrp[p] \in Pid /\ session[p] \in Pid
             /\ leader[p] <=> session[p] = p
             /\ leader[p] => pgrp[p] = p
             /\ tty[p] \in {0, session[p]}

\* Two processes.
Paired(p, q) == /\ pgrp[p] = pgrp[q] => session[p] = session[q]
                /\ pgrp[q] = p => session[q] = session[p]
                /\ session[q] = p => session[p] = p

SessionInv == /\ GroupTypeOK
              /\ \A p \in Attached : Placed(p)
              /\ \A p, q \in Attached : Paired(p, q)

-----------------------------------------------------------------------------
LEMMA SessionInit == Init => SessionInv
<1> SUFFICES ASSUME Init PROVE SessionInv
  OBVIOUS
<1> USE GroupAssumption
<1>1. GroupTypeOK
  BY DEF Init, GroupInit, GroupTypeOK
<1>2. Attached = {InitPid} /\ InitPid \in Pid
  BY DEF Init, GroupInit, Attached
<1>3. pgrp[InitPid] = InitPid /\ session[InitPid] = InitPid /\ leader[InitPid] /\ tty[InitPid] = InitPid
  BY DEF Init, GroupInit
<1> QED BY <1>1, <1>2, <1>3 DEF SessionInv, Placed, Paired

LEMMA SetpgidInv ==
  ASSUME SessionInv, NEW c \in Pid, NEW pid \in PidArg, NEW pgid \in PidArg, Setpgid(c, pid, pgid)
  PROVE  SessionInv'
<1> DEFINE p == IF pid = 0 THEN c ELSE pid
           g == IF pgid = 0 THEN p ELSE pgid
<1> USE GroupAssumption
<1>1. PICK other \in IF GroupMembers(g) = {} THEN {0} ELSE GroupMembers(g) : MaySetpgid(c, p, g, other)
  BY DEF Setpgid
<1>2. /\ pgrp' = [pgrp EXCEPT ![p] = g] /\ c \in Attached
      /\ UNCHANGED <<life, parent, session, leader, noexec, tty, readers>>
  BY DEF Setpgid, Attached
<1> HIDE DEF g, p
<1>3. p \in Attached /\ ~ leader[p] /\ session[p] = session[c]
  BY <1>1 DEF MaySetpgid
<1>4. g = p \/ (other \in Attached /\ pgrp[other] = g /\ session[other] = session[p])
  BY <1>1, <1>3 DEF MaySetpgid, GroupMembers
<1>5. p \in Pid /\ g \in Pid /\ Attached' = Attached
  BY <1>2, <1>3, <1>4 DEF SessionInv, Placed, Attached
<1>6. pgrp'[p] = g /\ \A q \in Attached \ {p} : pgrp'[q] = pgrp[q]
  BY <1>2, <1>5 DEF SessionInv, GroupTypeOK, Attached
<1>7. GroupTypeOK'
  BY <1>2, <1>5 DEF SessionInv, GroupTypeOK
<1>8. \A q \in Attached : pgrp[q] = g => session[q] = session[p]
  BY <1>3, <1>4 DEF SessionInv, Paired
<1>9. g \in Attached => session[g] = session[p]
  BY <1>3, <1>4 DEF SessionInv, Paired
<1>10. ASSUME NEW q \in Attached PROVE Placed(q)'
  BY <1>2, <1>3, <1>5, <1>6 DEF SessionInv, Placed
<1>11. ASSUME NEW q \in Attached, NEW r \in Attached PROVE Paired(q, r)'
  BY <1>2, <1>3, <1>6, <1>8, <1>9 DEF SessionInv, Paired
<1> QED BY <1>5, <1>7, <1>10, <1>11 DEF SessionInv

LEMMA SetsidInv ==
  ASSUME SessionInv, NEW c \in Pid, Setsid(c)
  PROVE  SessionInv'
<1> USE GroupAssumption
<1>1. c \in Attached /\ Attached' = Attached /\ ~ leader[c] /\ \A q \in Attached : pgrp[q] # c
  BY DEF Setsid, MaySetsid, GroupMembers, Attached
<1>2. /\ session'[c] = c /\ pgrp'[c] = c /\ leader'[c] /\ tty'[c] = 0
      /\ \A q \in Attached \ {c} : session'[q] = session[q] /\ pgrp'[q] = pgrp[q] /\ (leader'[q] <=> leader[q])
         /\ tty'[q] = tty[q]
  BY DEF Setsid, SetSpecialPids, ProcClearTty, SessionInv, GroupTypeOK, Attached
<1>3. GroupTypeOK'
  BY DEF Setsid, SetSpecialPids, ProcClearTty, SessionInv, GroupTypeOK
<1>4. \A q \in Attached : session[q] # c
  BY <1>1 DEF SessionInv, Placed, Paired
<1>5. ASSUME NEW p \in Attached PROVE Placed(p)'
  BY <1>2 DEF SessionInv, Placed
<1>6. ASSUME NEW p \in Attached, NEW q \in Attached PROVE Paired(p, q)'
  BY <1>1, <1>2, <1>4 DEF SessionInv, Paired
<1> QED BY <1>1, <1>3, <1>5, <1>6 DEF SessionInv

LEMMA ForkInv ==
  ASSUME SessionInv, NEW c \in Pid, NEW q \in Pid, Fork(c, q)
  PROVE  SessionInv'
<1> USE GroupAssumption
<1>1. /\ c \in Attached /\ q \notin Attached /\ c # q
      /\ \A p \in Attached : pgrp[p] # q /\ session[p] # q
  BY DEF Fork, InUse, Attached
<1>2. Attached' = Attached \cup {q}
  BY DEF Fork, SessionInv, GroupTypeOK, Attached
<1>3. /\ session'[q] = session[c] /\ pgrp'[q] = pgrp[c] /\ ~ leader'[q] /\ tty'[q] = tty[c]
      /\ \A p \in Pid \ {q} : session'[p] = session[p] /\ pgrp'[p] = pgrp[p] /\ (leader'[p] <=> leader[p])
         /\ tty'[p] = tty[p]
  BY DEF Fork, SessionInv, GroupTypeOK
<1>4. GroupTypeOK'
  BY DEF Fork, SessionInv, GroupTypeOK
<1>5. Attached \subseteq Pid
  BY DEF Attached
<1>6. ASSUME NEW p \in Attached' PROVE Placed(p)'
  <2>1. CASE p = q
    BY <1>1, <1>3, <2>1 DEF SessionInv, Placed
  <2>2. CASE p # q
    BY <1>2, <1>3, <1>5, <1>6, <2>2 DEF SessionInv, Placed
  <2> QED BY <2>1, <2>2
<1>7. ASSUME NEW p \in Attached', NEW r \in Attached' PROVE Paired(p, r)'
  <2> DEFINE Old(x) == IF x = q THEN c ELSE x
  <2>1. \A x \in Attached' : /\ Old(x) \in Attached /\ session'[x] = session[Old(x)] /\ pgrp'[x] = pgrp[Old(x)]
                             /\ pgrp'[x] # q /\ session'[x] # q /\ (x # q => Old(x) = x)
    BY <1>1, <1>2, <1>3, <1>5
  <2> HIDE DEF Old
  <2>2. Paired(Old(p), Old(r))
    BY <1>7, <2>1 DEF SessionInv
  <2>3. /\ session'[p] = session[Old(p)] /\ pgrp'[p] = pgrp[Old(p)] /\ (p # q => Old(p) = p)
        /\ session'[r] = session[Old(r)] /\ pgrp'[r] = pgrp[Old(r)] /\ pgrp'[r] # q /\ session'[r] # q
    BY <1>7, <2>1
  <2> QED BY <2>2, <2>3 DEF Paired
<1> QED BY <1>4, <1>6, <1>7 DEF SessionInv

LEMMA ReapInv ==
  ASSUME SessionInv, NEW q \in Pid, Reap(q)
  PROVE  SessionInv'
<1>1. Attached' = Attached \ {q} /\ Attached \subseteq Pid
  BY DEF Reap, SessionInv, GroupTypeOK, Attached
<1>2. \A p \in Pid \ {q} : session'[p] = session[p] /\ pgrp'[p] = pgrp[p] /\ (leader'[p] <=> leader[p])
      /\ tty'[p] = tty[p]
  BY DEF Reap, SessionInv, GroupTypeOK
<1>3. GroupTypeOK'
  BY DEF Reap, SessionInv, GroupTypeOK
<1>4. ASSUME NEW p \in Attached' PROVE Placed(p)'
  BY <1>1, <1>2, <1>4 DEF SessionInv, Placed
<1>5. ASSUME NEW p \in Attached', NEW r \in Attached' PROVE Paired(p, r)'
  BY <1>1, <1>2, <1>5 DEF SessionInv, Paired
<1> QED BY <1>3, <1>4, <1>5 DEF SessionInv

LEMMA LifeInv ==
  ASSUME SessionInv, NEW c \in Pid, Execve(c) \/ Exit(c) \/ OpenTty(c)
  PROVE  SessionInv'
<1> USE GroupAssumption
<1>0. GroupTypeOK
  BY DEF SessionInv
<1>1. UNCHANGED <<pgrp, session, leader>> /\ Attached' = Attached /\ Attached \subseteq Pid
  <2>1. UNCHANGED <<pgrp, session, leader>>
    BY DEF Execve, Exit, OpenTty
  <2>2. \A p \in Pid : life'[p] # "free" <=> life[p] # "free"
    BY <1>0 DEF Execve, Exit, OpenTty, GroupTypeOK
  <2> QED BY <2>1, <2>2 DEF Attached
<1>2. GroupTypeOK'
  <2>1. CASE Execve(c)
    BY <1>0, <2>1 DEF Execve, GroupTypeOK
  <2>2. CASE Exit(c)
    BY <1>0, <2>2 DEF Exit, GroupTypeOK
  <2>3. CASE OpenTty(c)
    BY <1>0, <2>3 DEF OpenTty, GroupTypeOK
  <2> QED BY <2>1, <2>2, <2>3
<1>3. \A p \in Attached : tty'[p] \in {0, session[p]}
  <2>1. CASE Execve(c)
    BY <2>1 DEF Execve, SessionInv, Placed
  <2>2. CASE Exit(c)
    BY <1>1, <2>2 DEF Exit, SessionInv, Placed
  <2>3. CASE OpenTty(c)
    <3>1. session[c] = c
      BY <2>3 DEF OpenTty, SessionInv, Placed, Attached
    <3> QED BY <1>1, <2>3, <3>1 DEF OpenTty, SessionInv, Placed, GroupTypeOK
  <2> QED BY <2>1, <2>2, <2>3
<1>4. (\A p \in Attached : Placed(p)') /\ (\A p, q \in Attached : Paired(p, q)')
  BY <1>1, <1>3 DEF SessionInv, Placed, Paired
<1> QED BY <1>1, <1>2, <1>4 DEF SessionInv

LEMMA CallsKeepSession ==
  ASSUME SessionInv, UNCHANGED groupVars, readers' \subseteq Pid
  PROVE  SessionInv'
  BY DEF groupVars, SessionInv, GroupTypeOK, Placed, Paired, Attached

LEMMA SessionNext == SessionInv /\ [Next]_vars => SessionInv'
<1> SUFFICES ASSUME SessionInv, [Next]_vars PROVE SessionInv'
  OBVIOUS
<1>0. readers \subseteq Pid /\ Caller \subseteq Pid
  BY PrioAssumption DEF SessionInv, GroupTypeOK
<1>1. CASE UNCHANGED vars
  BY <1>0, <1>1, CallsKeepSession DEF vars
<1>2. ASSUME NEW c \in Pid, GroupStep(c) PROVE SessionInv'
  BY <1>2, SetpgidInv, SetsidInv, LifeInv DEF GroupStep
<1>3. ASSUME NEW c \in Pid, NEW q \in Pid, ForkNice(c, q) PROVE SessionInv'
  BY <1>3, ForkInv DEF ForkNice
<1>4. ASSUME NEW p \in Pid, ReapNice(p) PROVE SessionInv'
  BY <1>4, ReapInv DEF ReapNice
<1>5. ASSUME NEW c \in Caller, CallStep(c) PROVE SessionInv'
  <2>1. UNCHANGED groupVars /\ readers' \subseteq Pid
    BY <1>0, <1>5 DEF CallStep, Begin, ReadLock, SetUserNice, Finish, Check, Look
  <2> QED BY <2>1, CallsKeepSession
<1> QED BY <1>1, <1>2, <1>3, <1>4, <1>5 DEF Next

LEMMA SessionInvariance == Spec => []SessionInv
  BY SessionInit, SessionNext, PTL DEF Spec

\* Groups lie within sessions, leaders name them and terminals belong to them,
\* for any number of processes that setpgid, setsid, fork and exit.
THEOREM SessionsFitTogether == Spec => []SessionTree
<1>1. SessionInv => SessionTree
  BY DEF SessionInv, Placed, Paired, SessionTree
<1> QED BY <1>1, SessionInvariance, PTL

\* Only setsid() changes the session of a process that lives on, and only to a
\* session and a group whose number nobody else has.
THEOREM SessionsAreFresh == Spec => FreshSession
<1> DEFINE Fresh(p) == session'[p] = p /\ \A q \in Attached' \ {p} : session'[q] # p /\ pgrp'[q] # p
<1>1. ASSUME SessionInv, [Next]_vars, NEW p \in Attached \cap Attached', session'[p] # session[p]
      PROVE  Fresh(p)
  <2>0. GroupTypeOK /\ p \in Pid
    BY <1>1 DEF SessionInv, Attached
  <2>1. PICK c \in Pid : Setsid(c)
    <3>1. ASSUME NEW c \in Pid, NEW q \in Pid, ForkNice(c, q) PROVE FALSE
      BY <1>1, <2>0, <3>1 DEF ForkNice, Fork, InUse, GroupTypeOK
    <3>2. ASSUME NEW q \in Pid, ReapNice(q) PROVE FALSE
      BY <1>1, <2>0, <3>2 DEF ReapNice, Reap, GroupTypeOK, Attached
    <3>3. ASSUME NEW c \in Caller, CallStep(c) PROVE FALSE
      BY <1>1, <3>3 DEF CallStep, Begin, ReadLock, SetUserNice, Finish, Check, Look, groupVars
    <3>4. ASSUME NEW c \in Pid, GroupStep(c) PROVE Setsid(c) \/ session' = session
      BY <3>4 DEF GroupStep, Setpgid, Execve, Exit, OpenTty
    <3>5. UNCHANGED vars => session' = session
      BY DEF vars, groupVars
    <3> QED BY <1>1, <3>1, <3>2, <3>3, <3>4, <3>5 DEF Next
  <2>2. c \in Attached /\ Attached' = Attached /\ ~ leader[c] /\ \A q \in Attached : pgrp[q] # c
    BY <2>1 DEF Setsid, MaySetsid, GroupMembers, Attached
  <2>3. /\ session'[c] = c
        /\ \A q \in Pid \ {c} : session'[q] = session[q] /\ pgrp'[q] = pgrp[q]
    BY <2>0, <2>1 DEF Setsid, SetSpecialPids, GroupTypeOK
  <2>4. \A q \in Attached : session[q] # c
    BY <1>1, <2>2 DEF SessionInv, Placed, Paired
  <2>5. p = c /\ Attached \subseteq Pid
    BY <1>1, <2>0, <2>3 DEF Attached
  <2> QED BY <2>2, <2>3, <2>4, <2>5
<1>2. SessionInv /\ [Next]_vars =>
        [\A p \in Attached \cap Attached' : session'[p] # session[p] =>
           /\ session'[p] = p
           /\ \A q \in Attached' \ {p} : session'[q] # p /\ pgrp'[q] # p]_<<groupVars, readers>>
  BY <1>1
<1> QED BY <1>2, SessionInvariance, PTL DEF Spec, FreshSession

-----------------------------------------------------------------------------
\* What the number in `error' says of the processes visited so far.
Told(f) ==
  /\ f.op = "set" => f.error \in IF f.miss THEN {EPERM, EACCES} ELSE IF f.hit THEN {0} ELSE {ESRCH}
  /\ f.op = "get" => IF f.hit THEN f.error \in 1..(MaxNice - MinNice + 1) ELSE f.error = ESRCH

\* What a call of c knows between two of its steps.
CallOK(c, f) ==
  /\ f.at \in {"lock", "walk", "apply"} => Told(f)
  /\ f.at = "done" => f.error = EINVAL \/ Told(f)
  /\ f.at = "apply" => f.op = "set" /\ (f.cur # 0 => Owner[c] \in {Owner[f.cur], Root})

PrioInv == /\ nice \in [Pid -> MinNice..MaxNice]
           /\ frame \in [Caller -> Frame]
           /\ \A c \in Caller : CallOK(c, frame[c])

LEMMA NoCallOK == NoCall \in Frame /\ \A c : CallOK(c, NoCall)
  BY PrioAssumption DEF NoCall, Frame, CallOK

LEMMA PrioInit == Init => PrioInv
  BY NoCallOK, PrioAssumption DEF Init, PrioInv

LEMMA PrioMove ==
  ASSUME PrioInv, NEW c \in Caller, NEW f \in Frame, CallOK(c, f), Move(c, f),
         nice' \in [Pid -> MinNice..MaxNice]
  PROVE  PrioInv'
<1>1. frame' \in [Caller -> Frame] /\ \A b \in Caller : frame'[b] = IF b = c THEN f ELSE frame[b]
  BY DEF PrioInv, Move
<1>2. \A b \in Caller : CallOK(b, frame'[b])
  BY <1>1 DEF PrioInv
<1> QED BY <1>1, <1>2 DEF PrioInv, CallOK, Told

LEMMA BeginInv ==
  ASSUME PrioInv, SessionInv, NEW c \in Caller, NEW op \in {"set", "get"},
         NEW which \in {"process", "pgrp", "user", "bad"}, NEW who \in Who(which), NEW val \in Int,
         Begin(c, op, which, who, val)
  PROVE  PrioInv'
<1> USE GroupAssumption, PrioAssumption
<1> DEFINE place == IF which = "pgrp" THEN "lock" ELSE "walk"
           v == IF op = "set" THEN Normalize(val) ELSE 0
           w == IF who # 0 THEN who
                ELSE CASE which = "process" -> c [] which = "pgrp" -> pgrp[c] [] which = "user" -> Owner[c]
           bad == [NoCall EXCEPT !.at = "done", !.op = op, !.error = EINVAL]
           f == [NoCall EXCEPT !.at = place, !.op = op, !.which = which, !.val = v, !.who = w, !.error = ESRCH]
<1>0. nice' \in [Pid -> MinNice..MaxNice]
  BY DEF Begin, PrioInv
<1>1. CASE which = "bad"
  <2>1. Move(c, bad)
    BY <1>1 DEF Begin
  <2>2. bad \in Frame /\ bad.at = "done" /\ bad.error = EINVAL
    <3>1. EINVAL \in Int
      BY DEF EINVAL
    <3> QED BY <3>1, NoCallOK DEF Frame
  <2> HIDE DEF bad
  <2>3. CallOK(c, bad)
    BY <2>2 DEF CallOK
  <2> QED BY <1>0, <2>1, <2>2, <2>3, PrioMove
<1>2. CASE which # "bad"
  <2>1. Move(c, f)
    BY <1>2 DEF Begin
  <2>2. place \in {"lock", "walk"}
    OBVIOUS
  <2>3. v \in MinNice..MaxNice
    BY DEF Normalize
  <2>4. w \in Int
    <3>1. c \in Pid /\ pgrp[c] \in Pid \cup {0} /\ Owner[c] \in Nat /\ Pid \subseteq Int
      BY DEF SessionInv, GroupTypeOK
    <3>2. who \in Int
      BY <1>2, <3>1 DEF Who
    <3>3. CASE which = "process"
      BY <3>1, <3>2, <3>3
    <3>4. CASE which = "pgrp"
      BY <3>1, <3>2, <3>4
    <3>5. CASE which = "user"
      BY <3>1, <3>2, <3>5
    <3> QED BY <1>2, <3>3, <3>4, <3>5
  <2> HIDE DEF place, v, w
  <2>5. f \in Frame
    <3>1. ESRCH \in Int
      BY DEF ESRCH
    <3> QED BY <1>2, <2>2, <2>3, <2>4, <3>1, NoCallOK DEF Frame
  <2>6. f.at = place /\ f.op = op /\ f.error = ESRCH /\ ~ f.hit /\ ~ f.miss
    BY DEF NoCall
  <2> HIDE DEF f
  <2>7. CallOK(c, f)
    BY <2>2, <2>6 DEF CallOK, Told
  <2> QED BY <1>0, <2>1, <2>5, <2>7, PrioMove
<1> QED BY <1>1, <1>2

LEMMA CheckInv ==
  ASSUME PrioInv, NEW c \in Caller, NEW p \in Pid, Check(c, p)
  PROVE  PrioInv'
<1> USE PrioAssumption
<1> DEFINE f == [frame[c] EXCEPT !.seen = @ \cup {p}]
           err == PrioError(c, p, f.val)
           go == [f EXCEPT !.at = "apply", !.cur = p]
           no(e) == [f EXCEPT !.error = e, !.miss = TRUE]
<1>0. frame[c] \in Frame /\ CallOK(c, frame[c]) /\ frame[c].at = "walk"
  BY DEF PrioInv, Check, At
<1>1. f \in Frame /\ f.op = "set" /\ CallOK(c, f) /\ f.at = "walk"
  <2>1. f \in Frame /\ f.at = "walk" /\ f.op = frame[c].op /\ f.error = frame[c].error /\ f.hit = frame[c].hit
        /\ f.miss = frame[c].miss
    BY <1>0 DEF Frame
  <2>2. f.op = "set"
    BY DEF Check
  <2> HIDE DEF f
  <2> QED BY <1>0, <2>1, <2>2 DEF CallOK, Told
<1>2. err \in {0, EPERM, EACCES} /\ (err = 0 => Owner[c] \in {Owner[p], Root})
  BY DEF PrioError, SetOnePrioPerm, EPERM, EACCES
<1>3. PICK e \in IF err = 0 THEN {0, EACCES} ELSE {err} : Move(c, IF e = 0 THEN go ELSE no(e))
  BY DEF Check
<1> HIDE DEF err
<1>4. nice' \in [Pid -> MinNice..MaxNice]
  BY DEF Check, PrioInv
<1> HIDE DEF f
<1>5. CASE e = 0
  <2>1. err = 0 /\ Move(c, go)
    BY <1>2, <1>3, <1>5 DEF EACCES, EPERM
  <2>2. go \in Frame /\ go.at = "apply" /\ go.op = f.op /\ go.cur = p /\ go.error = f.error /\ go.hit = f.hit
        /\ go.miss = f.miss
    BY <1>1 DEF Frame
  <2> HIDE DEF go
  <2>3. CallOK(c, go)
    BY <1>1, <1>2, <2>1, <2>2 DEF CallOK, Told
  <2> QED BY <1>4, <2>1, <2>2, <2>3, PrioMove
<1>6. CASE e # 0
  <2> DEFINE n == no(e)
  <2>1. e \in {EPERM, EACCES} /\ e \in Int /\ Move(c, n)
    BY <1>2, <1>3, <1>6 DEF EPERM, EACCES
  <2>2. n \in Frame /\ n.at = "walk" /\ n.op = "set" /\ n.error = e /\ n.miss
    BY <1>1, <2>1 DEF Frame
  <2> HIDE DEF n
  <2>3. CallOK(c, n)
    BY <2>1, <2>2 DEF CallOK, Told
  <2> QED BY <1>4, <2>1, <2>2, <2>3, PrioMove
<1> QED BY <1>5, <1>6

LEMMA SetUserNiceInv ==
  ASSUME PrioInv, NEW c \in Caller, SetUserNice(c)
  PROVE  PrioInv'
<1> DEFINE f == frame[c]
           e == Succeed(f.error)
           g == [f EXCEPT !.at = "walk", !.cur = 0, !.error = e, !.hit = TRUE]
<1>0. f \in Frame /\ CallOK(c, f) /\ f.at = "apply"
  BY DEF PrioInv, SetUserNice, At
<1>1. nice' \in [Pid -> MinNice..MaxNice]
  BY <1>0 DEF SetUserNice, PrioInv, Frame
<1>2. Move(c, g)
  BY DEF SetUserNice
<1>3. e \in Int /\ f.op = "set" /\ e \in IF f.miss THEN {EPERM, EACCES} ELSE {0}
  BY <1>0 DEF CallOK, Told, Succeed, ESRCH, EPERM, EACCES
<1> HIDE DEF e, f
<1>4. g \in Frame /\ g.at = "walk" /\ g.op = f.op /\ g.error = e /\ g.hit /\ g.miss = f.miss
  BY <1>0, <1>3 DEF Frame
<1> HIDE DEF g
<1>5. CallOK(c, g)
  BY <1>3, <1>4 DEF CallOK, Told
<1> QED BY <1>1, <1>2, <1>4, <1>5, PrioMove

LEMMA LookInv ==
  ASSUME PrioInv, NEW c \in Caller, NEW p \in Pid, Look(c, p)
  PROVE  PrioInv'
<1> USE PrioAssumption
<1> DEFINE f == frame[c]
           n == Higher(f.error, NiceToRlimit(nice[p]))
           g == [f EXCEPT !.seen = @ \cup {p}, !.hit = TRUE, !.error = n]
<1>0. f \in Frame /\ CallOK(c, f) /\ f.at = "walk" /\ f.op = "get" /\ nice[p] \in MinNice..MaxNice
  BY DEF PrioInv, Look, At
<1>1. nice' \in [Pid -> MinNice..MaxNice] /\ Move(c, g)
  BY DEF Look, PrioInv
<1>2. n \in 1..(MaxNice - MinNice + 1)
  BY <1>0 DEF CallOK, Told, Higher, NiceToRlimit, ESRCH
<1> HIDE DEF n, f
<1>3. g \in Frame /\ g.at = "walk" /\ g.op = "get" /\ g.error = n /\ g.hit
  <2>1. n \in Int
    BY <1>2
  <2> QED BY <1>0, <2>1 DEF Frame
<1> HIDE DEF g
<1>4. CallOK(c, g)
  BY <1>2, <1>3 DEF CallOK, Told
<1> QED BY <1>1, <1>3, <1>4, PrioMove

LEMMA LockFinishInv ==
  ASSUME PrioInv, NEW c \in Caller, ReadLock(c) \/ Finish(c)
  PROVE  PrioInv'
<1> USE PrioAssumption
<1> DEFINE f == frame[c]
           l == [f EXCEPT !.at = "walk"]
           d == [f EXCEPT !.at = "done", !.seen = {}, !.who = 0, !.val = 0]
<1>0. f \in Frame /\ CallOK(c, f) /\ f.at \in {"lock", "walk"} /\ nice' \in [Pid -> MinNice..MaxNice]
  BY DEF PrioInv, ReadLock, Finish, At
<1>1. Move(c, l) \/ Move(c, d)
  BY DEF ReadLock, Finish
<1> HIDE DEF f
<1>2. l \in Frame /\ l.at = "walk" /\ l.op = f.op /\ l.error = f.error /\ l.hit = f.hit /\ l.miss = f.miss
  BY <1>0 DEF Frame
<1>3. d \in Frame /\ d.at = "done" /\ d.op = f.op /\ d.error = f.error /\ d.hit = f.hit /\ d.miss = f.miss
  <2>1. 0 \in MinNice..MaxNice /\ 0 \in Int
    OBVIOUS
  <2>2. d \in Frame
    BY <1>0, <2>1 DEF Frame
  <2> QED BY <1>0, <2>2 DEF Frame
<1> HIDE DEF l, d
<1>4. CallOK(c, l) /\ CallOK(c, d)
  BY <1>0, <1>2, <1>3 DEF CallOK, Told
<1> QED BY <1>0, <1>1, <1>2, <1>3, <1>4, PrioMove

LEMMA ReapNiceInv ==
  ASSUME PrioInv, NEW p \in Pid, ReapNice(p)
  PROVE  PrioInv'
<1> USE PrioAssumption
<1> DEFINE g(c) == [frame[c] EXCEPT !.seen = @ \ {p}, !.cur = IF @ = p THEN 0 ELSE @]
<1>0. 0 \in MinNice..MaxNice
  OBVIOUS
<1>1. nice' \in [Pid -> MinNice..MaxNice]
  BY <1>0 DEF ReapNice, PrioInv
<1>2. ASSUME NEW c \in Caller PROVE g(c) \in Frame /\ CallOK(c, g(c))
  <2> DEFINE f == frame[c]
             cur == IF f.cur = p THEN 0 ELSE f.cur
             h == [f EXCEPT !.seen = @ \ {p}, !.cur = cur]
  <2>1. f \in Frame /\ CallOK(c, f) /\ cur \in {0, f.cur} /\ g(c) = h
    BY DEF PrioInv
  <2> HIDE DEF f, cur
  <2>2. /\ h \in Frame /\ h.at = f.at /\ h.op = f.op /\ h.error = f.error /\ h.hit = f.hit /\ h.miss = f.miss
        /\ h.cur = cur
    BY <2>1 DEF Frame
  <2> HIDE DEF h
  <2>3. CallOK(c, h)
    BY <2>1, <2>2 DEF CallOK, Told
  <2> QED BY <2>1, <2>2, <2>3
<1>3. frame' = [c \in Caller |-> IF c = p THEN NoCall ELSE g(c)]
  BY DEF ReapNice
<1> HIDE DEF g
<1>4. frame' \in [Caller -> Frame] /\ \A c \in Caller : CallOK(c, frame'[c])
  BY <1>2, <1>3, NoCallOK
<1> QED BY <1>1, <1>4 DEF PrioInv, CallOK, Told

LEMMA PrioNext == PrioInv /\ SessionInv /\ [Next]_vars => PrioInv'
<1> SUFFICES ASSUME PrioInv, SessionInv, [Next]_vars PROVE PrioInv'
  OBVIOUS
<1>1. ASSUME UNCHANGED frame, nice' \in [Pid -> MinNice..MaxNice] PROVE PrioInv'
  BY <1>1 DEF PrioInv, CallOK, Told
<1>2. CASE UNCHANGED vars
  BY <1>1, <1>2 DEF vars, PrioInv
<1>3. ASSUME UNCHANGED <<nice, frame>> PROVE PrioInv'
  BY <1>1, <1>3 DEF PrioInv
<1>4. ASSUME NEW c \in Pid, NEW q \in Pid, ForkNice(c, q) PROVE PrioInv'
  BY <1>1, <1>4 DEF ForkNice, PrioInv
<1>5. ASSUME NEW c \in Caller, CallStep(c) PROVE PrioInv'
  <2>1. ASSUME NEW which \in {"process", "pgrp", "user", "bad"}, NEW who \in Who(which),
               Begin(c, "get", which, who, 0)
        PROVE  PrioInv'
    BY <2>1, BeginInv
  <2>2. ASSUME NEW which \in {"process", "pgrp", "user", "bad"}, NEW who \in Who(which), NEW val \in NiceArg,
               Begin(c, "set", which, who, val)
        PROVE  PrioInv'
    <3>1. val \in Int
      BY PrioAssumption
    <3> QED BY <2>2, <3>1, BeginInv
  <2> QED BY <1>5, <2>1, <2>2, CheckInv, SetUserNiceInv, LookInv, LockFinishInv DEF CallStep
<1> QED BY <1>2, <1>3, <1>4, <1>5, ReapNiceInv DEF Next

LEMMA PrioInvariance == Spec => [](PrioInv /\ SessionInv)
  BY SessionInit, SessionNext, PrioInit, PrioNext, PTL DEF Spec

\* The type invariant of groups, sessions and priorities.
THEOREM TypeCorrect == Spec => []TypeOK
<1>1. PrioInv /\ SessionInv => TypeOK
  BY DEF PrioInv, SessionInv, TypeOK
<1> QED BY <1>1, PrioInvariance, PTL

\* The number that setpriority and getpriority return for any set of processes
\* tells what happened to them.
THEOREM OutcomeIsReported == Spec => []ReportsOutcome
<1>1. PrioInv => ReportsOutcome
  BY DEF PrioInv, CallOK, Told, ReportsOutcome, At, EPERM, EACCES, ESRCH, EINVAL
<1> QED BY <1>1, PrioInvariance, PTL

\* set_one_prio() sets a process later than it checks the permission, and the
\* process it sets is the one it has checked, whatever was reaped in between.
THEOREM NiceOnlyByPermitted == Spec => NiceByPermitted
<1>1. ASSUME PrioInv, SessionInv, [Next]_vars, NEW p \in Attached \cap Attached', nice'[p] # nice[p]
      PROVE  \E c \in Caller : At(c, "apply") /\ frame[c].cur = p /\ Owner[c] \in {Owner[p], Root}
  <2>0. GroupTypeOK /\ p \in Pid /\ nice \in [Pid -> MinNice..MaxNice] /\ p # 0
    BY <1>1, GroupAssumption DEF SessionInv, PrioInv, Attached
  <2>1. PICK c \in Caller : SetUserNice(c)
    <3>1. ASSUME NEW c \in Pid, NEW q \in Pid, ForkNice(c, q) PROVE FALSE
      BY <1>1, <2>0, <3>1 DEF ForkNice, Fork, InUse, Attached
    <3>2. ASSUME NEW q \in Pid, ReapNice(q) PROVE FALSE
      BY <1>1, <2>0, <3>2 DEF ReapNice, Reap, GroupTypeOK, Attached
    <3>3. ASSUME NEW c \in Caller, CallStep(c) PROVE SetUserNice(c) \/ nice' = nice
      <4>1. ASSUME NEW op, NEW which, NEW who, NEW val, Begin(c, op, which, who, val) PROVE nice' = nice
        BY <4>1 DEF Begin
      <4>2. ASSUME NEW q, Check(c, q) \/ Look(c, q) PROVE nice' = nice
        BY <4>2 DEF Check, Look
      <4>3. ReadLock(c) \/ Finish(c) => nice' = nice
        BY DEF ReadLock, Finish
      <4> QED BY <3>3, <4>1, <4>2, <4>3 DEF CallStep
    <3>4. UNCHANGED vars => nice' = nice
      BY DEF vars
    <3> QED BY <1>1, <3>1, <3>2, <3>3, <3>4 DEF Next
  <2>2. frame[c].cur = p /\ frame[c].at = "apply"
    BY <1>1, <2>0, <2>1 DEF SetUserNice, At
  <2> QED BY <1>1, <2>0, <2>2 DEF PrioInv, CallOK, At
<1>2. PrioInv /\ SessionInv /\ [Next]_vars =>
        [\A p \in Attached \cap Attached' : nice'[p] # nice[p] =>
           \E c \in Caller : /\ At(c, "apply") /\ frame[c].cur = p
                             /\ Owner[c] \in {Owner[p], Root}]_vars
  BY <1>1
<1> QED BY <1>2, PrioInvariance, PTL DEF Spec, NiceByPermitted

-----------------------------------------------------------------------------
LimitFrame ==
  [at : {"idle", "lock", "read", "write", "unlock", "arm", "return"}, kind : {"native", "compat", "old"},
   tsk : Process \cup {NOTHING}, ref : BOOLEAN, resource : Resource \cup {"BAD", NOTHING},
   new : Rlimit \cup {NOTHING}, want : BOOLEAN, old : Rlimit \cup {NOTHING},
   ret : {"ok", "EINVAL", "EPERM", "ESRCH", "EFAULT"}]

LimitTypeOK ==
  /\ rlim \in [Process -> [Resource -> Rlimit]]
  /\ task_lock \in [Process -> Thread \cup {NOTHING}]
  /\ nextevt \in [Process -> 0..RlimInfinity]
  /\ lcall \in [Thread -> LimitFrame]

\* The calls that hold task_lock of their target.
Locked(c) == c.at \in {"read", "write", "unlock"}

LockInv == \A t \in Thread :
  /\ lcall[t].at # "idle" => lcall[t].tsk \in Process
  /\ Locked(lcall[t]) => /\ lcall[t].resource \in Resource
                         /\ task_lock[lcall[t].tsk] = t

\* The new limit is one that may replace the present one.
MayReplace(t, new, now) == new.cur <= new.max /\ (new.max <= now.max \/ t \in SysResource)

CheckedInv == \A t \in Thread :
  LET c == lcall[t] IN
  /\ c.at \in {"read", "write"} => c.ret = "ok"
  /\ c.at \in {"read", "write"} /\ c.new # NOTHING => MayReplace(t, c.new, rlim[c.tsk][c.resource])
  /\ c.at = "arm" => c.new # NOTHING
  /\ c.at = "write" => c.new # NOTHING /\ c.old \in {NOTHING, rlim[c.tsk][c.resource]}

LimitInv == LimitTypeOK /\ LockInv /\ CheckedInv

-----------------------------------------------------------------------------
LEMMA LimitInitInv == LimitInit => LimitInv /\ TimerCoversLimit
  BY LimitAssumption DEF LimitInit, LimitInv, LimitTypeOK, LockInv, CheckedInv, Locked, TimerCoversLimit,
     NoLimitCall, LimitFrame, Rlimit

\* A step in which one call goes on outside the section under the lock.
LEMMA OutsideLock ==
  ASSUME LimitInv, NEW t \in Thread, NEW f \in LimitFrame,
         lcall' = [lcall EXCEPT ![t] = f], f.at \in {"idle", "lock", "return"},
         f.at # "idle" => f.tsk \in Process,
         UNCHANGED <<rlim, task_lock>>, nextevt' \in [Process -> 0..RlimInfinity]
  PROVE  LimitInv'
<1>1. \A u \in Thread : lcall'[u] = IF u = t THEN f ELSE lcall[u]
  BY DEF LimitInv, LimitTypeOK
<1>2. LimitTypeOK'
  BY <1>1 DEF LimitInv, LimitTypeOK
<1>3. LockInv'
  BY <1>1 DEF LimitInv, LockInv, Locked
<1>4. CheckedInv'
  BY <1>1 DEF LimitInv, CheckedInv
<1> QED BY <1>2, <1>3, <1>4 DEF LimitInv

LEMMA LimitCallInv ==
  ASSUME LimitInv, NEW t \in Thread, LimitCall(t)
  PROVE  LimitInv'
<1> USE LimitAssumption
<1>0. lcall \in [Thread -> LimitFrame] /\ nextevt \in [Process -> 0..RlimInfinity] /\ Home[t] \in Process
  BY DEF LimitInv, LimitTypeOK
<1>1. ASSUME NEW r \in Resource \cup {"BAD"}, NEW new \in LimitArg \cup {NOTHING},
             NEW kind \in {"native", "compat", "old"}, OwnLimit(t, kind, r, new)
      PROVE  LimitInv'
  <2> DEFINE f == [NoLimitCall EXCEPT !.at = "lock", !.kind = kind, !.tsk = Home[t],
                     !.resource = r, !.new = RlimIn(kind, new), !.want = (new = NOTHING)]
  <2>1. RlimIn(kind, new) \in Rlimit \cup {NOTHING}
    BY DEF RlimIn, FromCompat, Rlimit
  <2>2. f \in LimitFrame /\ f.at = "lock" /\ f.tsk \in Process
    BY <2>1, <1>0 DEF NoLimitCall, LimitFrame
  <2>3. lcall' = [lcall EXCEPT ![t] = f] /\ UNCHANGED <<rlim, task_lock, nextevt>>
    BY <1>1 DEF OwnLimit
  <2> HIDE DEF f
  <2> QED BY <2>2, <2>3, <1>0, OutsideLock
<1>2. ASSUME NEW r \in Resource \cup {"BAD"}, NEW new \in LimitArg \cup {NOTHING},
             NEW p \in Process, NEW want \in BOOLEAN, Prlimit64(t, p, r, new, want)
      PROVE  LimitInv'
  <2> DEFINE ends(err) == [NoLimitCall EXCEPT !.ret = err]
             goes == [NoLimitCall EXCEPT !.at = "lock", !.tsk = p, !.ref = TRUE,
                        !.resource = r, !.new = new, !.want = want]
  <2>a. \A err \in {"ESRCH", "EPERM"} : ends(err) \in LimitFrame /\ ends(err).at = "idle"
    BY DEF NoLimitCall, LimitFrame
  <2>b. goes \in LimitFrame /\ goes.at = "lock" /\ goes.tsk \in Process
    BY DEF NoLimitCall, LimitFrame
  <2>c. \/ lcall' = [lcall EXCEPT ![t] = goes]
        \/ \E err \in {"ESRCH", "EPERM"} : lcall' = [lcall EXCEPT ![t] = ends(err)]
    BY <1>2 DEF Prlimit64, LimitFails
  <2> HIDE DEF ends, goes
  <2>1. PICK f \in LimitFrame : lcall' = [lcall EXCEPT ![t] = f] /\ f.at \in {"idle", "lock"}
                                 /\ (f.at # "idle" => f.tsk \in Process)
    BY <2>a, <2>b, <2>c
  <2>2. UNCHANGED <<rlim, task_lock, nextevt>>
    BY <1>2 DEF Prlimit64
  <2> QED BY <2>1, <2>2, <1>0, OutsideLock
<1> QED BY <1>1, <1>2 DEF LimitCall

\* A step inside the section under the lock: the thread that holds it goes on
\* as f.
LEMMA InsideLock ==
  ASSUME LimitInv, NEW t \in Thread, NEW f \in LimitFrame,
         lcall' = [lcall EXCEPT ![t] = f], Locked(lcall[t]), f.at \in {"write", "unlock"},
         f.tsk = lcall[t].tsk, f.resource = lcall[t].resource,
         \/ f.at = "unlock" /\ rlim' \in [Process -> [Resource -> Rlimit]]
            /\ \A p \in Process, r \in Resource : p # f.tsk => rlim'[p][r] = rlim[p][r]
         \/ /\ f.at = "write" /\ rlim' = rlim /\ f.ret = "ok"
            /\ f.new # NOTHING /\ MayReplace(t, f.new, rlim[f.tsk][f.resource])
            /\ f.old \in {NOTHING, rlim[f.tsk][f.resource]},
         UNCHANGED <<task_lock, nextevt>>
  PROVE  LimitInv'
<1>1. \A u \in Thread : lcall'[u] = IF u = t THEN f ELSE lcall[u]
  BY DEF LimitInv, LimitTypeOK
<1>2. LimitTypeOK'
  BY <1>1 DEF LimitInv, LimitTypeOK
<1>3. LockInv'
  BY <1>1 DEF LimitInv, LockInv, Locked
<1>4. ASSUME NEW u \in Thread, u # t, lcall[u].at \in {"read", "write"}
      PROVE  rlim'[lcall[u].tsk][lcall[u].resource] = rlim[lcall[u].tsk][lcall[u].resource]
  BY <1>4 DEF LimitInv, LockInv, Locked
<1>5. CheckedInv'
  <2> SUFFICES ASSUME NEW u \in Thread
               PROVE  LET k == lcall'[u] IN
                      /\ k.at \in {"read", "write"} => k.ret = "ok"
                      /\ k.at \in {"read", "write"} /\ k.new # NOTHING =>
                           MayReplace(u, k.new, rlim'[k.tsk][k.resource])
                      /\ k.at = "arm" => k.new # NOTHING
                      /\ k.at = "write" => k.new # NOTHING /\ k.old \in {NOTHING, rlim'[k.tsk][k.resource]}
    BY DEF CheckedInv, MayReplace
  <2>1. CASE u = t
    BY <1>1, <2>1
  <2>2. CASE u # t
    <3> DEFINE k == lcall[u]
    <3>1. lcall'[u] = k /\ (k.at \in {"read", "write"} => rlim'[k.tsk][k.resource] = rlim[k.tsk][k.resource])
      BY <1>1, <1>4, <2>2
    <3>2. /\ k.at \in {"read", "write"} => k.ret = "ok"
          /\ k.at \in {"read", "write"} /\ k.new # NOTHING => MayReplace(u, k.new, rlim[k.tsk][k.resource])
          /\ k.at = "arm" => k.new # NOTHING
          /\ k.at = "write" => k.new # NOTHING /\ k.old \in {NOTHING, rlim[k.tsk][k.resource]}
      BY DEF LimitInv, CheckedInv
    <3> HIDE DEF k
    <3> QED BY <3>1, <3>2
  <2> QED BY <2>1, <2>2
<1> QED BY <1>2, <1>3, <1>5 DEF LimitInv

LEMMA TaskLockInv ==
  ASSUME LimitInv, NEW t \in Thread, TaskLock(t)
  PROVE  LimitInv'
<1> USE LimitAssumption
<1> DEFINE c == lcall[t]
           err == EarlyError(c.resource, c.new)
           raised == c.new # NOTHING /\ c.new.max > rlim[c.tsk][c.resource].max /\ t \notin SysResource
<1>0. c \in LimitFrame /\ c.at = "lock" /\ c.tsk \in Process
  BY DEF TaskLock, LimitInv, LimitTypeOK, LockInv
<1>1. CASE err # "ok"
  <2> DEFINE f == [c EXCEPT !.at = "return", !.ret = err]
  <2>1. err \in {"EINVAL", "EPERM"}
    BY <1>1 DEF EarlyError
  <2>2. f \in LimitFrame /\ f.at = "return" /\ f.tsk \in Process
    BY <1>0, <2>1 DEF LimitFrame
  <2>3. lcall' = [lcall EXCEPT ![t] = f]
    BY <1>1, <1>0 DEF TaskLock, LimitInv, LimitTypeOK, LimitFrame
  <2>4. UNCHANGED <<rlim, task_lock, nextevt>>
    BY <1>1 DEF TaskLock
  <2>5. nextevt' \in [Process -> 0..RlimInfinity]
    BY <2>4 DEF LimitInv, LimitTypeOK
  <2> HIDE DEF f, err, c
  <2> QED BY <2>2, <2>3, <2>4, <2>5, OutsideLock
<1>2. CASE err = "ok"
  <2> DEFINE f == [c EXCEPT !.at = IF raised THEN "unlock" ELSE "read", !.ret = IF raised THEN "EPERM" ELSE "ok"]
  <2>1. f \in LimitFrame /\ f.tsk = c.tsk /\ f.resource = c.resource /\ f.new = c.new
        /\ f.at = (IF raised THEN "unlock" ELSE "read") /\ f.ret = (IF raised THEN "EPERM" ELSE "ok")
    BY <1>0 DEF LimitFrame
  <2>2. lcall' = [lcall EXCEPT ![t] = f]
    BY <1>2, <1>0 DEF TaskLock, LimitInv, LimitTypeOK, LimitFrame
  <2>3. task_lock[c.tsk] = NOTHING /\ task_lock' = [task_lock EXCEPT ![c.tsk] = t] /\ UNCHANGED <<rlim, nextevt>>
    BY <1>2 DEF TaskLock
  <2>4. c.resource \in Resource /\ (c.new # NOTHING => c.new.cur <= c.new.max)
    BY <1>0, <1>2 DEF EarlyError, LimitFrame, Rlimit
  <2>5. ~ raised /\ c.new # NOTHING => MayReplace(t, c.new, rlim[c.tsk][c.resource])
    <3>1. rlim[c.tsk][c.resource] \in Rlimit
      BY <1>0, <2>4 DEF LimitInv, LimitTypeOK
    <3>2. c.new # NOTHING => c.new \in Rlimit
      BY <1>0 DEF LimitFrame
    <3> QED BY <2>4, <3>1, <3>2 DEF MayReplace, Rlimit
  <2> HIDE DEF f, raised, err
  <2>6. \A u \in Thread : lcall'[u] = IF u = t THEN f ELSE lcall[u]
    BY <2>2 DEF LimitInv, LimitTypeOK
  <2>7. \A u \in Thread : Locked(lcall[u]) => lcall[u].tsk \in Process /\ lcall[u].tsk # c.tsk
    BY <2>3 DEF LimitInv, LockInv, Locked
  <2> HIDE DEF c
  <2>8. LimitTypeOK'
    BY <2>1, <2>2, <2>3, <1>0 DEF LimitInv, LimitTypeOK
  <2>9. LockInv'
    BY <2>1, <2>3, <2>4, <2>6, <2>7, <1>0 DEF LimitInv, LimitTypeOK, LockInv, Locked
  <2>10. CheckedInv'
    BY <2>1, <2>3, <2>5, <2>6 DEF LimitInv, CheckedInv
  <2> QED BY <2>8, <2>9, <2>10 DEF LimitInv
<1> QED BY <1>1, <1>2

LEMMA ReadOldInv ==
  ASSUME LimitInv, NEW t \in Thread, ReadOld(t)
  PROVE  LimitInv'
<1> DEFINE c == lcall[t]
           now == rlim[c.tsk][c.resource]
           f == [c EXCEPT !.old = IF c.want THEN now ELSE NOTHING,
                          !.at = IF c.new = NOTHING THEN "unlock" ELSE "write"]
<1>1. c \in LimitFrame /\ c.at = "read" /\ c.tsk \in Process /\ c.resource \in Resource
  BY DEF ReadOld, LimitInv, LimitTypeOK, LockInv, Locked
<1>2. now \in Rlimit /\ (c.new # NOTHING => MayReplace(t, c.new, now)) /\ c.ret = "ok"
  BY <1>1 DEF LimitInv, LimitTypeOK, CheckedInv
<1>3. f \in LimitFrame /\ f.tsk = c.tsk /\ f.resource = c.resource /\ f.new = c.new /\ f.ret = c.ret
      /\ f.at = (IF c.new = NOTHING THEN "unlock" ELSE "write") /\ f.old \in {NOTHING, now}
  BY <1>1, <1>2 DEF LimitFrame
<1>4. lcall' = [lcall EXCEPT ![t] = f] /\ UNCHANGED <<rlim, task_lock, nextevt>>
  BY <1>1 DEF ReadOld, LimitInv, LimitTypeOK, LimitFrame
<1>5. rlim' \in [Process -> [Resource -> Rlimit]] /\ Locked(c)
  BY <1>1, <1>4 DEF LimitInv, LimitTypeOK, Locked
<1> HIDE DEF f
<1>6. CASE c.new = NOTHING
  BY <1>3, <1>4, <1>5, <1>6, InsideLock
<1>7. CASE c.new # NOTHING
  BY <1>2, <1>3, <1>4, <1>5, <1>7, InsideLock
<1> QED BY <1>6, <1>7

LEMMA WriteNewInv ==
  ASSUME LimitInv, NEW t \in Thread, WriteNew(t)
  PROVE  LimitInv'
<1> DEFINE c == lcall[t]
           f == [c EXCEPT !.at = "unlock"]
<1>1. c \in LimitFrame /\ c.at = "write" /\ c.tsk \in Process /\ c.resource \in Resource
  BY DEF WriteNew, LimitInv, LimitTypeOK, LockInv, Locked
<1>2. c.new \in Rlimit
  BY <1>1 DEF LimitInv, CheckedInv, LimitFrame
<1>3. f \in LimitFrame /\ f.tsk = c.tsk /\ f.resource = c.resource /\ f.at = "unlock"
  BY <1>1 DEF LimitFrame
<1>4. lcall' = [lcall EXCEPT ![t] = f] /\ UNCHANGED <<task_lock, nextevt>>
      /\ rlim' = [rlim EXCEPT ![c.tsk][c.resource] = c.new]
  BY <1>1 DEF WriteNew, LimitInv, LimitTypeOK, LimitFrame
<1>5. rlim' \in [Process -> [Resource -> Rlimit]] /\ Locked(c)
      /\ \A p \in Process, r \in Resource : p # f.tsk => rlim'[p][r] = rlim[p][r]
  BY <1>1, <1>2, <1>3, <1>4 DEF LimitInv, LimitTypeOK, Locked
<1> HIDE DEF f
<1> QED BY <1>3, <1>4, <1>5, InsideLock

LEMMA TaskUnlockInv ==
  ASSUME LimitInv, NEW t \in Thread, TaskUnlock(t)
  PROVE  LimitInv'
<1> DEFINE c == lcall[t]
<1>1. c \in LimitFrame /\ c.at = "unlock" /\ c.tsk \in Process
  BY DEF TaskUnlock, LimitInv, LimitTypeOK, LockInv
<1>2. PICK f \in LimitFrame : lcall' = [lcall EXCEPT ![t] = f] /\ f.at \in {"arm", "return"} /\ f.tsk = c.tsk
                               /\ (f.at = "arm" => f.new # NOTHING)
  <2> DEFINE to(place) == [c EXCEPT !.at = place]
  <2>1. \A place \in {"arm", "return"} : to(place) \in LimitFrame /\ to(place).at = place /\ to(place).tsk = c.tsk
                                      /\ to(place).new = c.new
    BY <1>1 DEF LimitFrame
  <2>2. \E place \in {"arm", "return"} :
          lcall' = [lcall EXCEPT ![t] = to(place)] /\ (place = "arm" => c.new # NOTHING)
    BY <1>1 DEF TaskUnlock, LimitInv, LimitTypeOK, LimitFrame
  <2> HIDE DEF to
  <2> QED BY <2>1, <2>2
<1>3. task_lock' = [task_lock EXCEPT ![c.tsk] = NOTHING] /\ UNCHANGED <<rlim, nextevt>>
  BY DEF TaskUnlock
<1>4. \A u \in Thread : lcall'[u] = IF u = t THEN f ELSE lcall[u]
  BY <1>2 DEF LimitInv, LimitTypeOK
<1>5. \A u \in Thread \ {t} : Locked(lcall[u]) => lcall[u].tsk # c.tsk
  BY <1>1 DEF LimitInv, LockInv, Locked
<1>6. LimitTypeOK'
  BY <1>2, <1>3 DEF LimitInv, LimitTypeOK
<1>7. LockInv'
  BY <1>1, <1>2, <1>3, <1>4, <1>5 DEF LimitInv, LimitTypeOK, LockInv, Locked
<1>8. CheckedInv'
  BY <1>2, <1>3, <1>4 DEF LimitInv, CheckedInv
<1> QED BY <1>6, <1>7, <1>8 DEF LimitInv

LEMMA UpdateRlimitCpuInv ==
  ASSUME LimitInv, NEW t \in Thread, UpdateRlimitCpu(t)
  PROVE  LimitInv'
<1> DEFINE c == lcall[t]
           f == [c EXCEPT !.at = "return"]
<1>1. c \in LimitFrame /\ c.at = "arm" /\ c.tsk \in Process /\ nextevt \in [Process -> 0..RlimInfinity]
  BY DEF UpdateRlimitCpu, LimitInv, LimitTypeOK, LockInv
<1>2. f \in LimitFrame /\ f.at = "return" /\ f.tsk \in Process /\ c.new \in Rlimit
  BY <1>1 DEF LimitFrame, LimitInv, CheckedInv
<1>3. lcall' = [lcall EXCEPT ![t] = f] /\ UNCHANGED <<rlim, task_lock>>
  BY <1>1 DEF UpdateRlimitCpu, LimitInv, LimitTypeOK, LimitFrame
<1>4. nextevt' \in [Process -> 0..RlimInfinity]
  BY <1>1, <1>2 DEF UpdateRlimitCpu, LowerOf, Rlimit
<1> HIDE DEF f
<1> QED BY <1>2, <1>3, <1>4, OutsideLock

LEMMA LimitReturnInv ==
  ASSUME LimitInv, NEW t \in Thread, NEW fault \in BOOLEAN, LimitReturn(t, fault)
  PROVE  LimitInv'
<1> USE LimitAssumption
<1> DEFINE c == lcall[t]
           ret == IF fault THEN "EFAULT" ELSE c.ret
           old == IF c.old = NOTHING \/ fault THEN NOTHING ELSE RlimOut(c.kind, c.old)
           f == [NoLimitCall EXCEPT !.ret = ret, !.old = old]
<1>1. c \in LimitFrame /\ nextevt \in [Process -> 0..RlimInfinity]
  BY DEF LimitInv, LimitTypeOK
<1>2. c.old # NOTHING => RlimOut(c.kind, c.old) \in Rlimit
  BY <1>1 DEF LimitFrame, RlimOut, LowerOf, Rlimit
<1>3. ret \in {"ok", "EINVAL", "EPERM", "ESRCH", "EFAULT"} /\ old \in Rlimit \cup {NOTHING}
  BY <1>1, <1>2 DEF LimitFrame
<1>4. lcall' = [lcall EXCEPT ![t] = f] /\ UNCHANGED <<rlim, task_lock, nextevt>>
  BY DEF LimitReturn
<1> HIDE DEF ret, old
<1>5. f \in LimitFrame /\ f.at = "idle"
  BY <1>3 DEF LimitFrame, NoLimitCall
<1> HIDE DEF f
<1> QED BY <1>1, <1>4, <1>5, OutsideLock

\* A call that is on the way to the timer of process p with a limit on CPU time
\* that is not above the one in force.
Covers(t, p) == /\ lcall[t].tsk = p /\ lcall[t].resource = "CPU" /\ lcall[t].ret = "ok"
                /\ lcall[t].new # NOTHING /\ lcall[t].at \in {"unlock", "arm"}
                /\ lcall[t].new.cur <= rlim[p]["CPU"].cur

\* A step that leaves limits and timers alone, and every call on the way to a
\* timer, keeps the timers covered.
LEMMA StillCovered ==
  ASSUME TimerCoversLimit, UNCHANGED <<rlim, nextevt>>, exiting \subseteq exiting',
         \A t \in Thread : lcall[t].at \in {"unlock", "arm"} => lcall'[t] = lcall[t]
  PROVE  TimerCoversLimit'
  BY DEF TimerCoversLimit

LEMMA OthersStay ==
  ASSUME LimitInv, NEW t \in Thread, LimitCall(t) \/ LimitStep(t)
  PROVE  \A u \in Thread \ {t} : lcall'[u] = lcall[u]
  BY DEF LimitInv, LimitTypeOK, LimitCall, LimitStep, OwnLimit, Prlimit64, LimitFails, TaskLock, ReadOld,
     WriteNew, TaskUnlock, UpdateRlimitCpu, LimitReturn

LEMMA StepCovers ==
  ASSUME LimitInv, LimitInv', TimerCoversLimit, NEW t \in Thread, LimitStep(t)
  PROVE  TimerCoversLimit'
<1> USE LimitAssumption
<1> DEFINE c == lcall[t]
<1>0. c \in LimitFrame /\ lcall \in [Thread -> LimitFrame]
      /\ rlim \in [Process -> [Resource -> Rlimit]] /\ nextevt \in [Process -> 0..RlimInfinity]
  BY DEF LimitInv, LimitTypeOK
<1>1. \A u \in Thread \ {t} : lcall'[u] = lcall[u]
  BY OthersStay
<1>2. CASE TaskLock(t)
  BY <1>1, <1>2, StillCovered DEF TaskLock
<1>3. CASE ReadOld(t)
  BY <1>1, <1>3, StillCovered DEF ReadOld
<1>4. CASE \E fault \in BOOLEAN : LimitReturn(t, fault)
  BY <1>1, <1>4, StillCovered DEF LimitReturn
<1>5. CASE WriteNew(t)
  <2>1. c.tsk \in Process /\ c.resource \in Resource /\ c.new \in Rlimit /\ c.ret = "ok" /\ c.new # NOTHING
    BY <1>0, <1>5 DEF WriteNew, LimitInv, LockInv, Locked, CheckedInv, LimitFrame
  <2>2. lcall'[t].at = "unlock" /\ lcall'[t].tsk = c.tsk /\ lcall'[t].resource = c.resource
        /\ lcall'[t].new = c.new /\ lcall'[t].ret = c.ret
    BY <1>0, <1>5 DEF WriteNew, LimitFrame
  <2>3. SUFFICES ASSUME NEW p \in Process, p \notin exiting'
                 PROVE  nextevt'[p] <= rlim'[p]["CPU"].cur \/ \E u \in Thread : Covers(u, p)'
    BY DEF TimerCoversLimit, Covers
  <2>4. CASE p = c.tsk /\ c.resource = "CPU"
    <3>1. rlim'[p]["CPU"] = c.new
      BY <1>0, <1>5, <2>1, <2>4 DEF WriteNew
    <3>2. Covers(t, p)'
      BY <2>1, <2>2, <2>4, <3>1 DEF Covers, Rlimit
    <3> QED BY <3>2
  <2>5. CASE ~ (p = c.tsk /\ c.resource = "CPU")
    <3>1. rlim'[p]["CPU"] = rlim[p]["CPU"] /\ nextevt'[p] = nextevt[p] /\ p \notin exiting
      BY <1>0, <1>5, <2>1, <2>3, <2>5 DEF WriteNew
    <3>2. \A u \in Thread : Covers(u, p) => Covers(u, p)'
      <4>1. ~ Covers(t, p)
        BY <1>5 DEF Covers, WriteNew
      <4> QED BY <1>1, <3>1, <4>1 DEF Covers
    <3>3. nextevt[p] <= rlim[p]["CPU"].cur \/ \E u \in Thread : Covers(u, p)
      BY <3>1 DEF TimerCoversLimit, Covers
    <3> QED BY <3>1, <3>2, <3>3
  <2> QED BY <2>4, <2>5
<1>6. CASE TaskUnlock(t)
  <2>1. lcall'[t].tsk = c.tsk /\ lcall'[t].resource = c.resource /\ lcall'[t].new = c.new /\ lcall'[t].ret = c.ret
        /\ (c.ret = "ok" /\ c.new # NOTHING /\ c.resource = "CPU" /\ c.new.cur # RlimInfinity => lcall'[t].at = "arm")
    BY <1>0, <1>6 DEF TaskUnlock, LimitFrame
  <2>2. SUFFICES ASSUME NEW p \in Process, p \notin exiting'
                 PROVE  nextevt'[p] <= rlim'[p]["CPU"].cur \/ \E u \in Thread : Covers(u, p)'
    BY DEF TimerCoversLimit, Covers
  <2>3. UNCHANGED <<rlim, nextevt, exiting>>
    BY <1>6 DEF TaskUnlock
  <2>4. CASE Covers(t, p)
    <3>1. c.new \in Rlimit /\ rlim[p]["CPU"] \in Rlimit /\ nextevt[p] \in 0..RlimInfinity
      BY <1>0, <2>4 DEF Covers, LimitFrame
    <3>2. CASE c.new.cur = RlimInfinity
      BY <2>3, <2>4, <3>1, <3>2 DEF Covers, Rlimit
    <3>3. CASE c.new.cur # RlimInfinity
      BY <2>1, <2>3, <2>4, <3>3 DEF Covers
    <3> QED BY <3>2, <3>3
  <2>5. CASE ~ Covers(t, p)
    <3>1. \A u \in Thread : Covers(u, p) => Covers(u, p)'
      BY <1>1, <2>3, <2>5 DEF Covers
    <3>2. nextevt[p] <= rlim[p]["CPU"].cur \/ \E u \in Thread : Covers(u, p)
      BY <2>2, <2>3 DEF TimerCoversLimit, Covers
    <3> QED BY <2>3, <3>1, <3>2
  <2> QED BY <2>4, <2>5
<1>7. CASE UpdateRlimitCpu(t)
  <2>1. SUFFICES ASSUME NEW p \in Process, p \notin exiting'
                 PROVE  nextevt'[p] <= rlim'[p]["CPU"].cur \/ \E u \in Thread : Covers(u, p)'
    BY DEF TimerCoversLimit, Covers
  <2>2. c.at = "arm" /\ c.new \in Rlimit /\ c.tsk \in Process /\ UNCHANGED <<rlim, exiting>>
    BY <1>0, <1>7 DEF UpdateRlimitCpu, LimitInv, CheckedInv, LockInv, LimitFrame
  <2>3. rlim[p]["CPU"] \in Rlimit /\ nextevt[p] \in 0..RlimInfinity /\ nextevt'[p] \in 0..RlimInfinity
    BY <1>0 DEF LimitInv, LimitTypeOK
  <2>4. nextevt'[p] <= nextevt[p] /\ (p = c.tsk => nextevt'[p] <= c.new.cur)
    BY <1>0, <1>7, <2>1, <2>2, <2>3 DEF UpdateRlimitCpu, LowerOf, Rlimit
  <2>5. CASE Covers(t, p)
    BY <2>2, <2>3, <2>4, <2>5 DEF Covers, Rlimit
  <2>6. CASE ~ Covers(t, p)
    <3>1. \A u \in Thread : Covers(u, p) => Covers(u, p)'
      BY <1>1, <2>2, <2>6 DEF Covers
    <3>2. nextevt[p] <= rlim[p]["CPU"].cur \/ \E u \in Thread : Covers(u, p)
      BY <2>1, <2>2 DEF TimerCoversLimit, Covers
    <3> QED BY <2>2, <2>3, <2>4, <3>1, <3>2 DEF Rlimit
  <2> QED BY <2>5, <2>6
<1> QED BY <1>2, <1>3, <1>4, <1>5, <1>6, <1>7 DEF LimitStep

LEMMA CallCovers ==
  ASSUME LimitInv, TimerCoversLimit, NEW t \in Thread, LimitCall(t)
  PROVE  TimerCoversLimit'
<1>1. \A u \in Thread \ {t} : lcall'[u] = lcall[u]
  BY OthersStay
<1>2. lcall[t].at = "idle" /\ UNCHANGED <<rlim, nextevt, exiting>>
  BY DEF LimitCall, OwnLimit, Prlimit64, MayCall
<1> QED BY <1>1, <1>2, StillCovered

LEMMA OtherStepsInv ==
  ASSUME LimitInv, TimerCoversLimit, NEW p \in Process, TimerFires(p) \/ ProcessExits(p)
  PROVE  LimitInv' /\ TimerCoversLimit'
<1> USE LimitAssumption
<1>0. rlim \in [Process -> [Resource -> Rlimit]] /\ nextevt \in [Process -> 0..RlimInfinity]
  BY DEF LimitInv, LimitTypeOK
<1>1. CASE TimerFires(p)
  <2>1. rlim[p]["CPU"].cur \in 0..RlimInfinity
    BY <1>0 DEF Rlimit
  <2>2. LimitInv'
    BY <1>0, <1>1, <2>1 DEF TimerFires, LimitInv, LimitTypeOK, LockInv, CheckedInv
  <2>3. TimerCoversLimit'
    BY <1>0, <1>1, <2>1 DEF TimerFires, TimerCoversLimit
  <2> QED BY <2>2, <2>3
<1>2. CASE ProcessExits(p)
  <2>1. LimitInv'
    BY <1>2 DEF ProcessExits, LimitInv, LimitTypeOK, LockInv, CheckedInv
  <2>2. TimerCoversLimit'
    BY <1>2, StillCovered DEF ProcessExits
  <2> QED BY <2>1, <2>2
<1> QED BY <1>1, <1>2

LEMMA LimitNextInv ==
  LimitInv /\ TimerCoversLimit /\ [LimitNext]_limitVars => LimitInv' /\ TimerCoversLimit'
<1> SUFFICES ASSUME LimitInv, TimerCoversLimit, [LimitNext]_limitVars
             PROVE  LimitInv' /\ TimerCoversLimit'
  OBVIOUS
<1>1. CASE UNCHANGED limitVars
  BY <1>1 DEF limitVars, LimitInv, LimitTypeOK, LockInv, CheckedInv, TimerCoversLimit
<1>2. ASSUME NEW t \in Thread, LimitCall(t) PROVE LimitInv' /\ TimerCoversLimit'
  BY <1>2, LimitCallInv, CallCovers
<1>3. ASSUME NEW t \in Thread, LimitStep(t) PROVE LimitInv' /\ TimerCoversLimit'
  <2>1. LimitInv'
    BY <1>3, TaskLockInv, ReadOldInv, WriteNewInv, TaskUnlockInv, UpdateRlimitCpuInv, LimitReturnInv DEF LimitStep
  <2> QED BY <1>3, <2>1, StepCovers
<1>4. ASSUME NEW p \in Process, TimerFires(p) \/ ProcessExits(p) PROVE LimitInv' /\ TimerCoversLimit'
  BY <1>4, OtherStepsInv
<1> QED BY <1>1, <1>2, <1>3, <1>4 DEF LimitNext

LEMMA LimitInvariance == LimitSpec => [](LimitInv /\ TimerCoversLimit)
  BY LimitInitInv, LimitNextInv, PTL DEF LimitSpec

-----------------------------------------------------------------------------
\* The CPU timer that do_prlimit() arms behind the lock covers the soft limit
\* in force, for any number of calls that overtake each other.
THEOREM TimerCovers == LimitSpec => []TimerCoversLimit
  BY LimitInvariance, PTL

\* A step that writes a limit is one of a call that has checked it against the
\* limit it replaces.
LEMMA OnlyWrites ==
  ASSUME LimitInv, [LimitNext]_limitVars, NEW p \in Process, NEW r \in Resource, rlim'[p][r] # rlim[p][r]
  PROVE  \E t \in Thread : /\ WriteNew(t) /\ lcall[t].tsk = p /\ lcall[t].resource = r
                            /\ rlim'[p][r] = lcall[t].new
<1>1. PICK t \in Thread : WriteNew(t)
  <2>1. ASSUME NEW t \in Thread, LimitCall(t) PROVE UNCHANGED rlim
    BY <2>1 DEF LimitCall, OwnLimit, Prlimit64
  <2>2. ASSUME NEW t \in Thread, LimitStep(t), ~ WriteNew(t) PROVE UNCHANGED rlim
    BY <2>2 DEF LimitStep, TaskLock, ReadOld, TaskUnlock, UpdateRlimitCpu, LimitReturn
  <2>3. ASSUME NEW q \in Process, TimerFires(q) \/ ProcessExits(q) PROVE UNCHANGED rlim
    BY <2>3 DEF TimerFires, ProcessExits
  <2> QED BY <2>1, <2>2, <2>3 DEF LimitNext, limitVars
<1>2. rlim \in [Process -> [Resource -> Rlimit]] /\ lcall[t].tsk \in Process /\ lcall[t].resource \in Resource
  BY <1>1 DEF WriteNew, LimitInv, LimitTypeOK, LockInv, Locked
<1> QED BY <1>1, <1>2 DEF WriteNew

\* Whatever calls race, do_prlimit() replaces a limit only by one that its
\* caller may set in place of that very limit.
THEOREM ChangesAllowed == LimitSpec => ChangeAllowed
<1>1. ASSUME LimitInv, [LimitNext]_limitVars, NEW p \in Process, NEW r \in Resource, rlim'[p][r] # rlim[p][r]
      PROVE  /\ rlim'[p][r].cur <= rlim'[p][r].max
             /\ rlim'[p][r].max > rlim[p][r].max =>
                  \E t \in SysResource : lcall[t].at = "write" /\ lcall'[t].at = "unlock" /\ lcall[t].tsk = p
  <2>1. PICK t \in Thread : WriteNew(t) /\ lcall[t].tsk = p /\ lcall[t].resource = r /\ rlim'[p][r] = lcall[t].new
    BY <1>1, OnlyWrites
  <2>2. lcall[t].at = "write" /\ lcall'[t].at = "unlock" /\ lcall[t].new \in Rlimit /\ rlim[p][r] \in Rlimit
    BY <1>1, <2>1 DEF WriteNew, LimitInv, LimitTypeOK, LimitFrame, CheckedInv
  <2>3. MayReplace(t, lcall[t].new, rlim[p][r])
    BY <1>1, <2>1, <2>2 DEF LimitInv, CheckedInv
  <2> QED BY <2>1, <2>2, <2>3 DEF MayReplace, Rlimit
<1>2. LimitInv /\ [LimitNext]_limitVars =>
        [\A p \in Process, r \in Resource : rlim'[p][r] # rlim[p][r] =>
           /\ rlim'[p][r].cur <= rlim'[p][r].max
           /\ rlim'[p][r].max > rlim[p][r].max =>
                \E t \in SysResource : lcall[t].at = "write" /\ lcall'[t].at = "unlock"
                  /\ lcall[t].tsk = p]_limitVars
  BY <1>1
<1> QED BY <1>2, LimitInvariance, PTL DEF LimitSpec, ChangeAllowed

\* The old limit that prlimit64 reports is the one its new limit replaces.
THEOREM OldReplaced == LimitSpec => OldIsReplaced
<1>1. LimitInv /\ [LimitNext]_limitVars =>
        [\A t \in Thread : lcall[t].at = "write" /\ lcall'[t].at = "unlock" /\ lcall[t].old # NOTHING =>
           lcall[t].old = rlim[lcall[t].tsk][lcall[t].resource]]_limitVars
  BY DEF LimitInv, CheckedInv
<1> QED BY <1>1, LimitInvariance, PTL DEF LimitSpec, OldIsReplaced

-----------------------------------------------------------------------------
USE DEF BootStep, InitStep

\* The places of the boot thread before rest_init(), and behind.
Options == {"setup_boot_config", "setup_command_line", "parse_args", "init_args", "extra_init_args",
            "rest_init", "panic"}
BootStages == Options \cup {"spawn_kthreadd", "find_kthreadd", "scheduling", "complete", "idle"}

\* What the boot thread has done for the others at each of its places.
ThreadInv ==
  /\ boot \in BootStages
  /\ boot \in Options => kinit = "none" /\ init_pid = 0 /\ next_pid = 1
  /\ boot = "spawn_kthreadd" => next_pid = 2
  /\ boot = "find_kthreadd" => next_pid = 3
  /\ boot \notin Options => init_pid = 1
  /\ boot \notin Options \cup {"idle"} => kinit = "wait"
  /\ boot \in Options \cup {"spawn_kthreadd", "find_kthreadd"} => kthreadd_task = NONE
  /\ boot \in {"scheduling", "complete", "idle"} => kthreadd_task = 2
  /\ boot \in {"complete", "idle"} => system_state # "BOOTING"
  /\ system_state \in {"BOOTING", "SCHEDULING", "FREEING_INITMEM", "RUNNING"}
  /\ kthreadd_done => boot = "idle"
  /\ kinit \notin {"none", "wait"} => boot = "idle"

LEMMA OptionPlaces ==
  ASSUME OptionNext PROVE boot \in Options \ {"rest_init"} /\ boot' \in Options
<1>1. CASE SetupBootConfig
  BY <1>1 DEF SetupBootConfig, Options
<1>2. CASE SetupCommandLine
  BY <1>2 DEF SetupCommandLine, Options
<1>3. CASE UnknownBootoption
  BY <1>3 DEF UnknownBootoption, Options
<1>4. CASE MainOptionsRead
  BY <1>4 DEF MainOptionsRead, Options
<1>5. CASE SetInitArg
  BY <1>5 DEF SetInitArg, Options
<1>6. CASE InitArgsRead
  BY <1>6 DEF InitArgsRead, Options
<1>7. CASE ConsoleInit
  BY <1>7 DEF ConsoleInit, Options
<1> QED BY <1>1, <1>2, <1>3, <1>4, <1>5, <1>6, <1>7 DEF OptionNext

LEMMA ThreadInit == BootInit => ThreadInv
  BY DEF BootInit, OptionInit, ThreadInv, BootStages, Options

LEMMA ThreadNext == ThreadInv /\ [BootNext]_bootVars => ThreadInv'
<1> SUFFICES ASSUME ThreadInv, [BootNext]_bootVars PROVE ThreadInv'
  OBVIOUS
<1> USE DEF ThreadInv, BootStages, Options
<1>1. CASE OptionNext /\ UNCHANGED startVars
  BY <1>1, OptionPlaces DEF startVars, threadVars
<1>2. CASE SpawnInit
  BY <1>2 DEF SpawnInit
<1>3. CASE SpawnKthreadd
  BY <1>3 DEF SpawnKthreadd
<1>4. CASE FindKthreadd
  BY <1>4 DEF FindKthreadd
<1>5. CASE ScheduleState
  BY <1>5 DEF ScheduleState, threadVars
<1>6. CASE Complete
  BY <1>6 DEF Complete
<1>7. CASE WaitForKthreadd
  BY <1>7 DEF WaitForKthreadd, optionVars, threadVars
<1>8. CASE WorkqueueInit
  BY <1>8 DEF WorkqueueInit, optionVars
<1>9. CASE KthreadsMade
  BY <1>9 DEF KthreadsMade, optionVars, threadVars
<1>10. CASE DoOneInitcall
  BY <1>10 DEF DoOneInitcall, optionVars, threadVars
<1>11. CASE DoInitcallLevel
  BY <1>11 DEF DoInitcallLevel, optionVars, threadVars
<1>12. CASE EarlyUserspace
  BY <1>12 DEF EarlyUserspace, threadVars
<1>13. CASE AsyncSynchronize
  BY <1>13 DEF AsyncSynchronize, optionVars, threadVars
<1>14. CASE FreeInitmem
  BY <1>14 DEF FreeInitmem, optionVars, threadVars
<1>15. CASE RunInitProcess
  BY <1>15 DEF RunInitProcess, threadVars
<1>16. CASE KthreaddServes
  BY <1>16 DEF KthreaddServes, optionVars
<1>17. CASE \E w \in AsyncCalls : AsyncRun(w)
  BY <1>17 DEF AsyncRun, optionVars, threadVars
<1>18. CASE UNCHANGED bootVars
  BY <1>18 DEF bootVars, optionVars, startVars, threadVars
<1> QED BY <1>1, <1>2, <1>3, <1>4, <1>5, <1>6, <1>7, <1>8, <1>9, <1>10, <1>11, <1>12, <1>13, <1>14,
           <1>15, <1>16, <1>17, <1>18 DEF BootNext, BootThread, RestInit, KernelInit

\* init has pid 1 and asks for kthreads only when kthreadd_task is set and the
\* state says that threads are scheduled (rest_init() and kernel_init()),
\* however the threads are scheduled and however many initcalls there are.
THEOREM InitIsHandedOver == BootSpec => []HandOver
<1>1. ThreadInv => HandOver
  <2>1. StateRank["SCHEDULING"] >= 1 /\ StateRank["FREEING_INITMEM"] >= 1 /\ StateRank["RUNNING"] >= 1
    BY DEF StateRank
  <2> QED BY <2>1, OptionAssumption DEF ThreadInv, HandOver, BootStages, Options
<1> QED BY <1>1, ThreadInit, ThreadNext, PTL DEF BootSpec

-----------------------------------------------------------------------------
\* f is among the functions s.
Holds(s, f) == \E i \in 1..Len(s) : s[i] = f

\* The unpacking of the initramfs is excluded, has been started or has ended.
Unpacking == PopulateRootfs \in async \/ populated \/ PopulateRootfs \in blacklisted_initcalls

CallsInv ==
  /\ level \in 1..Len(Levels) /\ todo \in Seq(STRING)
  /\ kinit \in {"none", "wait", "workqueue_init", "kthread_wait"} => level = 1
  /\ kinit = "initcalls" =>
       \A l \in 1..level : Holds(Levels[l], PopulateRootfs) => Unpacking \/ Holds(todo, PopulateRootfs)
  /\ kinit \in {"async_synchronize", "free_initmem"} => todo = <<>> /\ level = Len(Levels)
  /\ kinit = "free_initmem" => async = {}
  /\ ~ initmem => kinit \in {"run_init", "user", "panic"} /\ InitmemUnused

LEMMA CallsInit == BootInit => CallsInv
  BY StartAssumption DEF BootInit, CallsInv, InitmemUnused

LEMMA HeadHolds ==
  ASSUME NEW s \in Seq(STRING), s # <<>>, NEW f, Holds(s, f) PROVE f = Head(s) \/ Holds(Tail(s), f)
<1>1. PICK i \in 1..Len(s) : s[i] = f
  BY DEF Holds
<1>2. CASE i = 1
  BY <1>1, <1>2
<1>3. CASE i # 1
  BY <1>1, <1>3 DEF Holds
<1> QED BY <1>2, <1>3

LEMMA CallsNext == ThreadInv /\ CallsInv /\ [BootNext]_bootVars => CallsInv'
<1> SUFFICES ASSUME ThreadInv, CallsInv, [BootNext]_bootVars PROVE CallsInv'
  OBVIOUS
<1> USE DEF CallsInv, InitmemUnused, Unpacking
<1>a. Len(Levels) \in Nat /\ \A l \in 1..Len(Levels) : Levels[l] \in Seq(STRING)
  BY StartAssumption
<1>1. CASE OptionNext /\ UNCHANGED startVars
  BY <1>1, OptionPlaces DEF startVars, threadVars, callVars, lateVars, ThreadInv, Options
<1>2. CASE RestInit
  BY <1>2 DEF RestInit, SpawnInit, SpawnKthreadd, FindKthreadd, ScheduleState, Complete, threadVars,
              programVars, callVars, lateVars, ThreadInv, Options
<1>3. CASE WaitForKthreadd
  BY <1>3 DEF WaitForKthreadd, optionVars, programVars, callVars, lateVars
<1>4. CASE WorkqueueInit
  BY <1>4 DEF WorkqueueInit, optionVars, programVars, callVars, lateVars
<1>5. CASE KthreadsMade
  BY <1>5, <1>a DEF KthreadsMade, optionVars, programVars, lateVars
<1>6. CASE DoOneInitcall
  <2> DEFINE fn == Head(todo)
  <2>1. /\ kinit = "initcalls" /\ kinit' = kinit /\ todo # <<>> /\ todo' = Tail(todo)
        /\ UNCHANGED <<level, populated, initmem, boot, blacklisted_initcalls>>
    BY <1>6 DEF DoOneInitcall, optionVars, programVars
  <2>2. async \subseteq async' /\ (fn = PopulateRootfs => Unpacking')
    BY <1>6, StartAssumption DEF DoOneInitcall, optionVars, programVars
  <2>3. todo' \in Seq(STRING)
    BY <2>1
  <2>4. ASSUME NEW l \in 1..level', Holds(Levels[l], PopulateRootfs)
        PROVE  Unpacking' \/ Holds(todo', PopulateRootfs)
    <3>1. Unpacking \/ Holds(todo, PopulateRootfs)
      BY <2>1, <2>4
    <3>2. CASE Unpacking
      BY <2>1, <2>2, <3>2
    <3>3. CASE Holds(todo, PopulateRootfs)
      BY <2>1, <2>2, <3>3, HeadHolds
    <3> QED BY <3>1, <3>2, <3>3
  <2> QED BY <2>1, <2>3, <2>4
<1>7. CASE DoInitcallLevel
  <2>1. /\ kinit = "initcalls" /\ todo = <<>> /\ level < Len(Levels)
        /\ UNCHANGED <<async, populated, initmem, boot, blacklisted_initcalls>>
    BY <1>7 DEF DoInitcallLevel, optionVars, programVars, lateVars
  <2>2. CASE kinit' = "panic" /\ UNCHANGED <<level, todo>>
    BY <2>1, <2>2
  <2>3. CASE kinit' = "initcalls" /\ level' = level + 1 /\ todo' = Levels[level + 1]
    <3>1. ~ Holds(todo, PopulateRootfs)
      BY <2>1 DEF Holds
    <3>2. ASSUME NEW l \in 1..level', Holds(Levels[l], PopulateRootfs)
          PROVE  Unpacking' \/ Holds(todo', PopulateRootfs)
      BY <2>1, <2>3, <3>1, <3>2
    <3> QED BY <1>a, <2>1, <2>3, <3>2
  <2> QED BY <1>7, <2>2, <2>3 DEF DoInitcallLevel
<1>8. CASE EarlyUserspace
  BY <1>8 DEF EarlyUserspace, programVars, callVars, lateVars
<1>9. CASE AsyncSynchronize
  BY <1>9 DEF AsyncSynchronize, optionVars, programVars, callVars, lateVars
<1>10. CASE FreeInitmem
  BY <1>10 DEF FreeInitmem, optionVars, programVars, callVars, ThreadInv
<1>11. CASE RunInitProcess
  BY <1>11 DEF RunInitProcess, programVars, callVars
<1>12. CASE KthreaddServes
  BY <1>12 DEF KthreaddServes, optionVars, programVars, callVars, lateVars
<1>13. CASE \E w \in AsyncCalls : AsyncRun(w)
  <2>1. PICK w \in AsyncCalls : AsyncRun(w)
    BY <1>13
  <2>2. /\ async' = async \ {w} /\ w \in async /\ populated' = (populated \/ w = PopulateRootfs)
        /\ UNCHANGED <<kinit, level, todo, initmem, boot, blacklisted_initcalls>>
    BY <2>1 DEF AsyncRun, optionVars, programVars, callVars
  <2>3. Unpacking => Unpacking'
    BY <2>2
  <2> HIDE DEF Unpacking
  <2> QED BY <2>2, <2>3
<1>14. CASE UNCHANGED bootVars
  BY <1>14 DEF bootVars, optionVars, programVars, startVars, callVars, lateVars
<1> QED BY <1>1, <1>2, <1>3, <1>4, <1>5, <1>6, <1>7, <1>8, <1>9, <1>10, <1>11, <1>12, <1>13, <1>14
        DEF BootNext, BootThread, KernelInit

\* The invariant of the start of the kernel.
StartInv == ThreadInv /\ CallsInv

\* It holds for every set of levels, options and asynchronous calls.
THEOREM StartInvariant == BootSpec => []StartInv
<1>1. BootInit => StartInv
  BY ThreadInit, CallsInit DEF StartInv
<1>2. StartInv /\ [BootNext]_bootVars => StartInv'
  BY ThreadNext, CallsNext DEF StartInv
<1> QED BY <1>1, <1>2, PTL DEF BootSpec

\* When free_initmem() has run no initcall and no asynchronous call is left that
\* could still run: kernel_init() synchronises with them before.
THEOREM FreedMemoryIsUnused == BootSpec => []InitmemUnused
<1>1. StartInv => InitmemUnused
  BY DEF StartInv, CallsInv, InitmemUnused
<1> QED BY <1>1, StartInvariant, PTL

\* The lookup of the early init program in kernel_init_freeable() comes after the
\* initramfs has been unpacked, unless unpacking was excluded by an option.
THEOREM EarlyInitIsFound == BootSpec => EarlyInitFound
<1> DEFINE Kept == ramdisk_execute_command' = NONE /\ ramdisk_execute_command # NONE =>
              ramdisk_execute_command \notin machine.initramfs \/ PopulateRootfs \in blacklisted_initcalls
<1>1. ASSUME StartInv, BootNext, ramdisk_execute_command' = NONE, ramdisk_execute_command # NONE
      PROVE  ramdisk_execute_command \notin machine.initramfs \/ PopulateRootfs \in blacklisted_initcalls
  <2>1. CASE EarlyUserspace
    <3>1. Unpacking
      <4>1. PICK l \in 1..Len(Levels) : Holds(Levels[l], PopulateRootfs)
        BY StartAssumption DEF Holds
      <4>2. kinit = "initcalls" /\ level = Len(Levels) /\ todo = <<>>
        BY <2>1 DEF EarlyUserspace
      <4>3. ~ Holds(todo, PopulateRootfs)
        BY <4>2 DEF Holds
      <4> QED BY <1>1, <4>1, <4>2, <4>3 DEF StartInv, CallsInv
    <3> QED BY <1>1, <2>1, <3>1 DEF EarlyUserspace, Unpacking
  <2>2. CASE OptionNext
    <3>1. UNCHANGED ramdisk_execute_command \/ UnknownBootoption
      BY <2>2 DEF OptionNext, SetupBootConfig, SetupCommandLine, MainOptionsRead, SetInitArg, InitArgsRead,
                  ConsoleInit, programVars
    <3>2. CASE UnknownBootoption
      BY <1>1, <3>2 DEF UnknownBootoption, Setup, programVars
    <3> QED BY <1>1, <3>1, <3>2
  <2>3. CASE ~ OptionNext /\ ~ EarlyUserspace
    <3>1. UNCHANGED ramdisk_execute_command
      BY <1>1, <2>3 DEF BootNext, BootThread, KernelInit, RestInit, SpawnInit, SpawnKthreadd, FindKthreadd,
           ScheduleState, Complete, WaitForKthreadd, WorkqueueInit, KthreadsMade, DoOneInitcall,
           DoInitcallLevel, AsyncSynchronize, FreeInitmem, RunInitProcess, KthreaddServes, AsyncRun,
           optionVars, programVars
    <3> QED BY <1>1, <3>1
  <2> QED BY <2>1, <2>2, <2>3
<1>2. StartInv /\ [BootNext]_bootVars => [Kept]_bootVars
  BY <1>1
<1> QED BY <1>2, StartInvariant, PTL DEF BootSpec, EarlyInitFound

-----------------------------------------------------------------------------
INSTANCE FiniteSetTheorems

PreCalls == {"none", "wait", "workqueue_init", "kthread_wait"}

\* The order of the calls, for the levels that kernel_init() has reached.
Ordered ==
  /\ IsFiniteSet(Behind) /\ Len(todo) <= Len(Levels[level])
  /\ Len(called) = Cardinality(Behind)
  /\ \A p \in Behind : called[Cardinality(UpTo(p))] = Function(p)
  /\ \A i \in 1..Len(todo) : todo[i] = Levels[level][Len(Levels[level]) - Len(todo) + i]

OrderInv ==
  /\ called \in Seq(STRING)
  /\ kinit \in PreCalls => called = <<>>
  /\ kinit \notin PreCalls => Ordered

\* The place with number i of level l has been passed, and is not excluded.
PassedBy(l, i) == /\ l = level => i <= Len(Levels[level]) - Len(todo)
                  /\ Levels[l][i] \notin blacklisted_initcalls

LEMMA BehindIs ==
  \A p : p \in Behind <=> \E l \in 1..level : \E i \in 1..Len(Levels[l]) : p = <<l, i>> /\ PassedBy(l, i)
<1>1. \A p : p \in Places <=> \E l \in 1..level : \E i \in 1..Len(Levels[l]) : p = <<l, i>>
  BY DEF Places
<1>2. \A l, i : <<l, i>>[1] = l /\ <<l, i>>[2] = i
  OBVIOUS
<1>3. \A p : p \in Places => (p \in Behind <=> PassedBy(p[1], p[2]))
  BY DEF Behind, Function, PassedBy
<1>4. \A p : p \in Behind => p \in Places
  BY DEF Behind
<1>5. \A p, l, i : p = <<l, i>> => (PassedBy(p[1], p[2]) <=> PassedBy(l, i))
  BY <1>2
<1> QED BY <1>1, <1>3, <1>4, <1>5

LEMMA BehindIsNext ==
  \A p : p \in Behind' <=> \E l \in 1..level' : \E i \in 1..Len(Levels[l]) : p = <<l, i>> /\ PassedBy(l, i)'
<1>1. \A p : p \in Places' <=> \E l \in 1..level' : \E i \in 1..Len(Levels[l]) : p = <<l, i>>
  BY DEF Places
<1>2. \A l, i : <<l, i>>[1] = l /\ <<l, i>>[2] = i
  OBVIOUS
<1>3. \A p : p \in Places' => (p \in Behind' <=> PassedBy(p[1], p[2])')
  BY DEF Behind, Function, PassedBy
<1>4. \A p : p \in Behind' => p \in Places'
  BY DEF Behind
<1>5. \A p, l, i : p = <<l, i>> => (PassedBy(p[1], p[2])' <=> PassedBy(l, i)')
  BY <1>2
<1> QED BY <1>1, <1>3, <1>4, <1>5

LEMMA BehindTyped == level \in Nat => \A p \in Behind : p[1] \in Int /\ p[2] \in Int
<1> SUFFICES ASSUME level \in Nat, NEW p \in Behind PROVE p[1] \in Int /\ p[2] \in Int
  OBVIOUS
<1>1. PICK l \in 1..level : \E i \in 1..Len(Levels[l]) : p = <<l, i>> /\ PassedBy(l, i)
  BY BehindIs
<1>2. PICK i \in 1..Len(Levels[l]) : p = <<l, i>>
  BY <1>1
<1> QED BY <1>2

\* The rest of the level behind its next function.
LEMMA TailOf ==
  ASSUME todo \in Seq(STRING), Len(todo) > 0, todo' = Tail(todo), level' = level, Ordered,
         Len(Levels[level]) \in Nat
  PROVE  \A i \in 1..Len(todo') : todo'[i] = Levels[level][Len(Levels[level]) - Len(todo') + i]
<1> DEFINE n == Len(Levels[level])
<1> SUFFICES ASSUME NEW i \in 1..Len(todo') PROVE todo'[i] = Levels[level][n - Len(todo') + i]
  OBVIOUS
<1>1. todo'[i] = todo[i + 1] /\ i + 1 \in 1..Len(todo) /\ Len(todo') = Len(todo) - 1
  OBVIOUS
<1>2. todo[i + 1] = Levels[level][n - Len(todo) + (i + 1)]
  BY <1>1 DEF Ordered
<1>3. n - Len(todo) + (i + 1) = n - Len(todo') + i
  <2>1. PICK a, b, c : a = Len(todo) /\ b = Len(todo') /\ c = n
    OBVIOUS
  <2>2. a \in Int /\ b \in Int /\ c \in Int /\ b = a - 1
    BY <1>1, <2>1
  <2>3. c - a + (i + 1) = c - b + i
    BY <2>2
  <2> QED BY <2>1, <2>3
<1> QED BY <1>1, <1>2, <1>3

\* The first level starts.
LEMMA OrderStarts ==
  ASSUME level \in 1..Len(Levels), Levels[level] \in Seq(STRING),
         level' = level, level = 1, todo' = Levels[1], called' = <<>>
  PROVE  Ordered'
<1>1. Behind' = {}
  <2>1. \A l \in 1..level' : \A i \in 1..Len(Levels[l]) : ~ PassedBy(l, i)'
    BY DEF PassedBy
  <2> QED BY <2>1, BehindIsNext
<1> QED BY <1>1, FS_EmptySet DEF Ordered

\* The next level starts.
LEMMA OrderGoesOn ==
  ASSUME level \in 1..Len(Levels), level + 1 \in 1..Len(Levels),
         Levels[level] \in Seq(STRING), Levels[level + 1] \in Seq(STRING), Ordered, todo = <<>>,
         level' = level + 1, todo' = Levels[level + 1], UNCHANGED <<called, blacklisted_initcalls>>
  PROVE  Ordered'
<1>1. Behind' = Behind
  <2>1. \A l \in 1..level' : \A i \in 1..Len(Levels[l]) : PassedBy(l, i)' => l \in 1..level /\ PassedBy(l, i)
    BY DEF PassedBy
  <2>2. \A l \in 1..level : \A i \in 1..Len(Levels[l]) : PassedBy(l, i) => l \in 1..level' /\ PassedBy(l, i)'
    BY DEF PassedBy
  <2>3. \A p : p \in Behind' <=> p \in Behind
    BY <2>1, <2>2, BehindIs, BehindIsNext
  <2> QED BY <2>3
<1>2. \A p : UpTo(p)' = UpTo(p) /\ Function(p)' = Function(p)
  BY <1>1 DEF UpTo, Function
<1> QED BY <1>1, <1>2 DEF Ordered

\* A function is passed over.
LEMMA OrderSkips ==
  ASSUME level \in 1..Len(Levels), Levels[level] \in Seq(STRING), todo \in Seq(STRING), Ordered, todo # <<>>,
         Head(todo) \in blacklisted_initcalls, todo' = Tail(todo),
           UNCHANGED <<level, called, blacklisted_initcalls>>
  PROVE  Ordered'
<1> DEFINE n == Len(Levels[level])
           k == n - Len(todo) + 1
<1>a. n \in Nat /\ Len(todo) \in 1..n /\ k \in 1..n /\ Len(todo') = Len(todo) - 1
  BY DEF Ordered
<1>b. Levels[level][k] = Head(todo)
  BY <1>a DEF Ordered
<1>1. Behind' = Behind
  <2>1. \A l \in 1..level : \A i \in 1..Len(Levels[l]) : PassedBy(l, i)' <=> PassedBy(l, i)
    BY <1>a, <1>b DEF PassedBy
  <2>2. \A p : p \in Behind' <=> p \in Behind
    BY <2>1, BehindIs, BehindIsNext
  <2> QED BY <2>2
<1>2. \A p : UpTo(p)' = UpTo(p) /\ Function(p)' = Function(p)
  BY <1>1 DEF UpTo, Function
<1>3. \A i \in 1..Len(todo') : todo'[i] = Levels[level][n - Len(todo') + i]
  BY <1>a, TailOf
<1> QED BY <1>a, <1>1, <1>2, <1>3 DEF Ordered

-----------------------------------------------------------------------------
\* A function is called.
LEMMA OrderCalls ==
  ASSUME level \in 1..Len(Levels), Levels[level] \in Seq(STRING), todo \in Seq(STRING), called \in Seq(STRING),
         Ordered, todo # <<>>, Head(todo) \notin blacklisted_initcalls, todo' = Tail(todo),
         called' = Append(called, Head(todo)), UNCHANGED <<level, blacklisted_initcalls>>
  PROVE  Ordered'
<1>n. PICK n : n = Len(Levels[level])
  OBVIOUS
<1>k. PICK k : k = n - Len(todo) + 1
  OBVIOUS
<1>a. /\ n \in Nat /\ Len(todo) \in 1..n /\ k \in 1..n /\ Len(todo') = Len(todo) - 1
      /\ n - Len(todo') = k /\ n - Len(todo) = k - 1
  BY <1>n, <1>k DEF Ordered
<1>b. Levels[level][k] = Head(todo)
  BY <1>a, <1>n, <1>k DEF Ordered
<1>c. level' = level /\ level \in Nat
  OBVIOUS
<1>l. PICK last : last = <<level, k>>
  OBVIOUS
<1>1. Behind' = Behind \cup {last}
  <2>1. ASSUME NEW l \in 1..level, NEW i \in 1..Len(Levels[l])
        PROVE  PassedBy(l, i)' <=> PassedBy(l, i) \/ (l = level /\ i = k)
    <3>1. CASE l = level
      BY <1>a, <1>b, <1>n, <2>1, <3>1 DEF PassedBy
    <3>2. CASE l # level
      BY <3>2 DEF PassedBy
    <3> QED BY <3>1, <3>2
  <2>2. ASSUME NEW p \in Behind' PROVE p \in Behind \/ p = last
    <3>1. PICK l \in 1..level : \E i \in 1..Len(Levels[l]) : p = <<l, i>> /\ PassedBy(l, i)'
      BY <1>c, <2>2, BehindIsNext
    <3>2. PICK i \in 1..Len(Levels[l]) : p = <<l, i>> /\ PassedBy(l, i)'
      BY <3>1
    <3>3. CASE PassedBy(l, i)
      BY <3>2, <3>3, BehindIs
    <3>4. CASE l = level /\ i = k
      BY <1>l, <3>2, <3>4
    <3> QED BY <2>1, <3>2, <3>3, <3>4
  <2>3. ASSUME NEW p \in Behind PROVE p \in Behind'
    <3>1. PICK l \in 1..level : \E i \in 1..Len(Levels[l]) : p = <<l, i>> /\ PassedBy(l, i)
      BY <2>3, BehindIs
    <3>2. PICK i \in 1..Len(Levels[l]) : p = <<l, i>> /\ PassedBy(l, i)
      BY <3>1
    <3>3. PassedBy(l, i)'
      BY <2>1, <3>2
    <3> QED BY <1>c, <3>2, <3>3, BehindIsNext
  <2>4. last \in Behind'
    <3>1. level \in 1..level /\ k \in 1..Len(Levels[level])
      BY <1>a, <1>c, <1>n
    <3>2. PassedBy(level, k)'
      BY <2>1, <3>1
    <3> QED BY <1>c, <1>l, <3>1, <3>2, BehindIsNext
  <2> QED BY <2>2, <2>3, <2>4
<1>2. \A p \in Behind : p[1] < level \/ (p[1] = level /\ p[2] < k)
  <2> SUFFICES ASSUME NEW p \in Behind PROVE p[1] < level \/ (p[1] = level /\ p[2] < k)
    OBVIOUS
  <2>1. PICK l \in 1..level : \E i \in 1..Len(Levels[l]) : p = <<l, i>> /\ PassedBy(l, i)
    BY BehindIs
  <2>2. PICK i \in 1..Len(Levels[l]) : p = <<l, i>> /\ PassedBy(l, i)
    BY <2>1
  <2>3. p[1] = l /\ p[2] = i /\ (l = level => i <= k - 1)
    BY <1>a, <1>n, <2>2 DEF PassedBy
  <2>4. l \in Int /\ i \in Int /\ l <= level
    BY <1>c
  <2> QED BY <1>a, <1>c, <2>3, <2>4
<1>4. last[1] = level /\ last[2] = k /\ Function(last)' = Head(todo)
  BY <1>b, <1>l DEF Function
<1>3. last \notin Behind
  <2>1. last \in Behind => level < level \/ k < k
    BY <1>2, <1>4
  <2> QED BY <1>a, <1>c, <2>1
<1>5. \A p \in Behind : UpTo(p)' = UpTo(p) /\ Function(p)' = Function(p)
  <2> SUFFICES ASSUME NEW p \in Behind PROVE UpTo(p)' = UpTo(p) /\ Function(p)' = Function(p)
    OBVIOUS
  <2>1. p[1] \in Int /\ p[2] \in Int
    BY <1>c, BehindTyped
  <2>2. ~ (last[1] < p[1] \/ (last[1] = p[1] /\ last[2] <= p[2]))
    <3>2. ~ (level < p[1] \/ (level = p[1] /\ k <= p[2]))
      <4>1. PICK x, y : x = p[1] /\ y = p[2]
        OBVIOUS
      <4>2. x < level \/ (x = level /\ y < k)
        BY <1>2, <4>1
      <4>3. x \in Int /\ y \in Int /\ level \in Int /\ k \in Int
        BY <1>a, <1>c, <2>1, <4>1
      <4>4. ~ (level < x \/ (level = x /\ k <= y))
        BY <4>2, <4>3
      <4> QED BY <4>1, <4>4
    <3> QED BY <1>4, <3>2
  <2>3. UpTo(p)' = UpTo(p)
    BY <1>1, <2>2 DEF UpTo
  <2> QED BY <2>3 DEF Function
<1>6. UpTo(last)' = Behind'
  <2>1. \A p \in Behind : p[1] < last[1] \/ (p[1] = last[1] /\ p[2] <= last[2])
    BY <1>2, <1>4, <1>a, <1>c, BehindTyped
  <2>2. last[2] <= last[2]
    BY <1>a, <1>4
  <2> QED BY <1>1, <2>1, <2>2 DEF UpTo
<1>7. IsFiniteSet(Behind') /\ Cardinality(Behind') = Len(called) + 1 /\ Len(called') = Len(called) + 1
  BY <1>1, <1>3, FS_AddElement DEF Ordered
<1>8. \A p \in Behind : Cardinality(UpTo(p)) \in 1..Len(called)
  <2> SUFFICES ASSUME NEW p \in Behind PROVE Cardinality(UpTo(p)) \in 1..Len(called)
    OBVIOUS
  <2>1. UpTo(p) \in SUBSET Behind
    BY DEF UpTo
  <2>2. p \in UpTo(p)
    BY BehindTyped DEF UpTo
  <2>3. IsFiniteSet(UpTo(p)) /\ Cardinality(UpTo(p)) <= Len(called)
    BY <2>1, FS_Subset DEF Ordered
  <2>4. Cardinality(UpTo(p)) \in Nat /\ Cardinality(UpTo(p)) # 0
    BY <2>2, <2>3, FS_CardinalityType, FS_EmptySet
  <2> QED BY <2>3, <2>4
<1>9. ASSUME NEW p \in Behind' PROVE called'[Cardinality(UpTo(p)')] = Function(p)'
  <2>1. CASE p \in Behind
    <3>1. called'[Cardinality(UpTo(p))] = called[Cardinality(UpTo(p))]
      BY <1>8, <2>1
    <3> QED BY <1>5, <2>1, <3>1 DEF Ordered
  <2>2. CASE p = last
    <3>1. called'[Len(called) + 1] = Head(todo)
      OBVIOUS
    <3> QED BY <1>4, <1>6, <1>7, <2>2, <3>1
  <2> QED BY <1>1, <2>1, <2>2
<1>10. \A i \in 1..Len(todo') : todo'[i] = Levels[level][Len(Levels[level]) - Len(todo') + i]
  <2>1. Len(todo) > 0 /\ Len(Levels[level]) \in Nat /\ level' = level
    BY <1>a, <1>n
  <2> QED BY <2>1, TailOf
<1>11. Len(todo') <= Len(Levels[level])
  BY <1>a, <1>n
<1> QED BY <1>c, <1>7, <1>9, <1>10, <1>11 DEF Ordered

-----------------------------------------------------------------------------
LEMMA OrderStays ==
  ASSUME UNCHANGED <<level, todo, called, blacklisted_initcalls>> PROVE Ordered' = Ordered
<1>1. Behind' = Behind
  BY DEF Behind, Places, Function
<1>2. \A p : UpTo(p)' = UpTo(p) /\ Function(p)' = Function(p)
  BY <1>1 DEF UpTo, Function
<1> QED BY <1>1, <1>2 DEF Ordered

LEMMA OrderNext == StartInv /\ OrderInv /\ [BootNext]_bootVars => OrderInv'
<1> SUFFICES ASSUME StartInv, OrderInv, [BootNext]_bootVars PROVE OrderInv'
  OBVIOUS
<1> USE DEF OrderInv
<1>a. /\ level \in 1..Len(Levels) /\ Levels[level] \in Seq(STRING) /\ todo \in Seq(STRING)
      /\ \A l \in 1..Len(Levels) : Levels[l] \in Seq(STRING)
  <2>1. \A l \in 1..Len(Levels) : Levels[l] \in Seq(STRING)
    BY StartAssumption
  <2>2. level \in 1..Len(Levels) /\ todo \in Seq(STRING)
    BY DEF StartInv, CallsInv
  <2> QED BY <2>1, <2>2
<1>1. CASE OptionNext /\ UNCHANGED startVars
  BY <1>1, OptionPlaces DEF startVars, callVars, StartInv, ThreadInv, Options, PreCalls
<1>2. CASE RestInit
  <2>1. kinit \in PreCalls /\ kinit' \in PreCalls /\ UNCHANGED called
    BY <1>2 DEF RestInit, SpawnInit, SpawnKthreadd, FindKthreadd, ScheduleState, Complete, callVars,
                StartInv, ThreadInv, Options, PreCalls
  <2> QED BY <2>1
<1>3. CASE WaitForKthreadd \/ WorkqueueInit
  <2>1. kinit \in PreCalls /\ kinit' \in PreCalls /\ UNCHANGED called
    BY <1>3 DEF WaitForKthreadd, WorkqueueInit, callVars, PreCalls
  <2> QED BY <2>1
<1>4. CASE KthreadsMade
  <2>1. kinit \in PreCalls /\ kinit' = "initcalls" /\ level' = level /\ level = 1 /\ todo' = Levels[1]
        /\ called' = <<>>
    BY <1>4 DEF KthreadsMade, PreCalls, StartInv, CallsInv
  <2> QED BY <1>a, <2>1, OrderStarts DEF PreCalls
<1>5. CASE DoOneInitcall
  <2>1. /\ kinit = "initcalls" /\ kinit' = "initcalls" /\ todo # <<>> /\ todo' = Tail(todo)
        /\ UNCHANGED <<level, blacklisted_initcalls>>
    BY <1>5 DEF DoOneInitcall, optionVars, programVars
  <2>2. Ordered
    BY <2>1 DEF PreCalls
  <2>3. CASE Head(todo) \in blacklisted_initcalls
    <3>1. UNCHANGED called
      BY <1>5, <2>3 DEF DoOneInitcall
    <3> QED BY <1>a, <2>1, <2>2, <2>3, <3>1, OrderSkips DEF PreCalls
  <2>4. CASE Head(todo) \notin blacklisted_initcalls
    <3>1. called' = Append(called, Head(todo))
      BY <1>5, <2>4 DEF DoOneInitcall
    <3>2. Ordered'
      BY <1>a, <2>1, <2>2, <2>4, <3>1, OrderCalls
    <3>3. called' \in Seq(STRING)
      BY <1>a, <2>1, <3>1
    <3> QED BY <2>1, <3>2, <3>3 DEF PreCalls
  <2> QED BY <2>3, <2>4
<1>6. CASE DoInitcallLevel
  <2>1. kinit = "initcalls" /\ todo = <<>> /\ level < Len(Levels) /\ UNCHANGED <<called, blacklisted_initcalls>>
    BY <1>6 DEF DoInitcallLevel, optionVars, programVars
  <2>2. Ordered
    BY <2>1 DEF PreCalls
  <2>3. CASE kinit' = "panic" /\ UNCHANGED <<level, todo>>
    BY <2>1, <2>2, <2>3, OrderStays DEF PreCalls
  <2>4. CASE kinit' = "initcalls" /\ level' = level + 1 /\ todo' = Levels[level + 1]
    <3>1. level + 1 \in 1..Len(Levels)
      <4>1. Len(Levels) \in Nat
        BY StartAssumption
      <4> QED BY <1>a, <2>1, <4>1
    <3> QED BY <1>a, <2>1, <2>2, <2>4, <3>1, OrderGoesOn DEF PreCalls
  <2> QED BY <1>6, <2>3, <2>4 DEF DoInitcallLevel
<1>7. CASE EarlyUserspace \/ AsyncSynchronize \/ FreeInitmem \/ RunInitProcess
  <2>1. kinit \notin PreCalls /\ kinit' \notin PreCalls /\ UNCHANGED <<level, todo, called, blacklisted_initcalls>>
    BY <1>7 DEF EarlyUserspace, AsyncSynchronize, FreeInitmem, RunInitProcess, PreCalls, callVars, optionVars,
                programVars
  <2> QED BY <2>1, OrderStays
<1>8. CASE KthreaddServes \/ (\E w \in AsyncCalls : AsyncRun(w)) \/ UNCHANGED bootVars
  <2>1. UNCHANGED <<kinit, level, todo, called, blacklisted_initcalls>>
    BY <1>8 DEF KthreaddServes, AsyncRun, bootVars, startVars, callVars, optionVars, programVars
  <2> QED BY <2>1, OrderStays
<1> QED BY <1>1, <1>2, <1>3, <1>4, <1>5, <1>6, <1>7, <1>8 DEF BootNext, BootThread, KernelInit

\* do_initcalls() calls the functions level by level and in their order within a
\* level, each of them once, and leaves out exactly the excluded ones, for every
\* set of levels.
THEOREM InitcallsAreInOrder == BootSpec => []InitcallsInOrder
<1>1. BootInit => OrderInv
  BY DEF BootInit, OrderInv, PreCalls
<1>2. OrderInv => InitcallsInOrder
  BY DEF OrderInv, InitcallsInOrder, Ordered, PreCalls
<1> QED BY <1>1, <1>2, StartInvariant, OrderNext, PTL DEF BootSpec
==============================================================================
