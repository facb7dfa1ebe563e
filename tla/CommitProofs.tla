---------------------------- MODULE CommitProofs -----------------------------
(***************************************************************************)
(* Proofs about AddressSpace and Credentials, the calls that check a copy  *)
(* of what they are about to replace and commit it later: for any          *)
(* threads, layouts, tasks, users and groups.                              *)
(*                                                                         *)
(* MmInv says what a call on the address space relies on: which lock it    *)
(* has (LocksInv), what it has checked of its own copy (FrameOK), and      *)
(* that the copy is still the layout but for one mark (MarkInv).           *)
(*                                                                         *)
(* CredInv says the same of the copy of the credentials of a task          *)
(* (NewOK), and of the processes that a user is charged for.               *)
(***************************************************************************)
EXTENDS AddressSpace, Credentials, TLAPS

\* The time that a leaf may take.
USE ZenonT(10), SMTT(20)

\* Credentials that are charged to their real uid and whose capability is that
\* of their root ids.
CredOK(c) ==
  /\ c \in Cred
  /\ c.user = c.u.r /\ c.ucounts = c.u.r
  /\ c.effective <=> c.u.e = Root
  /\ c.permitted <=> HasRoot(c.u)

\* Where the ids i of a task may go from the ids old.
Within(i, old, cap) == cap \/ Three(i) \subseteq Three(old)

\* The copy n that a task with credentials c is about to commit.
NewOK(c, n) ==
  /\ CredOK(n) /\ n.g = c.g /\ n.u.fs = n.u.e
  /\ Within(n.u, c.u, c.effective)

CredInv ==
  /\ TypeOK
  /\ \A t \in Task : CredOK(cred[t])
  /\ \A t \in Task : pend[t] # NULL => NewOK(cred[t], pend[t])
  /\ \A t \in Task : flag[t] => (IF pend[t] = NULL THEN cred[t] ELSE pend[t]).user # Root
  /\ FsIdShadows
  /\ \A u \in Uid : nproc[u] = others[u] + Cardinality(Counted(u))

-----------------------------------------------------------------------------
(* The rules on ids. *)

LEMMA ReIds ==
  ASSUME NEW S, S \subseteq Nat, NEW i \in Ids(S), NEW r, NEW e, NEW cap \in BOOLEAN,
         Valid(S, {r, e}), MayRe(i, r, e, cap)
  PROVE  Re(i, r, e) \in Ids(S) /\ Re(i, r, e).fs = Re(i, r, e).e /\ Within(Re(i, r, e), i, cap)
BY DEF Ids, Valid, MayRe, Re, Pick, Within, Three, KEEP

LEMMA SetIds ==
  ASSUME NEW S, S \subseteq Nat, NEW i \in Ids(S), NEW x \in S, NEW cap \in BOOLEAN,
         MaySet(i, x, cap)
  PROVE  Set(i, x, cap) \in Ids(S) /\ Set(i, x, cap).fs = Set(i, x, cap).e
         /\ Within(Set(i, x, cap), i, cap)
BY DEF Ids, MaySet, Set, AllIds, Within, Three

LEMMA ResIds ==
  ASSUME NEW S, S \subseteq Nat, NEW i \in Ids(S), NEW r, NEW e, NEW s, NEW cap \in BOOLEAN,
         Valid(S, {r, e, s}), MayRes(i, r, e, s, cap)
  PROVE  Res(i, r, e, s) \in Ids(S) /\ Res(i, r, e, s).fs = Res(i, r, e, s).e
         /\ Within(Res(i, r, e, s), i, cap)
BY DEF Ids, Valid, MayRes, Res, Pick, Within, Three, KEEP

-----------------------------------------------------------------------------
(* The copy. *)

\* What the three fallible steps make of a copy whose uids are i.
LEMMA FilledOK ==
  ASSUME NEW c, CredOK(c), NEW i \in Ids(Uid), i.fs = i.e, Within(i, c.u, c.effective),
         NEW a \in SetUser(c, [c EXCEPT !.u = i]), a # NULL,
         NEW b \in FixSetuid(c, a), b # NULL,
         NEW n \in SetCredUcounts(b), n # NULL
  PROVE  NewOK(c, n)
<1>1. c \in Cred /\ c.u \in Ids(Uid) /\ c.effective \in BOOLEAN /\ c.permitted \in BOOLEAN
  BY DEF CredOK, Cred
<1>2. a \in Cred /\ a.u = i /\ a.g = c.g /\ a.user = i.r /\ a.ucounts = c.ucounts
      /\ a.permitted = c.permitted /\ a.effective = c.effective
  <2> DEFINE d == [c EXCEPT !.u = i]
  <2>1. /\ d \in Cred /\ d.u = i /\ d.g = c.g /\ d.user = c.user /\ d.ucounts = c.ucounts
        /\ d.permitted = c.permitted /\ d.effective = c.effective
    BY <1>1 DEF Cred
  <2>2. i.r \in Uid /\ c.user = c.u.r
    BY DEF Ids, CredOK
  <2>3. a \in SetUser(c, d)
    OBVIOUS
  <2> HIDE DEF d
  <2>4. CASE i.r = c.u.r
    BY <2>1, <2>2, <2>3, <2>4 DEF SetUser
  <2>5. CASE i.r # c.u.r
    <3>1. a = [d EXCEPT !.user = i.r]
      BY <2>1, <2>3, <2>5 DEF SetUser
    <3> QED
      BY <2>1, <2>2, <3>1 DEF Cred
  <2> QED
    BY <2>4, <2>5
<1>3. b \in Cred /\ b.u = i /\ b.g = c.g /\ b.user = i.r /\ b.ucounts = c.ucounts
      /\ b.permitted = (c.permitted /\ (HasRoot(c.u) => HasRoot(i)))
      /\ b.effective = (b.permitted /\ IF (c.u.e = Root) = (i.e = Root) THEN c.effective
                                                                      ELSE i.e = Root)
  BY <1>1, <1>2 DEF FixSetuid, Cred
<1>4. n \in Cred /\ n.u = i /\ n.g = c.g /\ n.user = i.r /\ n.ucounts = i.r
      /\ n.permitted = b.permitted /\ n.effective = b.effective
  BY <1>3 DEF SetCredUcounts, Cred, Ids
<1>5. c.effective => c.permitted
  BY DEF CredOK, HasRoot, Three
<1>6. HasRoot(i) => c.permitted
  BY <1>5 DEF Within, CredOK, HasRoot
<1>7. b.permitted <=> HasRoot(i)
  BY <1>3, <1>6 DEF CredOK
<1>8. i.e = Root => HasRoot(i)
  BY DEF HasRoot, Three
<1>9. b.effective <=> i.e = Root
  BY <1>3, <1>7, <1>8 DEF CredOK
<1> QED
  BY <1>4, <1>7, <1>9 DEF NewOK, CredOK

-----------------------------------------------------------------------------
(* Ends of a call. *)

Answers == Uid \cup Gid \cup {0, EPERM, EAGAIN, ENOMEM, EACCES, EINVAL}

LEMMA ReturnInv ==
  ASSUME CredInv, NEW t \in Task, NEW r \in Answers, Return(t, r)
  PROVE  CredInv'
<1>1. /\ UNCHANGED <<cred, pend, flag, nproc, others, own>>
      /\ ret' \in [Task -> Answers]
  BY DEF Return, CredInv, TypeOK, Answers
<1>2. TypeOK'
  BY <1>1 DEF CredInv, TypeOK, Answers
<1>3. \A u \in Uid : Counted(u)' = Counted(u)
  BY <1>1 DEF Counted
<1> QED
  BY <1>1, <1>2, <1>3 DEF CredInv, FsIdShadows

\* A user change up to its commit.
LEMMA FinishUidInv ==
  ASSUME CredInv, NEW t \in Task, Ready(t),
         NEW i \in Ids(Uid), i.fs = i.e, Within(i, cred[t].u, cred[t].effective),
         FinishUid(t, [cred[t] EXCEPT !.u = i])
  PROVE  CredInv'
<1>1. CASE \E r \in {EAGAIN, EACCES} : Return(t, r)
  BY <1>1, ReturnInv DEF Answers
<1>2. CASE \E n : NewOK(cred[t], n) /\ n # NULL
                  /\ pend' = [pend EXCEPT ![t] = n]
                  /\ flag' = [flag EXCEPT ![t] = FlagNprocExceeded(t, n)]
                  /\ UNCHANGED <<cred, nproc, others, ret, own>>
  <2>1. PICK n : NewOK(cred[t], n) /\ n # NULL
                 /\ pend' = [pend EXCEPT ![t] = n]
                 /\ flag' = [flag EXCEPT ![t] = FlagNprocExceeded(t, n)]
                 /\ UNCHANGED <<cred, nproc, others, ret, own>>
    BY <1>2
  <2>2. n \in Cred /\ FlagNprocExceeded(t, n) \in BOOLEAN
    BY <2>1 DEF NewOK, CredOK, FlagNprocExceeded, CredInv, TypeOK
  <2>3. TypeOK'
    BY <2>1, <2>2 DEF CredInv, TypeOK
  <2>4. FlagNprocExceeded(t, n) => n.user # Root
    <3>1. pend[t] = NULL /\ (flag[t] => cred[t].user # Root) /\ CredOK(cred[t])
      BY DEF CredInv, Ready
    <3> QED
      BY <3>1, <2>1 DEF FlagNprocExceeded, NewOK, CredOK
  <2>5. \A d \in Task : flag'[d] => (IF pend'[d] = NULL THEN cred'[d] ELSE pend'[d]).user # Root
    <3> SUFFICES ASSUME NEW d \in Task, flag'[d]
                 PROVE  (IF pend'[d] = NULL THEN cred'[d] ELSE pend'[d]).user # Root
      OBVIOUS
    <3>1. CASE d = t
      BY <3>1, <2>1, <2>4 DEF CredInv, TypeOK
    <3>2. CASE d # t
      BY <3>2, <2>1 DEF CredInv, TypeOK
    <3> QED
      BY <3>1, <3>2
  <2>6. \A d \in Task : pend'[d] # NULL => NewOK(cred[d], pend[d])'
    BY <2>1 DEF CredInv, TypeOK
  <2>7. \A u \in Uid : Counted(u)' = Counted(u)
    BY <2>1 DEF Counted
  <2> QED
    BY <2>1, <2>3, <2>5, <2>6, <2>7 DEF CredInv, FsIdShadows
<1>3. CredOK(cred[t])
  BY DEF CredInv
<1> QED
  BY <1>1, <1>2, <1>3, FilledOK DEF FinishUid

\* A call or an execve that changes the credentials of t at once, to new.
LEMMA ReplaceInv ==
  ASSUME CredInv, NEW t \in Task, Ready(t), NEW new, CredOK(new),
         new.ucounts = cred[t].ucounts,
         NEW w \in SUBSET {"u", "g"}, NEW r \in Answers, NEW fl \in BOOLEAN, fl => flag[t],
         "u" \notin w => new.u.fs = new.u.e, "g" \notin w => new.g.fs = new.g.e,
         cred' = [cred EXCEPT ![t] = new],
         own' = [own EXCEPT ![t] = w],
         ret' = [ret EXCEPT ![t] = r],
         flag' = [flag EXCEPT ![t] = fl],
         UNCHANGED <<pend, nproc, others>>
  PROVE  CredInv'
<1>1. TypeOK'
  BY DEF CredInv, TypeOK, CredOK, Answers
<1>2. \A d \in Task : cred'[d] = (IF d = t THEN new ELSE cred[d])
                     /\ own'[d] = (IF d = t THEN w ELSE own[d])
                     /\ flag'[d] = (IF d = t THEN fl ELSE flag[d])
  BY DEF CredInv, TypeOK
<1>3. \A d \in Task : CredOK(cred'[d])
  BY <1>2 DEF CredInv
<1>4. \A d \in Task : pend'[d] # NULL => NewOK(cred'[d], pend'[d])
  BY <1>2 DEF CredInv, Ready
<1>5. CredOK(cred[t]) /\ new.user = cred[t].user
  BY DEF CredInv, CredOK
<1>6. \A d \in Task : flag'[d] => (IF pend'[d] = NULL THEN cred'[d] ELSE pend'[d]).user # Root
  BY <1>2, <1>5 DEF CredInv, Ready
<1>7. FsIdShadows'
  BY <1>2 DEF CredInv, FsIdShadows
<1>8. \A u \in Uid : Counted(u)' = Counted(u)
  BY <1>2 DEF Counted
<1> QED
  BY <1>1, <1>3, <1>4, <1>6, <1>7, <1>8 DEF CredInv

\* Changes of ids that the user accounting and the capability do not depend on.
LEMMA NewGroupsOK ==
  ASSUME NEW c, CredOK(c), NEW i \in Ids(Gid)
  PROVE  /\ CredOK([c EXCEPT !.g = i]) /\ [c EXCEPT !.g = i].ucounts = c.ucounts
         /\ [c EXCEPT !.g = i].u = c.u /\ [c EXCEPT !.g = i].g = i
<1> DEFINE d == [c EXCEPT !.g = i]
<1>1. c \in Cred
  BY DEF CredOK
<1>2. /\ d \in Cred /\ d.u = c.u /\ d.g = i /\ d.user = c.user /\ d.ucounts = c.ucounts
      /\ d.permitted = c.permitted /\ d.effective = c.effective
  BY <1>1 DEF Cred
<1> HIDE DEF d
<1>3. CredOK(d)
  BY <1>2 DEF CredOK
<1> QED
  BY <1>2, <1>3 DEF d

LEMMA FsUserOK ==
  ASSUME NEW c, CredOK(c), NEW x \in Uid
  PROVE  /\ CredOK([c EXCEPT !.u.fs = x]) /\ [c EXCEPT !.u.fs = x].ucounts = c.ucounts
         /\ [c EXCEPT !.u.fs = x].g = c.g /\ Three([c EXCEPT !.u.fs = x].u) = Three(c.u)
<1> DEFINE i == [c.u EXCEPT !.fs = x]
           d == [c EXCEPT !.u = i]
<1>0. [c EXCEPT !.u.fs = x] = d
  BY DEF CredOK, Cred
<1>1. c \in Cred /\ c.u \in Ids(Uid)
  BY DEF CredOK, Cred
<1>2. i \in Ids(Uid) /\ i.r = c.u.r /\ i.e = c.u.e /\ i.s = c.u.s
  BY <1>1 DEF Ids
<1> HIDE DEF i
<1>3. /\ d \in Cred /\ d.u = i /\ d.g = c.g /\ d.user = c.user /\ d.ucounts = c.ucounts
      /\ d.permitted = c.permitted /\ d.effective = c.effective
  BY <1>1, <1>2 DEF Cred
<1> HIDE DEF d
<1>4. Three(i) = Three(c.u)
  BY <1>2 DEF Three
<1>5. CredOK(d)
  BY <1>2, <1>3, <1>4 DEF CredOK, HasRoot
<1> QED
  BY <1>0, <1>3, <1>4, <1>5

LEMMA FsGroupOK ==
  ASSUME NEW c, CredOK(c), NEW y \in Gid
  PROVE  /\ CredOK([c EXCEPT !.g.fs = y]) /\ [c EXCEPT !.g.fs = y].ucounts = c.ucounts
         /\ [c EXCEPT !.g.fs = y].u = c.u
<1> DEFINE i == [c.g EXCEPT !.fs = y]
<1>1. c \in Cred /\ c.g \in Ids(Gid)
  BY DEF CredOK, Cred
<1>2. i \in Ids(Gid)
  BY <1>1 DEF Ids
<1>3. [c EXCEPT !.g.fs = y] = [c EXCEPT !.g = i]
  BY <1>1 DEF Cred
<1> HIDE DEF i
<1> QED
  BY <1>2, <1>3, NewGroupsOK

LEMMA FinishGidInv ==
  ASSUME CredInv, NEW t \in Task, Ready(t), NEW i \in Ids(Gid), i.fs = i.e,
         FinishGid(t, [cred[t] EXCEPT !.g = i])
  PROVE  CredInv'
<1> DEFINE new == [cred[t] EXCEPT !.g = i]
<1>1. CASE Return(t, EACCES)
  BY <1>1, ReturnInv DEF Answers
<1>2. CASE /\ cred' = [cred EXCEPT ![t] = new] /\ ret' = [ret EXCEPT ![t] = 0]
           /\ own' = [own EXCEPT ![t] = @ \ {"g"}] /\ UNCHANGED <<pend, flag, nproc, others>>
  <2>1. 0 \in Answers
    BY DEF Answers
  <2>2. CredOK(cred[t])
    BY DEF CredInv
  <2>4. CredOK(new) /\ new.ucounts = cred[t].ucounts /\ new.u = cred[t].u /\ new.g = i
    BY <2>2, NewGroupsOK
  <2>5. /\ own[t] \ {"g"} \in SUBSET {"u", "g"} /\ flag[t] \in BOOLEAN
        /\ flag' = [flag EXCEPT ![t] = flag[t]] /\ own' = [own EXCEPT ![t] = own[t] \ {"g"}]
    BY <1>2 DEF CredInv, TypeOK
  <2>6. "u" \notin own[t] \ {"g"} => new.u.fs = new.u.e
    BY <2>4 DEF CredInv, FsIdShadows
  <2> HIDE DEF new
  <2> QED
    BY <1>2, <2>1, <2>4, <2>5, <2>6, ReplaceInv
<1> QED
  BY <1>1, <1>2 DEF FinishGid, FixSetgid

LEMMA UidCallInv == ASSUME CredInv, NEW t \in Task, UidCall(t) PROVE CredInv'
<1>0. /\ CredOK(cred[t]) /\ cred[t].u \in Ids(Uid) /\ cred[t].effective \in BOOLEAN /\ Uid \subseteq Nat
      /\ \A r \in {0, EPERM, EAGAIN, ENOMEM, EACCES, EINVAL} : r \in Answers
  BY CredAssumption DEF CredInv, CredOK, Cred, Answers
<1>1. ASSUME NEW r \in UidArg, NEW e \in UidArg, Setreuid(t, r, e) PROVE CredInv'
  <2>1. CASE \E x \in Answers : Return(t, x)
    BY <2>1, ReturnInv
  <2>2. CASE /\ Valid(Uid, {r, e}) /\ MayRe(cred[t].u, r, e, cred[t].effective)
             /\ FinishUid(t, [cred[t] EXCEPT !.u = Re(cred[t].u, r, e)])
    <3>1. Ready(t)
      BY <1>1 DEF Setreuid
    <3> QED
      BY <1>0, <2>2, <3>1, ReIds, FinishUidInv
  <2> QED
    BY <1>0, <1>1, <2>1, <2>2 DEF Setreuid
<1>2. ASSUME NEW x \in UidArg, Setuid(t, x) PROVE CredInv'
  <2>1. CASE \E a \in Answers : Return(t, a)
    BY <2>1, ReturnInv
  <2>2. CASE /\ x \in Uid /\ MaySet(cred[t].u, x, cred[t].effective)
             /\ FinishUid(t, [cred[t] EXCEPT !.u = Set(cred[t].u, x, cred[t].effective)])
    <3>1. Ready(t)
      BY <1>2 DEF Setuid
    <3> QED
      BY <1>0, <2>2, <3>1, SetIds, FinishUidInv
  <2> QED
    BY <1>0, <1>2, <2>1, <2>2 DEF Setuid
<1>3. ASSUME NEW r \in UidArg, NEW e \in UidArg, NEW s \in UidArg, Setresuid(t, r, e, s)
      PROVE  CredInv'
  <2>1. CASE \E a \in Answers : Return(t, a)
    BY <2>1, ReturnInv
  <2>2. CASE /\ Valid(Uid, {r, e, s}) /\ MayRes(cred[t].u, r, e, s, cred[t].effective)
             /\ FinishUid(t, [cred[t] EXCEPT !.u = Res(cred[t].u, r, e, s)])
    <3>1. Ready(t)
      BY <1>3 DEF Setresuid
    <3> QED
      BY <1>0, <2>2, <3>1, ResIds, FinishUidInv
  <2> QED
    BY <1>0, <1>3, <2>1, <2>2 DEF Setresuid
<1>4. ASSUME NEW x \in UidArg, Setfsuid(t, x) PROVE CredInv'
  <2>1. cred[t].u.fs \in Answers
    BY <1>0 DEF Ids, Answers
  <2>2. CASE UNCHANGED <<cred, pend, flag, nproc, others, own>>
    BY <1>4, <2>1, <2>2, ReturnInv DEF Setfsuid, Return
  <2>3. CASE x \in Uid /\ ChangeFs(t, "u", [cred[t] EXCEPT !.u.fs = x])
    <3> DEFINE new == [cred[t] EXCEPT !.u.fs = x]
    <3>2. CredOK(new) /\ new.ucounts = cred[t].ucounts /\ new.g = cred[t].g
      BY <1>0, <2>3, FsUserOK
    <3>3. /\ own[t] \cup {"u"} \in SUBSET {"u", "g"} /\ flag[t] \in BOOLEAN /\ Ready(t)
          /\ flag' = [flag EXCEPT ![t] = flag[t]] /\ own' = [own EXCEPT ![t] = own[t] \cup {"u"}]
          /\ cred' = [cred EXCEPT ![t] = new] /\ ret' = [ret EXCEPT ![t] = cred[t].u.fs]
          /\ UNCHANGED <<pend, nproc, others>>
      BY <1>4, <2>3 DEF CredInv, TypeOK, ChangeFs, Setfsuid
    <3>4. "g" \notin own[t] \cup {"u"} => new.g.fs = new.g.e
      BY <3>2 DEF CredInv, FsIdShadows
    <3> HIDE DEF new
    <3> QED
      BY <2>1, <3>2, <3>3, <3>4, ReplaceInv
  <2> QED
    BY <1>4, <2>2, <2>3 DEF Setfsuid
<1> QED
  BY <1>1, <1>2, <1>3, <1>4 DEF UidCall

LEMMA GidCallInv == ASSUME CredInv, NEW t \in Task, GidCall(t) PROVE CredInv'
<1>0. /\ CredOK(cred[t]) /\ cred[t].g \in Ids(Gid) /\ cred[t].effective \in BOOLEAN /\ Gid \subseteq Nat
      /\ \A r \in {0, EPERM, EAGAIN, ENOMEM, EACCES, EINVAL} : r \in Answers
  BY CredAssumption DEF CredInv, CredOK, Cred, Answers
<1>1. ASSUME NEW r \in GidArg, NEW e \in GidArg, Setregid(t, r, e) PROVE CredInv'
  <2>1. CASE \E x \in Answers : Return(t, x)
    BY <2>1, ReturnInv
  <2>2. CASE /\ Valid(Gid, {r, e}) /\ MayRe(cred[t].g, r, e, cred[t].effective)
             /\ FinishGid(t, [cred[t] EXCEPT !.g = Re(cred[t].g, r, e)])
    <3>1. Ready(t)
      BY <1>1 DEF Setregid
    <3> QED
      BY <1>0, <2>2, <3>1, ReIds, FinishGidInv
  <2> QED
    BY <1>0, <1>1, <2>1, <2>2 DEF Setregid
<1>2. ASSUME NEW x \in GidArg, Setgid(t, x) PROVE CredInv'
  <2>1. CASE \E a \in Answers : Return(t, a)
    BY <2>1, ReturnInv
  <2>2. CASE /\ x \in Gid /\ MaySet(cred[t].g, x, cred[t].effective)
             /\ FinishGid(t, [cred[t] EXCEPT !.g = Set(cred[t].g, x, cred[t].effective)])
    <3>1. Ready(t)
      BY <1>2 DEF Setgid
    <3> QED
      BY <1>0, <2>2, <3>1, SetIds, FinishGidInv
  <2> QED
    BY <1>0, <1>2, <2>1, <2>2 DEF Setgid
<1>3. ASSUME NEW r \in GidArg, NEW e \in GidArg, NEW s \in GidArg, Setresgid(t, r, e, s)
      PROVE  CredInv'
  <2>1. CASE \E a \in Answers : Return(t, a)
    BY <2>1, ReturnInv
  <2>2. CASE /\ Valid(Gid, {r, e, s}) /\ MayRes(cred[t].g, r, e, s, cred[t].effective)
             /\ FinishGid(t, [cred[t] EXCEPT !.g = Res(cred[t].g, r, e, s)])
    <3>1. Ready(t)
      BY <1>3 DEF Setresgid
    <3> QED
      BY <1>0, <2>2, <3>1, ResIds, FinishGidInv
  <2> QED
    BY <1>0, <1>3, <2>1, <2>2 DEF Setresgid
<1>4. ASSUME NEW x \in GidArg, Setfsgid(t, x) PROVE CredInv'
  <2>1. cred[t].g.fs \in Answers
    BY <1>0 DEF Ids, Answers
  <2>2. CASE UNCHANGED <<cred, pend, flag, nproc, others, own>>
    BY <1>4, <2>1, <2>2, ReturnInv DEF Setfsgid, Return
  <2>3. CASE x \in Gid /\ ChangeFs(t, "g", [cred[t] EXCEPT !.g.fs = x])
    <3> DEFINE new == [cred[t] EXCEPT !.g.fs = x]
    <3>2. CredOK(new) /\ new.ucounts = cred[t].ucounts /\ new.u = cred[t].u
      BY <1>0, <2>3, FsGroupOK
    <3>3. /\ own[t] \cup {"g"} \in SUBSET {"u", "g"} /\ flag[t] \in BOOLEAN /\ Ready(t)
          /\ flag' = [flag EXCEPT ![t] = flag[t]] /\ own' = [own EXCEPT ![t] = own[t] \cup {"g"}]
          /\ cred' = [cred EXCEPT ![t] = new] /\ ret' = [ret EXCEPT ![t] = cred[t].g.fs]
          /\ UNCHANGED <<pend, nproc, others>>
      BY <1>4, <2>3 DEF CredInv, TypeOK, ChangeFs, Setfsgid
    <3>4. "u" \notin own[t] \cup {"g"} => new.u.fs = new.u.e
      BY <3>2 DEF CredInv, FsIdShadows
    <3> HIDE DEF new
    <3> QED
      BY <2>1, <3>2, <3>3, <3>4, ReplaceInv
  <2> QED
    BY <1>4, <2>2, <2>3 DEF Setfsgid
<1> QED
  BY <1>1, <1>2, <1>3, <1>4 DEF GidCall

-----------------------------------------------------------------------------
(* The steps around the calls. *)

LEMMA ExecveInv ==
  ASSUME CredInv, NEW t \in Task, NEW owner \in Uid \cup {KEEP}, Execve(t, owner)
  PROVE  CredInv'
<1> DEFINE c == cred[t]
           e == Pick(owner, c.u.e)
           ui == [r |-> c.u.r, e |-> e, s |-> e, fs |-> e]
           gi == [r |-> c.g.r, e |-> c.g.e, s |-> c.g.e, fs |-> c.g.e]
           perm == Root \in {c.u.r, e}
           eff == e = Root
           new == [c EXCEPT !.u = ui, !.g = gi, !.permitted = perm, !.effective = eff]
<1>1. CASE Return(t, EAGAIN)
  BY <1>1, ReturnInv DEF Answers
<1>2. CASE /\ flag' = [flag EXCEPT ![t] = FALSE] /\ cred' = [cred EXCEPT ![t] = new]
           /\ ret' = [ret EXCEPT ![t] = 0] /\ own' = [own EXCEPT ![t] = {}]
           /\ UNCHANGED <<pend, nproc, others>>
  <2>1. CredOK(c) /\ c \in Cred /\ c.u \in Ids(Uid) /\ c.g \in Ids(Gid)
    BY DEF CredInv, CredOK, Cred
  <2>2. e \in Uid
    BY <2>1 DEF Pick, Ids
  <2>a. ui \in Ids(Uid) /\ gi \in Ids(Gid) /\ perm \in BOOLEAN /\ eff \in BOOLEAN
    BY <2>1, <2>2 DEF Ids
  <2>3. /\ new \in Cred /\ new.ucounts = c.ucounts /\ new.user = c.user
        /\ new.u = ui /\ new.g = gi /\ new.permitted = perm /\ new.effective = eff
    <3> HIDE DEF ui, gi, perm, eff
    <3> QED
      BY <2>1, <2>a DEF Cred
  <2> HIDE DEF new
  <2>4. CredOK(new) /\ new.u.fs = new.u.e /\ new.g.fs = new.g.e
    <3>1. /\ new.u.r = c.u.r /\ new.u.e = e /\ new.u.s = e /\ new.u.fs = e
          /\ new.g.fs = new.g.e
      BY <2>3
    <3>2. new.effective <=> new.u.e = Root
      BY <2>3, <3>1
    <3>3. new.permitted <=> HasRoot(new.u)
      BY <2>3, <3>1 DEF HasRoot, Three
    <3> QED
      BY <2>1, <2>3, <3>1, <3>2, <3>3 DEF CredOK
  <2>5. Ready(t)
    BY DEF Execve
  <2> QED
    BY <1>2, <2>3, <2>4, <2>5, ReplaceInv DEF Answers
<1> QED
  BY <1>1, <1>2 DEF Execve

INSTANCE FiniteSetTheorems

LEMMA CountedFinite ==
  \A u : IsFiniteSet(Counted(u)) /\ Cardinality(Counted(u)) \in Nat
<1> TAKE u
<1>1. IsFiniteSet(Counted(u))
  BY CredAssumption, FS_Subset DEF Counted
<1> QED
  BY <1>1, FS_CardinalityType

\* The process counts follow a task from its old user to its new one.
LEMMA CommitCounts ==
  ASSUME CredInv, NEW t \in Task, CommitCreds(t)
  PROVE  \A u \in Uid : nproc'[u] = others'[u] + Cardinality(Counted(u)')
<1> DEFINE n == pend[t]
           from == cred[t].ucounts
           to == n.ucounts
<1>1. /\ n # NULL /\ NewOK(cred[t], n) /\ CredOK(n) /\ CredOK(cred[t]) /\ others' = others
      /\ \A d \in Task : cred'[d] = IF d = t THEN n ELSE cred[d]
  BY DEF CredInv, NewOK, CommitCreds, TypeOK
<1>2. from \in Uid /\ to \in Uid /\ (n.user = cred[t].user <=> to = from)
  BY <1>1 DEF CredOK, Cred
<1> HIDE DEF n
<1>3. CASE to = from
  <2>1. nproc' = nproc
    BY <1>2, <1>3 DEF CommitCreds, n
  <2>2. \A u \in Uid : Counted(u)' = Counted(u)
    BY <1>1, <1>3 DEF Counted
  <2> QED
    BY <1>1, <2>1, <2>2 DEF CredInv
<1>4. CASE to # from
  <2> SUFFICES ASSUME NEW u \in Uid PROVE nproc'[u] = others[u] + Cardinality(Counted(u)')
    BY <1>1
  <2>1. nproc'[u] = nproc[u] + (IF u = to THEN 1 ELSE 0) - (IF u = from THEN 1 ELSE 0)
    BY <1>2, <1>4 DEF CommitCreds, n
  <2>2. /\ nproc[u] = others[u] + Cardinality(Counted(u)) /\ others[u] \in Int
        /\ IsFiniteSet(Counted(u)) /\ Cardinality(Counted(u)) \in Nat
    BY CountedFinite DEF CredInv, TypeOK
  <2>3. CASE u = to
    <3>1. Counted(u)' = Counted(u) \cup {t} /\ t \notin Counted(u)
      BY <1>1, <1>4, <2>3 DEF Counted
    <3>2. Cardinality(Counted(u)') = Cardinality(Counted(u)) + 1
      BY <2>2, <3>1, FS_AddElement
    <3> QED
      BY <1>4, <2>1, <2>2, <2>3, <3>2
  <2>4. CASE u = from
    <3>1. Counted(u)' = Counted(u) \ {t} /\ t \in Counted(u)
      BY <1>1, <1>4, <2>4 DEF Counted
    <3>2. Cardinality(Counted(u)') = Cardinality(Counted(u)) - 1
      BY <2>2, <3>1, FS_RemoveElement
    <3> QED
      BY <1>4, <2>1, <2>2, <2>4, <3>2
  <2>5. CASE u # to /\ u # from
    <3>1. Counted(u)' = Counted(u)
      BY <1>1, <2>5 DEF Counted
    <3> QED
      BY <2>1, <2>2, <2>5, <3>1
  <2> QED
    BY <2>3, <2>4, <2>5
<1> QED
  BY <1>3, <1>4

LEMMA CommitInv == ASSUME CredInv, NEW t \in Task, CommitCreds(t) PROVE CredInv'
<1> DEFINE n == pend[t]
<1>1. /\ n # NULL /\ NewOK(cred[t], n) /\ CredOK(n) /\ n \in Cred /\ CredOK(cred[t])
      /\ UNCHANGED <<flag, others>>
      /\ \A d \in Task : /\ cred'[d] = IF d = t THEN n ELSE cred[d]
                         /\ pend'[d] = IF d = t THEN NULL ELSE pend[d]
                         /\ own'[d] = IF d = t THEN own[d] \ {"u"} ELSE own[d]
  BY DEF CredInv, NewOK, CredOK, CommitCreds, TypeOK
<1>2. nproc' \in [Uid -> Int]
  BY DEF CredInv, CommitCreds, TypeOK
<1>3. TypeOK'
  BY <1>1, <1>2 DEF CredInv, CommitCreds, TypeOK
<1>4. \A d \in Task : CredOK(cred'[d]) /\ (pend'[d] # NULL => NewOK(cred'[d], pend'[d]))
  BY <1>1 DEF CredInv
<1>5. \A d \in Task : flag'[d] => (IF pend'[d] = NULL THEN cred'[d] ELSE pend'[d]).user # Root
  BY <1>1 DEF CredInv
<1>6. FsIdShadows'
  <2> SUFFICES ASSUME NEW d \in Task
               PROVE  /\ "u" \notin own'[d] => cred'[d].u.fs = cred'[d].u.e
                      /\ "g" \notin own'[d] => cred'[d].g.fs = cred'[d].g.e
    BY DEF FsIdShadows
  <2>1. n.u.fs = n.u.e /\ n.g = cred[t].g
    BY <1>1 DEF NewOK
  <2>2. /\ "u" \notin own[d] => cred[d].u.fs = cred[d].u.e
        /\ "g" \notin own[d] => cred[d].g.fs = cred[d].g.e
    BY DEF CredInv, FsIdShadows
  <2> HIDE DEF n
  <2> QED
    BY <1>1, <2>1, <2>2
<1> QED
  BY <1>3, <1>4, <1>5, <1>6, CommitCounts DEF CredInv

LEMMA OthersInv ==
  ASSUME CredInv, NEW u \in Uid, OtherStarts(u) \/ OtherEnds(u)
  PROVE  CredInv'
<1>1. /\ UNCHANGED <<cred, pend, flag, ret, own>>
      /\ others' \in [Uid -> 0..MaxOthers] /\ nproc' \in [Uid -> Int]
      /\ \A x \in Uid : nproc'[x] - others'[x] = nproc[x] - others[x]
  BY CredAssumption DEF CredInv, TypeOK, OtherStarts, OtherEnds
<1>2. TypeOK'
  BY <1>1 DEF CredInv, TypeOK
<1>3. \A x \in Uid : Counted(x)' = Counted(x) /\ Cardinality(Counted(x)) \in Nat
  BY <1>1, CountedFinite DEF Counted
<1>4. ASSUME NEW x \in Uid PROVE nproc'[x] = others'[x] + Cardinality(Counted(x)')
  <2>1. nproc[x] = others[x] + Cardinality(Counted(x)) /\ nproc[x] \in Int /\ others[x] \in Int
        /\ nproc'[x] \in Int /\ others'[x] \in Int
    BY <1>1 DEF CredInv, TypeOK
  <2> QED
    BY <1>1, <1>3, <2>1
<1> QED
  BY <1>1, <1>2, <1>4 DEF CredInv, FsIdShadows

LEMMA InitInv == Init => CredInv
<1> SUFFICES ASSUME Init PROVE CredInv
  OBVIOUS
<1>1. PICK id \in [Task -> Uid \X Gid] : cred = [t \in Task |-> Login(id[t][1], id[t][2])]
  BY DEF Init
<1>2. ASSUME NEW u \in Uid, NEW g \in Gid
      PROVE  CredOK(Login(u, g)) /\ Login(u, g).u.fs = Login(u, g).u.e
             /\ Login(u, g).g.fs = Login(u, g).g.e
  <2>1. AllIds(u) \in Ids(Uid) /\ AllIds(g) \in Ids(Gid)
    BY DEF AllIds, Ids
  <2>2. /\ AllIds(u).r = u /\ AllIds(u).e = u /\ AllIds(u).s = u /\ AllIds(u).fs = u
        /\ AllIds(g).e = g /\ AllIds(g).fs = g
    BY DEF AllIds
  <2>3. HasRoot(AllIds(u)) <=> u = Root
    BY <2>2 DEF HasRoot, Three
  <2>4. Login(u, g) \in Cred
    BY <2>1 DEF Login, Cred
  <2> QED
    BY <2>2, <2>3, <2>4 DEF Login, CredOK
<1>3. \A t \in Task : CredOK(cred[t]) /\ cred[t].u.fs = cred[t].u.e /\ cred[t].g.fs = cred[t].g.e
                      /\ cred[t] \in Cred
  BY <1>1, <1>2 DEF CredOK
<1>4. \A u \in Uid : /\ Cardinality(Counted(u)) \in Nat
                     /\ nproc[u] = others[u] + Cardinality(Counted(u))
  BY CountedFinite DEF Init
<1>5. TypeOK
  BY <1>1, <1>3, <1>4, CredAssumption DEF Init, TypeOK
<1> QED
  BY <1>3, <1>4, <1>5 DEF Init, CredInv, FsIdShadows

LEMMA NextInv == CredInv /\ [Next]_vars => CredInv'
<1> SUFFICES ASSUME CredInv, [Next]_vars PROVE CredInv'
  OBVIOUS
<1>1. CASE UNCHANGED vars
  <2>1. \A u \in Uid : Counted(u)' = Counted(u)
    BY <1>1 DEF vars, Counted
  <2> QED
    BY <1>1, <2>1 DEF vars, CredInv, TypeOK, FsIdShadows
<1> QED
  BY <1>1, UidCallInv, GidCallInv, CommitInv, ExecveInv, OthersInv DEF Next

LEMMA SpecInv == Spec => []CredInv
BY InitInv, NextInv, PTL DEF Spec

-----------------------------------------------------------------------------
(* The theorems. *)

\* The type invariant of the identity calls.
THEOREM TypeCorrect == Spec => []TypeOK
<1>1. CredInv => TypeOK
  BY DEF CredInv
<1> QED
  BY <1>1, SpecInv, PTL

\* user_struct and ucounts name the real uid after every setuid, setreuid and
\* setresuid, and every user's process count is exact although the check of
\* RLIMIT_NPROC and commit_creds are separate steps.
THEOREM UserAccounting == Spec => []ChargedToUid
<1>1. CredInv => ChargedToUid
  BY DEF CredInv, CredOK, ChargedToUid
<1> QED
  BY <1>1, SpecInv, PTL

\* No sequence of the identity calls separates the capability from the root id.
THEOREM PrivilegeFollowsRoot == Spec => []PrivilegeIsRoot
<1>1. CredInv => PrivilegeIsRoot
  BY DEF CredInv, CredOK, PrivilegeIsRoot
<1> QED
  BY <1>1, SpecInv, PTL

\* flag_nproc_exceeded never leaves PF_NPROC_EXCEEDED on a task of INIT_USER.
THEOREM RootNeverFlagged == Spec => []RootNotFlagged
<1>1. CredInv => RootNotFlagged
  BY DEF CredInv, RootNotFlagged, Ready
<1> QED
  BY <1>1, SpecInv, PTL

\* Filesystem ids shadow effective ids until setfsuid or setfsgid says otherwise.
THEOREM FsIdsShadow == Spec => []FsIdShadows
<1>1. CredInv => FsIdShadows
  BY DEF CredInv
<1> QED
  BY <1>1, SpecInv, PTL

-----------------------------------------------------------------------------
(* Ids without the capability. *)

\* What NoNewIds allows a task to turn its credentials c into.
Moves(c, n) ==
  /\ Three(n.u) \subseteq Three(c.u) /\ Three(n.g) \subseteq Three(c.g)
  /\ n.u.fs \in Three(c.u) \cup {c.u.fs} /\ n.g.fs \in Three(c.g) \cup {c.g.fs}
  /\ n.permitted => c.permitted

LEMMA StayMoves == \A c : Moves(c, c)
BY DEF Moves, Three

LEMMA FinishUidKeeps ==
  ASSUME NEW d, NEW filled, FinishUid(d, filled)
  PROVE  cred' = cred
BY DEF FinishUid, Return

LEMMA GidMoves ==
  ASSUME CredInv, NEW t \in Task, ~cred[t].effective, NEW i \in Ids(Gid), i.fs = i.e,
         Within(i, cred[t].g, cred[t].effective), FinishGid(t, [cred[t] EXCEPT !.g = i])
  PROVE  Moves(cred[t], cred'[t])
<1>1. CASE cred' = cred
  BY <1>1, StayMoves
<1>2. CASE cred' = [cred EXCEPT ![t] = [cred[t] EXCEPT !.g = i]]
  <2>1. cred[t] \in Cred /\ cred'[t] = [cred[t] EXCEPT !.g = i]
    BY <1>2 DEF CredInv, TypeOK
  <2>2. cred'[t].g = i /\ cred'[t].u = cred[t].u /\ cred'[t].permitted = cred[t].permitted
    BY <2>1 DEF Cred
  <2>3. Three(i) \subseteq Three(cred[t].g) /\ i.fs \in Three(cred[t].g)
    BY DEF Within, Three
  <2>4. cred[t].u.fs \in Three(cred[t].u) \cup {cred[t].u.fs}
    OBVIOUS
  <2> QED
    BY <2>2, <2>3, <2>4 DEF Moves
<1> QED
  BY <1>1, <1>2 DEF FinishGid, FixSetgid, Return

LEMMA OwnMoves ==
  ASSUME CredInv, NEW t \in Task, ~cred[t].effective,
         UidCall(t) \/ GidCall(t) \/ CommitCreds(t)
  PROVE  Moves(cred[t], cred'[t])
<1>0. /\ CredOK(cred[t]) /\ cred[t] \in Cred /\ cred[t].u \in Ids(Uid) /\ cred[t].g \in Ids(Gid)
      /\ cred[t].effective \in BOOLEAN /\ Uid \subseteq Nat /\ Gid \subseteq Nat
  BY CredAssumption DEF CredInv, CredOK, Cred
<1>s. cred' = cred => Moves(cred[t], cred'[t])
  BY StayMoves
<1>1. ASSUME NEW r, NEW e, Setreuid(t, r, e) \/ Setuid(t, r) PROVE Moves(cred[t], cred'[t])
  BY <1>1, <1>s, FinishUidKeeps DEF Setreuid, Setuid, Return
<1>2. ASSUME NEW r, NEW e, NEW s, Setresuid(t, r, e, s) PROVE Moves(cred[t], cred'[t])
  BY <1>2, <1>s, FinishUidKeeps DEF Setresuid, Return
<1>3. ASSUME NEW x, Setfsuid(t, x) PROVE Moves(cred[t], cred'[t])
  <2>1. CASE cred' = [cred EXCEPT ![t] = [cred[t] EXCEPT !.u.fs = x]] /\ MayFs(cred[t].u, x, FALSE)
    <3>1. cred'[t] = [cred[t] EXCEPT !.u.fs = x]
      BY <2>1 DEF CredInv, TypeOK
    <3>2. /\ cred'[t].g = cred[t].g /\ cred'[t].permitted = cred[t].permitted
          /\ cred'[t].u = [cred[t].u EXCEPT !.fs = x]
      BY <1>0, <3>1 DEF Cred
    <3>3. Three(cred'[t].u) = Three(cred[t].u) /\ cred'[t].u.fs = x
      BY <1>0, <3>2 DEF Three, Ids
    <3>4. x \in Three(cred[t].u) \cup {cred[t].u.fs}
      BY <2>1 DEF MayFs, Three
    <3> QED
      BY <3>2, <3>3, <3>4 DEF Moves
  <2> QED
    BY <1>3, <1>s, <2>1 DEF Setfsuid, ChangeFs, MayFs
<1>4. ASSUME NEW r, NEW e, Setregid(t, r, e) PROVE Moves(cred[t], cred'[t])
  BY <1>0, <1>4, <1>s, ReIds, GidMoves DEF Setregid, Return
<1>5. ASSUME NEW x, Setgid(t, x) PROVE Moves(cred[t], cred'[t])
  BY <1>0, <1>5, <1>s, SetIds, GidMoves DEF Setgid, Return
<1>6. ASSUME NEW r, NEW e, NEW s, Setresgid(t, r, e, s) PROVE Moves(cred[t], cred'[t])
  BY <1>0, <1>6, <1>s, ResIds, GidMoves DEF Setresgid, Return
<1>7. ASSUME NEW x, Setfsgid(t, x) PROVE Moves(cred[t], cred'[t])
  <2>1. CASE cred' = [cred EXCEPT ![t] = [cred[t] EXCEPT !.g.fs = x]] /\ MayFs(cred[t].g, x, FALSE)
    <3>1. cred'[t] = [cred[t] EXCEPT !.g.fs = x]
      BY <2>1 DEF CredInv, TypeOK
    <3>2. /\ cred'[t].u = cred[t].u /\ cred'[t].permitted = cred[t].permitted
          /\ cred'[t].g = [cred[t].g EXCEPT !.fs = x]
      BY <1>0, <3>1 DEF Cred
    <3>3. Three(cred'[t].g) = Three(cred[t].g) /\ cred'[t].g.fs = x
      BY <1>0, <3>2 DEF Three, Ids
    <3>4. x \in Three(cred[t].g) \cup {cred[t].g.fs}
      BY <2>1 DEF MayFs, Three
    <3> QED
      BY <3>2, <3>3, <3>4 DEF Moves
  <2> QED
    BY <1>7, <1>s, <2>1 DEF Setfsgid, ChangeFs, MayFs
<1>8. ASSUME CommitCreds(t) PROVE Moves(cred[t], cred'[t])
  <2>1. NewOK(cred[t], pend[t]) /\ cred'[t] = pend[t]
    BY <1>8 DEF CommitCreds, CredInv, TypeOK
  <2>2. /\ Three(pend[t].u) \subseteq Three(cred[t].u) /\ pend[t].g = cred[t].g
        /\ pend[t].u.fs \in Three(pend[t].u) /\ CredOK(pend[t])
    BY <2>1 DEF NewOK, Within, Three
  <2>3. pend[t].permitted => cred[t].permitted
    BY <1>0, <2>2 DEF CredOK, HasRoot
  <2>4. cred[t].g.fs \in Three(cred[t].g) \cup {cred[t].g.fs}
    OBVIOUS
  <2> QED
    BY <2>1, <2>2, <2>3, <2>4 DEF Moves
<1> QED
  BY <1>1, <1>2, <1>3, <1>4, <1>5, <1>6, <1>7, <1>8 DEF UidCall, GidCall

\* The steps of another task, and of the processes outside the model.
LEMMA ForeignMoves ==
  ASSUME CredInv, NEW t \in Task, NEW d \in Task, d # t,
         \/ UidCall(d) \/ GidCall(d) \/ CommitCreds(d)
         \/ \E owner \in Uid \cup {KEEP} : Execve(d, owner)
  PROVE  cred'[t] = cred[t]
<1>0. cred \in [Task -> Cred]
  BY DEF CredInv, TypeOK
<1>1. CASE UidCall(d)
  BY <1>0, <1>1, FinishUidKeeps
     DEF UidCall, Setreuid, Setuid, Setresuid, Setfsuid, ChangeFs, Return
<1>2. CASE GidCall(d)
  BY <1>0, <1>2
     DEF GidCall, Setregid, Setgid, Setresgid, Setfsgid, ChangeFs, FinishGid, Return
<1>3. CASE CommitCreds(d) \/ \E owner \in Uid \cup {KEEP} : Execve(d, owner)
  BY <1>0, <1>3 DEF CommitCreds, Execve, Return
<1> QED
  BY <1>1, <1>2, <1>3

\* Without CAP_SETUID and CAP_SETGID in effect none of the identity calls gives
\* a task an id that it did not have: dropped privileges stay dropped.
THEOREM DroppedStaysDropped == Spec => NoNewIds
<1>1. CredInv /\ [Next]_vars =>
        [\A t \in Task :
           ~cred[t].effective /\ ~(\E owner \in Uid \cup {KEEP} : Execve(t, owner)) =>
             /\ Three(cred'[t].u) \subseteq Three(cred[t].u)
             /\ Three(cred'[t].g) \subseteq Three(cred[t].g)
             /\ cred'[t].u.fs \in Three(cred[t].u) \cup {cred[t].u.fs}
             /\ cred'[t].g.fs \in Three(cred[t].g) \cup {cred[t].g.fs}
             /\ cred'[t].permitted => cred[t].permitted]_vars
  <2> SUFFICES ASSUME CredInv, Next, NEW t \in Task, ~cred[t].effective,
                      ~(\E owner \in Uid \cup {KEEP} : Execve(t, owner))
               PROVE  Moves(cred[t], cred'[t])
    BY DEF Moves
  <2>1. CASE cred'[t] = cred[t]
    BY <2>1, StayMoves
  <2>2. CASE UidCall(t) \/ GidCall(t) \/ CommitCreds(t)
    BY <2>2, OwnMoves
  <2> QED
    BY <2>1, <2>2, ForeignMoves DEF Next, OtherStarts, OtherEnds
<1> QED
  BY <1>1, SpecInv, PTL DEF Spec, NoNewIds

-----------------------------------------------------------------------------
Places == {"idle", "exe", "mmap_lock", "arg_lock", "store", "unlock", "auxv", "release", "brk", "brk_unlock",
           "vm_mmap"}
Options == Field \cup {"MAP", "BAD", "EXE_FILE", "AUXV", "SYS_BRK", "TAMALLOC"}
MmError == {"ok", "EINVAL", "EPERM", "EFAULT", "EBADF", "EACCES", "ENOMEM"}

MmFrame ==
  [at : Places, opt : Options, addr : 0..MaxAddr, map : Layout \cup {NIL}, exe : ExeFile \cup {NIL},
   len : 0..VectorSize, word : Nat \ {0}, vma : BOOLEAN, asked : 0..WordSize - 1, got : Nat,
   ret : MmError, touched : BOOLEAN]

Good(m) == m \in Layout /\ (\A f \in Field : InSpace(m[f])) /\ OrderedPairs(m)

\* What a call knows of itself.
FrameOK(c) ==
  /\ c.at \in {"exe", "mmap_lock", "arg_lock"} /\ c.opt = "MAP" => Good(c.map)
  /\ c.at = "store" => Good(c.map) /\ c.opt \in Field \cup {"MAP"}
  /\ c.at = "auxv" => c.opt \in {"MAP", "AUXV"} /\ c.word <= c.len
  /\ c.at \in {"exe", "mmap_lock", "arg_lock", "store", "auxv"} => c.ret = "ok"
  /\ c.at \in {"exe", "mmap_lock", "arg_lock", "store", "unlock"} => c.word = 1
  /\ c.at = "unlock" /\ c.opt = "MAP" => c.ret = "ok"
  /\ c.at \in {"exe", "mmap_lock", "arg_lock", "store"} /\ c.touched => c.opt = "MAP"
  /\ c.touched => c.ret = "ok"
  /\ c.at # "idle" => c.got = 0
  /\ c.got > 0 => c.got >= c.asked /\ c.got % PageSize = 0

FramesInv == mmcall \in [MmThread -> MmFrame] /\ \A t \in MmThread : FrameOK(mmcall[t])

HasArg(c) == c.at \in {"store", "unlock"}
HasRead(c) == c.at \in {"arg_lock", "store", "unlock", "release"} \/ (c.at = "auxv" /\ c.opt = "MAP")
HasWrite(c) == c.at \in {"brk", "brk_unlock"}

LocksInv == /\ mmap_readers # {} => mmap_writer = NIL
            /\ \A t \in MmThread : /\ HasArg(mmcall[t]) => arg_lock = t
                                   /\ HasRead(mmcall[t]) => t \in mmap_readers
                                   /\ HasWrite(mmcall[t]) => mmap_writer = t

MarkInv == \A t \in MmThread :
  LET c == mmcall[t] IN
  /\ c.at = "store" /\ c.opt # "MAP" => \A f \in Field \ {c.opt} : c.map[f] = mm[f]
  /\ c.at = "brk" => mm["start_brk"] <= c.addr /\ c.addr < TaskSize

SpaceInv == /\ Good(mm)
            /\ saved_auxv \in [1..VectorSize -> {0, 1}]
            /\ \A i \in {VectorSize - 1, VectorSize} : saved_auxv[i] = 0

MmInv == FramesInv /\ LocksInv /\ MarkInv /\ SpaceInv

-----------------------------------------------------------------------------
\* The arithmetic of PAGE_ALIGN(): a size that does not wrap gets whole pages.
LEMMA PageAlignRoom ==
  ASSUME NEW size \in 0..WordSize - 1
  PROVE  /\ PageAlign(size) \in Nat
         /\ PageAlign(size) > 0 => PageAlign(size) >= size /\ PageAlign(size) % PageSize = 0
<1> DEFINE sum == size + PageSize - 1
           x == sum % WordSize
           y == x \div PageSize
<1>1. PageSize \in Nat \ {0} /\ WordSize \in Nat \ {0} /\ WordSize % PageSize = 0
  BY MmAssumption
<1>2. PageSize <= WordSize
  BY <1>1
<1>3. sum \in Nat /\ sum < 2 * WordSize
  BY <1>1, <1>2
<1>4. x \in Nat
  BY <1>1, <1>3
<1>5. y \in Nat /\ y * PageSize <= x /\ x < y * PageSize + PageSize
  BY <1>1, <1>4
<1>6. (y * PageSize) % PageSize = 0 /\ y * PageSize \in Nat
  <2> HIDE DEF y
  <2> QED BY <1>1, <1>5
<1>7. CASE sum < WordSize
  <2>1. x = sum
    BY <1>1, <1>3, <1>7
  <2>2. y * PageSize >= size
    BY <1>1, <1>5, <1>6, <2>1
  <2> QED BY <1>6, <2>2 DEF PageAlign
<1>8. CASE sum >= WordSize
  <2>1. x = sum - WordSize
    BY <1>1, <1>3, <1>8
  <2>2. x < PageSize
    BY <1>1, <1>3, <2>1
  <2>3. y = 0
    BY <1>1, <1>4, <2>2
  <2> QED BY <1>1, <1>6, <2>3 DEF PageAlign
<1> QED BY <1>1, <1>3, <1>7, <1>8

-----------------------------------------------------------------------------
LEMMA AllErrors == /\ "ok" \in MmError /\ "EINVAL" \in MmError /\ "EPERM" \in MmError /\ "EFAULT" \in MmError
                   /\ "EBADF" \in MmError /\ "EACCES" \in MmError /\ "ENOMEM" \in MmError
  BY DEF MmError

LEMMA AllPlaces == /\ "mmap_lock" \in Places /\ "arg_lock" \in Places /\ "unlock" \in Places
                   /\ "auxv" \in Places /\ "release" \in Places /\ "brk_unlock" \in Places
  BY DEF Places

\* A thread that is in no call.
LEMMA NoMmCallType == NoMmCall \in MmFrame
<1>1. /\ NoMmCall.word \in Nat \ {0} /\ NoMmCall.got \in Nat /\ NoMmCall.addr \in 0..MaxAddr
      /\ NoMmCall.len \in 0..VectorSize /\ NoMmCall.asked \in 0..WordSize - 1
  BY MmAssumption DEF NoMmCall
<1>2. "idle" \in Places /\ "MAP" \in Options /\ "ok" \in MmError
  BY DEF Places, Options, MmError
<1> QED BY <1>1, <1>2 DEF NoMmCall, MmFrame

\* A step that leaves the layout and the vector alone.
LEMMA SpaceSame ==
  ASSUME SpaceInv, UNCHANGED <<mm, saved_auxv>> PROVE SpaceInv'
  BY DEF SpaceInv, Good, OrderedPairs, InSpace

LEMMA MmInitInv == MmInit => MmInv
<1> SUFFICES ASSUME MmInit PROVE MmInv
  OBVIOUS
<1> USE MmAssumption DEF MmInit
<1>1. NoMmCall \in MmFrame
  BY NoMmCallType
<1>2. FrameOK(NoMmCall)
  BY DEF NoMmCall, FrameOK
<1>3. FramesInv
  BY <1>1, <1>2 DEF FramesInv
<1>4. LocksInv /\ MarkInv
  BY DEF LocksInv, MarkInv, NoMmCall, HasArg, HasRead, HasWrite
<1>5. SpaceInv
  BY DEF SpaceInv, Good
<1> QED BY <1>3, <1>4, <1>5 DEF MmInv

\* A call that is over, with whatever it returns.
LEMMA OverOK ==
  ASSUME NEW err \in MmError, NEW touched \in BOOLEAN,
         touched => err = "ok"
  PROVE  LET f == [NoMmCall EXCEPT !.ret = err, !.touched = touched]
         IN  f \in MmFrame /\ FrameOK(f) /\ f.at = "idle"
<1> DEFINE f == [NoMmCall EXCEPT !.ret = err, !.touched = touched]
<1>1. NoMmCall \in MmFrame
  BY NoMmCallType
<1>2. f \in MmFrame
  BY <1>1 DEF MmFrame
<1>3. f.at = "idle" /\ f.ret = err /\ f.touched = touched /\ f.got = 0
  BY DEF NoMmCall
<1>4. FrameOK(f)
  <2> HIDE DEF f
  <2> QED BY <1>3 DEF FrameOK
<1> QED BY <1>2, <1>3, <1>4

LEMMA FailOK ==
  ASSUME NEW err \in MmError
  PROVE  Fail(err) \in MmFrame /\ FrameOK(Fail(err)) /\ Fail(err).at = "idle"
<1>1. NoMmCall \in MmFrame
  BY NoMmCallType
<1>2. Fail(err) \in MmFrame
  BY <1>1 DEF MmFrame, Fail
<1>3. Fail(err).at = "idle" /\ ~ Fail(err).touched /\ Fail(err).got = 0
  BY DEF NoMmCall, Fail
<1>4. FrameOK(Fail(err))
  BY <1>3 DEF FrameOK
<1> QED BY <1>2, <1>3, <1>4

LEMMA FramesStep ==
  ASSUME FramesInv, NEW t \in MmThread, NEW f \in MmFrame, FrameOK(f), mmcall' = [mmcall EXCEPT ![t] = f]
  PROVE  FramesInv' /\ \A u \in MmThread : mmcall'[u] = IF u = t THEN f ELSE mmcall[u]
<1>1. \A u \in MmThread : mmcall'[u] = IF u = t THEN f ELSE mmcall[u]
  BY DEF FramesInv
<1>2. mmcall' \in [MmThread -> MmFrame]
  BY DEF FramesInv
<1>3. \A c : FrameOK(c)' <=> FrameOK(c)
  BY DEF FrameOK, Good, OrderedPairs, InSpace
<1> QED BY <1>1, <1>2, <1>3 DEF FramesInv

\* A step that neither takes nor drops a lock and leaves the layout alone.
LEMMA QuietStep ==
  ASSUME MmInv, NEW t \in MmThread, NEW f \in MmFrame, FrameOK(f), mmcall' = [mmcall EXCEPT ![t] = f],
         UNCHANGED <<mmLocks, mm>>, SpaceInv', f.at \notin {"store", "brk"},
         HasArg(f) => HasArg(mmcall[t]), HasRead(f) => HasRead(mmcall[t]), HasWrite(f) => HasWrite(mmcall[t])
  PROVE  MmInv'
<1>1. FramesInv' /\ \A u \in MmThread : mmcall'[u] = IF u = t THEN f ELSE mmcall[u]
  BY FramesStep DEF MmInv
<1>2. LocksInv'
  <2>1. UNCHANGED <<mmap_readers, mmap_writer, arg_lock>>
    BY DEF mmLocks
  <2>2. ASSUME NEW u \in MmThread
        PROVE  /\ HasArg(mmcall'[u]) => HasArg(mmcall[u])
               /\ HasRead(mmcall'[u]) => HasRead(mmcall[u])
               /\ HasWrite(mmcall'[u]) => HasWrite(mmcall[u])
    BY <1>1
  <2> QED BY <2>1, <2>2 DEF MmInv, LocksInv, HasArg, HasRead, HasWrite
<1>3. MarkInv'
  BY <1>1 DEF MmInv, MarkInv
<1> QED BY <1>1, <1>2, <1>3 DEF MmInv

\* A call begins: it holds nothing yet.
LEMMA CallBegins ==
  ASSUME MmInv, NEW t \in MmThread, NEW f \in MmFrame, FrameOK(f), Call(t, f), UNCHANGED <<mmLocks, mmState>>,
         f.at \in {"idle", "exe", "mmap_lock", "vm_mmap"} \/ (f.at = "auxv" /\ f.opt # "MAP")
  PROVE  MmInv'
<1>1. SpaceInv' /\ UNCHANGED mm
  BY SpaceSame DEF MmInv, mmState
<1>2. ~ HasArg(f) /\ ~ HasRead(f) /\ ~ HasWrite(f) /\ f.at \notin {"store", "brk"}
  BY DEF HasArg, HasRead, HasWrite
<1>3. mmcall' = [mmcall EXCEPT ![t] = f]
  BY DEF Call
<1> QED BY <1>1, <1>2, <1>3, QuietStep

LEMMA PrctlSetMmInv ==
  ASSUME MmInv, NEW t \in MmThread, NEW opt \in Field \cup {"BAD", "EXE_FILE"}, NEW addr \in 0..MaxAddr,
         NEW exe \in ExeFile \cup {NIL}, NEW misused \in BOOLEAN, PrctlSetMm(t, opt, addr, exe, misused)
  PROVE  MmInv'
<1> DEFINE e == [NoMmCall EXCEPT !.at = "exe", !.opt = opt, !.exe = exe]
           l == [NoMmCall EXCEPT !.at = "mmap_lock", !.opt = opt, !.addr = addr]
<1>0. NoMmCall \in MmFrame /\ opt # "MAP"
  BY NoMmCallType DEF Field
<1>1. e \in MmFrame /\ l \in MmFrame
  <2>1. opt \in Options /\ "exe" \in Places /\ "mmap_lock" \in Places
    BY DEF Options, Places
  <2> QED BY <1>0, <2>1 DEF MmFrame
<1>2. e.at = "exe" /\ e.opt = opt /\ e.ret = "ok" /\ e.word = 1 /\ e.got = 0 /\ ~ e.touched
  BY DEF NoMmCall
<1>3. l.at = "mmap_lock" /\ l.opt = opt /\ l.ret = "ok" /\ l.word = 1 /\ l.got = 0 /\ ~ l.touched
  BY DEF NoMmCall
<1>4. UNCHANGED <<mmLocks, mmState>> /\ \E f \in {Fail("EINVAL"), Fail("EPERM"), e, l} : Call(t, f)
  BY DEF PrctlSetMm
<1> HIDE DEF e, l
<1>5. FrameOK(e) /\ FrameOK(l)
  BY <1>0, <1>2, <1>3 DEF FrameOK
<1> QED BY <1>1, <1>2, <1>3, <1>4, <1>5, FailOK, CallBegins, AllErrors

LEMMA PrctlSetAuxvInv ==
  ASSUME MmInv, NEW t \in MmThread, NEW len \in 0..VectorSize + 1, NEW fault \in BOOLEAN,
         PrctlSetAuxv(t, len, fault)
  PROVE  MmInv'
<1> DEFINE place == IF len = 0 THEN "idle" ELSE "auxv"
           a == [NoMmCall EXCEPT !.at = place, !.opt = "AUXV", !.len = len]
<1>0. NoMmCall \in MmFrame /\ place \in {"idle", "auxv"} /\ VectorSize \in Nat
  BY MmAssumption, NoMmCallType
<1>1. ASSUME len <= VectorSize PROVE a \in MmFrame
  <2> HIDE DEF place
  <2>1. len \in 0..VectorSize
    BY <1>0, <1>1
  <2>2. "AUXV" \in Options /\ place \in Places
    BY <1>0 DEF Options, Places
  <2> QED BY <1>0, <2>1, <2>2 DEF MmFrame
<1>2. a.at = place /\ a.opt = "AUXV" /\ a.len = len /\ a.ret = "ok" /\ a.word = 1 /\ a.got = 0 /\ ~ a.touched
  BY DEF NoMmCall
<1>3. /\ UNCHANGED <<mmLocks, mmState>>
      /\ \/ \E f \in {Fail("EINVAL"), Fail("EPERM"), Fail("EFAULT")} : Call(t, f)
         \/ ~ (len > VectorSize) /\ Call(t, a)
  BY DEF PrctlSetAuxv
<1> HIDE DEF a
<1>4. FrameOK(a)
  BY <1>2 DEF FrameOK
<1>5. ~ (len > VectorSize) => len <= VectorSize
  BY <1>0
<1> QED BY <1>0, <1>1, <1>2, <1>3, <1>4, <1>5, FailOK, CallBegins, AllErrors

LEMMA PrctlSetMmMapInv ==
  ASSUME MmInv, NEW t \in MmThread, NEW map \in MapArg, NEW exe \in ExeFile \cup {NIL}, NEW vector \in BOOLEAN,
         NEW argument \in {"ok", "EINVAL", "EFAULT"}, PrctlSetMmMap(t, map, exe, vector, argument)
  PROVE  MmInv'
<1> DEFINE place == IF exe # NIL THEN "exe" ELSE "mmap_lock"
           words == IF vector THEN VectorSize ELSE 0
           m == [NoMmCall EXCEPT !.at = place, !.map = map, !.exe = exe, !.len = words]
<1>0. /\ NoMmCall \in MmFrame /\ place \in {"exe", "mmap_lock"}
      /\ words \in 0..VectorSize /\ map \in Layout
  BY MmAssumption, NoMmCallType
<1>1. m \in MmFrame
  <2> HIDE DEF place, words
  <2>1. place \in Places
    BY <1>0 DEF Places
  <2> QED BY <1>0, <2>1 DEF MmFrame
<1>2. m.at = place /\ m.opt = "MAP" /\ m.map = map /\ m.ret = "ok" /\ m.word = 1 /\ m.got = 0 /\ ~ m.touched
  BY DEF NoMmCall
<1>3. /\ UNCHANGED <<mmLocks, mmState>>
      /\ \/ \E f \in {Fail(argument), Fail("EINVAL"), Fail("EPERM")} : Call(t, f)
         \/ ValidMap(map) /\ Call(t, m)
  BY DEF PrctlSetMmMap
<1> HIDE DEF m, place, words
<1>4. ValidMap(map) => FrameOK(m)
  BY <1>0, <1>2 DEF FrameOK, ValidMap, Good
<1> QED BY <1>0, <1>1, <1>2, <1>3, <1>4, FailOK, CallBegins, AllErrors

LEMMA TamallocStatsInv ==
  ASSUME MmInv, NEW t \in MmThread, NEW size \in 0..WordSize - 1, TamallocStats(t, size)
  PROVE  MmInv'
<1> DEFINE v == [NoMmCall EXCEPT !.at = "vm_mmap", !.opt = "TAMALLOC", !.asked = size]
<1>0. NoMmCall \in MmFrame
  BY NoMmCallType
<1>1. v \in MmFrame
  <2>1. "TAMALLOC" \in Options /\ "vm_mmap" \in Places
    BY DEF Options, Places
  <2> QED BY <1>0, <2>1 DEF MmFrame
<1>2. v.at = "vm_mmap" /\ v.ret = "ok" /\ v.word = 1 /\ v.got = 0 /\ ~ v.touched
  BY DEF NoMmCall
<1>3. UNCHANGED <<mmLocks, mmState>> /\ \E f \in {Fail("EINVAL"), Fail("ENOMEM"), v} : Call(t, f)
  BY DEF TamallocStats
<1> HIDE DEF v
<1>4. FrameOK(v)
  BY <1>2 DEF FrameOK
<1> QED BY <1>1, <1>2, <1>3, <1>4, FailOK, CallBegins, AllErrors

-----------------------------------------------------------------------------
LEMMA ExeFileInv ==
  ASSUME MmInv, NEW t \in MmThread, NEW err \in {"ok", "EBADF", "EACCES"}, PrctlSetMmExeFile(t, err)
  PROVE  MmInv'
<1> DEFINE c == mmcall[t]
           g == [c EXCEPT !.at = "mmap_lock", !.touched = TRUE]
           o == [NoMmCall EXCEPT !.ret = err, !.touched = (err = "ok")]
<1>0. c \in MmFrame /\ FrameOK(c) /\ c.at = "exe" /\ mmcall \in [MmThread -> MmFrame]
  BY DEF MmInv, FramesInv, PrctlSetMmExeFile
<1>1. SpaceInv' /\ UNCHANGED <<mmLocks, mm>>
  BY SpaceSame DEF MmInv, PrctlSetMmExeFile
<1>2. CASE err = "ok" /\ c.opt = "MAP"
  <2>1. mmcall' = [mmcall EXCEPT ![t] = g]
    BY <1>0, <1>2 DEF PrctlSetMmExeFile
  <2>2. /\ g \in MmFrame /\ g.at = "mmap_lock" /\ g.opt = c.opt /\ g.map = c.map /\ g.ret = c.ret
        /\ g.word = c.word /\ g.got = c.got
    BY <1>0, AllPlaces DEF MmFrame
  <2> HIDE DEF g, c
  <2>3. FrameOK(g)
    BY <1>0, <1>2, <2>2 DEF FrameOK
  <2>4. ~ HasArg(g) /\ ~ HasRead(g) /\ ~ HasWrite(g)
    BY <2>2 DEF HasArg, HasRead, HasWrite
  <2> QED BY <1>1, <2>1, <2>2, <2>3, <2>4, QuietStep
<1>3. CASE ~ (err = "ok" /\ c.opt = "MAP")
  <2>1. mmcall' = [mmcall EXCEPT ![t] = o]
    BY <1>3 DEF PrctlSetMmExeFile, Done
  <2>2. o \in MmFrame /\ FrameOK(o) /\ o.at = "idle"
    BY OverOK, AllErrors
  <2> HIDE DEF o
  <2>3. ~ HasArg(o) /\ ~ HasRead(o) /\ ~ HasWrite(o)
    BY <2>2 DEF HasArg, HasRead, HasWrite
  <2> QED BY <1>1, <2>1, <2>2, <2>3, QuietStep
<1> QED BY <1>2, <1>3

LEMMA VmMmapInv ==
  ASSUME MmInv, NEW t \in MmThread, NEW err \in BOOLEAN, VmMmap(t, err)
  PROVE  MmInv'
<1> DEFINE asked == mmcall[t].asked
           len == PageAlign(asked)
           g == [NoMmCall EXCEPT !.asked = asked, !.got = len]
<1>0. asked \in 0..WordSize - 1 /\ mmcall \in [MmThread -> MmFrame]
  BY DEF MmInv, FramesInv, MmFrame
<1>1. SpaceInv' /\ UNCHANGED <<mmLocks, mm>>
  BY SpaceSame DEF MmInv, VmMmap
<1>2. len \in Nat /\ (len > 0 => len >= asked /\ len % PageSize = 0)
  BY <1>0, PageAlignRoom
<1>3. NoMmCall \in MmFrame
  BY NoMmCallType
<1>4. \E f \in {Fail("ENOMEM"), g} : mmcall' = [mmcall EXCEPT ![t] = f]
  BY DEF VmMmap
<1> HIDE DEF len, asked
<1>5. g \in MmFrame /\ g.at = "idle" /\ ~ g.touched /\ g.got = len /\ g.asked = asked
  BY <1>0, <1>2, <1>3 DEF MmFrame, NoMmCall
<1> HIDE DEF g
<1>6. FrameOK(g)
  BY <1>2, <1>5 DEF FrameOK
<1>7. PICK f \in {Fail("ENOMEM"), g} : mmcall' = [mmcall EXCEPT ![t] = f]
  BY <1>4
<1>8. f \in MmFrame /\ FrameOK(f) /\ f.at = "idle"
  BY <1>5, <1>6, <1>7, FailOK, AllErrors
<1>9. ~ HasArg(f) /\ ~ HasRead(f) /\ ~ HasWrite(f)
  BY <1>8 DEF HasArg, HasRead, HasWrite
<1> QED BY <1>1, <1>7, <1>8, <1>9, QuietStep

LEMMA CopyAuxvInv ==
  ASSUME MmInv, NEW t \in MmThread, CopyAuxv(t)
  PROVE  MmInv'
<1> DEFINE c == mmcall[t]
           place == IF c.word < c.len THEN "auxv" ELSE "release"
           next == c.word + 1
           g == [c EXCEPT !.word = next, !.touched = TRUE, !.at = place]
           o == [NoMmCall EXCEPT !.ret = "ok", !.touched = TRUE]
<1>0. /\ c \in MmFrame /\ FrameOK(c) /\ c.at = "auxv" /\ mmcall \in [MmThread -> MmFrame]
      /\ VectorSize \in Nat /\ VectorSize >= 2
  BY MmAssumption DEF MmInv, FramesInv, CopyAuxv
<1>1. c.word \in Nat \ {0} /\ c.len \in 0..VectorSize /\ c.word <= c.len
  BY <1>0 DEF MmFrame, FrameOK
<1>2. SpaceInv'
  <2>1. saved_auxv' = [saved_auxv EXCEPT ![c.word] = AuxvWord(c.word)] /\ mm' = mm
    BY DEF CopyAuxv
  <2>2. AuxvWord(c.word) \in {0, 1} /\ (c.word \in {VectorSize - 1, VectorSize} => AuxvWord(c.word) = 0)
    BY <1>0, <1>1 DEF AuxvWord
  <2>3. saved_auxv' \in [1..VectorSize -> {0, 1}]
    BY <1>0, <1>1, <2>1, <2>2 DEF MmInv, SpaceInv
  <2>4. \A i \in {VectorSize - 1, VectorSize} : saved_auxv'[i] = 0
    BY <1>0, <1>1, <2>1, <2>2 DEF MmInv, SpaceInv
  <2> QED BY <2>1, <2>3, <2>4 DEF MmInv, SpaceInv, Good, OrderedPairs, InSpace
<1>3. UNCHANGED <<mmLocks, mm>>
  BY DEF CopyAuxv
<1>4. CASE c.word = c.len /\ c.opt = "AUXV"
  <2>1. mmcall' = [mmcall EXCEPT ![t] = o]
    BY <1>4 DEF CopyAuxv, Done
  <2>2. o \in MmFrame /\ FrameOK(o) /\ o.at = "idle"
    BY OverOK, AllErrors
  <2> HIDE DEF o
  <2>3. ~ HasArg(o) /\ ~ HasRead(o) /\ ~ HasWrite(o)
    BY <2>2 DEF HasArg, HasRead, HasWrite
  <2> QED BY <1>2, <1>3, <2>1, <2>2, <2>3, QuietStep
<1>5. CASE ~ (c.word = c.len /\ c.opt = "AUXV")
  <2>1. mmcall' = [mmcall EXCEPT ![t] = g]
    BY <1>0, <1>5 DEF CopyAuxv
  <2>2. place \in {"auxv", "release"} /\ (place = "auxv" => next <= c.len) /\ next \in Nat \ {0}
    BY <1>1
  <2>3. place = "release" => c.opt = "MAP"
    BY <1>0, <1>1, <1>5 DEF FrameOK
  <2> HIDE DEF place, next
  <2>4. /\ g \in MmFrame /\ g.at = place /\ g.opt = c.opt /\ g.len = c.len /\ g.ret = c.ret
        /\ g.word = next /\ g.got = c.got
    BY <1>0, <2>2, AllPlaces DEF MmFrame
  <2> HIDE DEF g, c
  <2>5. FrameOK(g)
    BY <1>0, <2>2, <2>4 DEF FrameOK
  <2>6. ~ HasArg(g) /\ (HasRead(g) => HasRead(c)) /\ ~ HasWrite(g)
    BY <1>0, <2>2, <2>3, <2>4 DEF HasArg, HasRead, HasWrite
  <2>7. g.at \notin {"store", "brk"}
    BY <2>2, <2>4
  <2> QED BY <1>2, <1>3, <2>1, <2>4, <2>5, <2>6, <2>7, QuietStep DEF c
<1> QED BY <1>4, <1>5

-----------------------------------------------------------------------------
LEMMA MmapReadLockInv ==
  ASSUME MmInv, NEW t \in MmThread, NEW vma \in BOOLEAN, MmapReadLock(t, vma)
  PROVE  MmInv'
<1> DEFINE c == mmcall[t]
           g == [c EXCEPT !.at = "arg_lock", !.vma = vma]
<1>0. c \in MmFrame /\ FrameOK(c) /\ c.at = "mmap_lock" /\ mmcall \in [MmThread -> MmFrame]
  BY DEF MmInv, FramesInv, MmapReadLock
<1>1. mmcall' = [mmcall EXCEPT ![t] = g]
  BY <1>0 DEF MmapReadLock
<1>2. /\ g \in MmFrame /\ g.at = "arg_lock" /\ g.opt = c.opt /\ g.map = c.map /\ g.ret = c.ret /\ g.word = c.word
      /\ g.got = c.got /\ g.touched = c.touched
  BY <1>0, AllPlaces DEF MmFrame
<1> HIDE DEF g, c
<1>3. FrameOK(g)
  BY <1>0, <1>2 DEF FrameOK
<1>4. FramesInv' /\ \A u \in MmThread : mmcall'[u] = IF u = t THEN g ELSE mmcall[u]
  BY <1>1, <1>2, <1>3, FramesStep DEF MmInv
<1>5. LocksInv'
  <2>1. mmap_writer' = NIL /\ arg_lock' = arg_lock /\ mmap_readers' = mmap_readers \cup {t} /\ mmap_writer = NIL
    BY DEF MmapReadLock
  <2> QED BY <1>2, <1>4, <2>1, MmAssumption DEF MmInv, LocksInv, HasArg, HasRead, HasWrite
<1>6. mm' = mm /\ SpaceInv'
  BY SpaceSame DEF MmInv, MmapReadLock, mmState
<1>7. MarkInv'
  BY <1>2, <1>4, <1>6 DEF MmInv, MarkInv
<1> QED BY <1>4, <1>5, <1>6, <1>7 DEF MmInv

LEMMA ArgLockInv ==
  ASSUME MmInv, NEW t \in MmThread, ArgLock(t)
  PROVE  MmInv'
<1> DEFINE c == mmcall[t]
           map == IF c.opt \in Field THEN Moved(c) ELSE c.map
           res == Verdict(c)
           place == IF res = "ok" THEN "store" ELSE "unlock"
           g == [c EXCEPT !.map = map, !.ret = res, !.at = place]
<1>0. c \in MmFrame /\ FrameOK(c) /\ c.at = "arg_lock" /\ mmcall \in [MmThread -> MmFrame] /\ Good(mm)
  BY DEF MmInv, FramesInv, ArgLock, SpaceInv
<1>1. mmcall' = [mmcall EXCEPT ![t] = g]
  BY DEF ArgLock, Checked
<1>2. c.opt \in Field => /\ Moved(c) \in Layout
                         /\ \A f \in Field \ {c.opt} : Moved(c)[f] = mm[f]
  BY <1>0 DEF Moved, Good, Layout, MmFrame
<1>3. map \in Layout \cup {NIL} /\ res \in {"ok", "EINVAL", "EFAULT"} /\ place \in {"store", "unlock"}
  BY <1>0, <1>2 DEF Verdict, MmFrame
<1>4. place = "store" => /\ Good(map) /\ c.opt \in Field \cup {"MAP"} /\ res = "ok"
                         /\ c.opt # "MAP" => \A f \in Field \ {c.opt} : map[f] = mm[f]
  <2>1. "MAP" \notin Field
    BY DEF Field
  <2>2. CASE c.opt = "MAP"
    BY <1>0, <2>1, <2>2 DEF FrameOK
  <2>3. CASE c.opt # "MAP" /\ place = "store"
    <3>1. c.opt \in Field /\ ValidMap(Moved(c)) /\ res = "ok"
      BY <2>3 DEF Verdict
    <3> QED BY <1>2, <3>1 DEF ValidMap, Good
  <2> QED BY <2>2, <2>3
<1>5. c.opt = "MAP" => res = "ok"
  BY DEF Verdict
<1> HIDE DEF map, res, place, c
<1>6. /\ g \in MmFrame /\ g.at = place /\ g.opt = c.opt /\ g.map = map /\ g.ret = res /\ g.word = c.word
      /\ g.got = c.got /\ g.touched = c.touched
  <2>1. g \in MmFrame
    <3>1. place \in Places /\ res \in MmError
      BY <1>3 DEF Places, MmError
    <3> QED BY <1>0, <1>3, <3>1 DEF MmFrame
  <2>2. g.at = place /\ g.map = map /\ g.ret = res
    BY <1>0 DEF MmFrame
  <2>3. g.opt = c.opt /\ g.word = c.word /\ g.got = c.got /\ g.touched = c.touched
    BY <1>0 DEF MmFrame
  <2> QED BY <2>1, <2>2, <2>3
<1> HIDE DEF g
<1>7. FrameOK(g)
  BY <1>0, <1>3, <1>4, <1>5, <1>6 DEF FrameOK
<1>8. FramesInv' /\ \A u \in MmThread : mmcall'[u] = IF u = t THEN g ELSE mmcall[u]
  BY <1>1, <1>6, <1>7, FramesStep DEF MmInv
<1>9. LocksInv'
  <2>1. arg_lock = NIL /\ arg_lock' = t /\ UNCHANGED <<mmap_readers, mmap_writer>>
    BY DEF ArgLock
  <2>2. HasRead(mmcall[t]) /\ ~ HasWrite(g)
    BY <1>0, <1>3, <1>6 DEF HasRead, HasWrite, c
  <2>3. \A u \in MmThread : ~ HasArg(mmcall[u])
    BY <2>1, MmAssumption DEF MmInv, LocksInv
  <2> QED BY <1>8, <2>1, <2>2, <2>3 DEF MmInv, LocksInv
<1>10. mm' = mm /\ SpaceInv'
  BY SpaceSame DEF MmInv, ArgLock, mmState
<1>11. MarkInv'
  <2>1. g.at # "brk" /\ (g.at = "store" /\ g.opt # "MAP" => \A f \in Field \ {g.opt} : g.map[f] = mm[f])
    BY <1>3, <1>4, <1>6
  <2> QED BY <1>8, <1>10, <2>1 DEF MmInv, MarkInv
<1> QED BY <1>8, <1>9, <1>10, <1>11 DEF MmInv

LEMMA StoreLayoutInv ==
  ASSUME MmInv, NEW t \in MmThread, StoreLayout(t)
  PROVE  MmInv'
<1> DEFINE c == mmcall[t]
           g == [c EXCEPT !.at = "unlock", !.touched = TRUE]
<1>0. c \in MmFrame /\ FrameOK(c) /\ c.at = "store" /\ mmcall \in [MmThread -> MmFrame]
  BY DEF MmInv, FramesInv, StoreLayout
<1>1. mmcall' = [mmcall EXCEPT ![t] = g] /\ mm' = c.map
  BY <1>0 DEF StoreLayout
<1>2. g \in MmFrame /\ g.at = "unlock" /\ g.opt = c.opt /\ g.ret = c.ret /\ g.word = c.word /\ g.got = c.got
  BY <1>0, AllPlaces DEF MmFrame
<1> HIDE DEF g, c
<1>3. FrameOK(g)
  BY <1>0, <1>2 DEF FrameOK
<1>4. FramesInv' /\ \A u \in MmThread : mmcall'[u] = IF u = t THEN g ELSE mmcall[u]
  BY <1>1, <1>2, <1>3, FramesStep DEF MmInv
<1>5. arg_lock = t /\ t \in mmap_readers /\ mmap_writer = NIL /\ UNCHANGED <<mmap_readers, mmap_writer, arg_lock>>
  BY <1>0 DEF MmInv, LocksInv, HasArg, HasRead, StoreLayout, mmLocks, c
<1>6. LocksInv'
  BY <1>2, <1>4, <1>5 DEF MmInv, LocksInv, HasArg, HasRead, HasWrite
<1>7. \A u \in MmThread \ {t} : mmcall[u].at \notin {"store", "brk"}
  BY <1>5, MmAssumption DEF MmInv, LocksInv, HasArg, HasWrite
<1>8. MarkInv'
  BY <1>2, <1>4, <1>7 DEF MarkInv
<1>9. SpaceInv'
  BY <1>0, <1>1 DEF MmInv, SpaceInv, StoreLayout, FrameOK, Good, OrderedPairs, InSpace
<1> QED BY <1>4, <1>6, <1>8, <1>9 DEF MmInv

LEMMA ArgUnlockInv ==
  ASSUME MmInv, NEW t \in MmThread, ArgUnlock(t)
  PROVE  MmInv'
<1> DEFINE c == mmcall[t]
           place == IF c.opt = "MAP" /\ c.len > 0 THEN "auxv" ELSE "release"
           g == [c EXCEPT !.at = place]
<1>0. c \in MmFrame /\ FrameOK(c) /\ c.at = "unlock" /\ mmcall \in [MmThread -> MmFrame]
  BY DEF MmInv, FramesInv, ArgUnlock
<1>1. mmcall' = [mmcall EXCEPT ![t] = g]
  BY <1>0 DEF ArgUnlock, Goes
<1>2. place \in {"auxv", "release"} /\ (place = "auxv" => c.opt = "MAP" /\ c.len > 0) /\ c.len \in Nat
  BY <1>0, MmAssumption DEF MmFrame
<1> HIDE DEF place, c
<1>3. /\ g \in MmFrame /\ g.at = place /\ g.opt = c.opt /\ g.ret = c.ret /\ g.word = c.word /\ g.len = c.len
      /\ g.got = c.got /\ g.touched = c.touched
  BY <1>0, <1>2, AllPlaces DEF MmFrame
<1> HIDE DEF g
<1>4. FrameOK(g)
  BY <1>0, <1>2, <1>3 DEF FrameOK
<1>5. FramesInv' /\ \A u \in MmThread : mmcall'[u] = IF u = t THEN g ELSE mmcall[u]
  BY <1>1, <1>3, <1>4, FramesStep DEF MmInv
<1>6. LocksInv'
  <2>1. arg_lock = t /\ t \in mmap_readers /\ UNCHANGED <<mmap_readers, mmap_writer>>
    BY <1>0 DEF MmInv, LocksInv, HasArg, HasRead, ArgUnlock, c
  <2>2. ~ HasArg(g) /\ ~ HasWrite(g)
    BY <1>2, <1>3 DEF HasArg, HasWrite
  <2>3. \A u \in MmThread \ {t} : ~ HasArg(mmcall[u])
    BY <2>1 DEF MmInv, LocksInv
  <2> QED BY <1>5, <2>1, <2>2, <2>3 DEF MmInv, LocksInv, HasArg, HasRead, HasWrite
<1>7. mm' = mm /\ SpaceInv'
  BY SpaceSame DEF MmInv, ArgUnlock, mmState
<1>8. MarkInv'
  BY <1>2, <1>3, <1>5, <1>7 DEF MmInv, MarkInv
<1> QED BY <1>5, <1>6, <1>7, <1>8 DEF MmInv

LEMMA MmapReadUnlockInv ==
  ASSUME MmInv, NEW t \in MmThread, MmapReadUnlock(t)
  PROVE  MmInv'
<1> DEFINE c == mmcall[t]
           o == [NoMmCall EXCEPT !.ret = c.ret, !.touched = c.touched]
<1>0. c \in MmFrame /\ FrameOK(c) /\ c.at = "release"
  BY DEF MmInv, FramesInv, MmapReadUnlock
<1>1. mmcall' = [mmcall EXCEPT ![t] = o]
  BY DEF MmapReadUnlock, Done
<1>2. o \in MmFrame /\ FrameOK(o) /\ o.at = "idle"
  <2>1. /\ c.ret \in MmError
        /\ c.touched \in BOOLEAN /\ (c.touched => c.ret = "ok")
    BY <1>0 DEF MmFrame, FrameOK
  <2> HIDE DEF c
  <2> QED BY <2>1, OverOK
<1> HIDE DEF o, c
<1>3. FramesInv' /\ \A u \in MmThread : mmcall'[u] = IF u = t THEN o ELSE mmcall[u]
  BY <1>1, <1>2, FramesStep DEF MmInv
<1>4. LocksInv'
  <2>1. mmap_readers' = mmap_readers \ {t} /\ UNCHANGED <<mmap_writer, arg_lock>>
    BY DEF MmapReadUnlock
  <2>2. ~ HasArg(o) /\ ~ HasRead(o) /\ ~ HasWrite(o)
    BY <1>2 DEF HasArg, HasRead, HasWrite
  <2> QED BY <1>3, <2>1, <2>2 DEF MmInv, LocksInv
<1>5. mm' = mm /\ SpaceInv'
  BY SpaceSame DEF MmInv, MmapReadUnlock, mmState
<1>6. MarkInv'
  <2>1. o.at # "store" /\ o.at # "brk"
    BY <1>2
  <2> QED BY <1>3, <1>5, <2>1 DEF MmInv, MarkInv
<1> QED BY <1>3, <1>4, <1>5, <1>6 DEF MmInv

-----------------------------------------------------------------------------
LEMMA BrkLockInv ==
  ASSUME MmInv, NEW t \in MmThread, NEW brk \in 0..MaxAddr, BrkLock(t, brk)
  PROVE  MmInv'
<1> DEFINE b == [NoMmCall EXCEPT !.at = "brk", !.opt = "SYS_BRK", !.addr = brk]
           r == [NoMmCall EXCEPT !.at = "brk_unlock", !.opt = "SYS_BRK", !.ret = "ENOMEM"]
<1>0. NoMmCall \in MmFrame
  BY NoMmCallType
<1>1. b \in MmFrame /\ r \in MmFrame
  <2>1. "SYS_BRK" \in Options /\ "brk" \in Places /\ "brk_unlock" \in Places /\ "ENOMEM" \in MmError
    BY DEF Options, Places, MmError
  <2> QED BY <1>0, <2>1 DEF MmFrame
<1>2. /\ b.at = "brk" /\ b.addr = brk /\ b.got = 0 /\ ~ b.touched
      /\ r.at = "brk_unlock" /\ r.got = 0 /\ ~ r.touched
  BY DEF NoMmCall
<1>3. \/ Call(t, b) /\ mm["start_brk"] <= brk /\ brk < TaskSize
      \/ Call(t, r)
  BY DEF BrkLock
<1> HIDE DEF b, r
<1>4. FrameOK(b) /\ FrameOK(r)
  BY <1>2 DEF FrameOK
<1>5. PICK g \in {b, r} : /\ mmcall' = [mmcall EXCEPT ![t] = g]
                          /\ g = b => mm["start_brk"] <= brk /\ brk < TaskSize
  BY <1>2, <1>3 DEF Call
<1>6. FramesInv' /\ \A u \in MmThread : mmcall'[u] = IF u = t THEN g ELSE mmcall[u]
  BY <1>1, <1>4, <1>5, FramesStep DEF MmInv
<1>7. LocksInv'
  <2>1. mmap_readers = {} /\ mmap_writer = NIL /\ mmap_writer' = t /\ UNCHANGED <<mmap_readers, arg_lock>>
    BY DEF BrkLock
  <2>2. \A u \in MmThread : ~ HasWrite(mmcall[u]) /\ ~ HasRead(mmcall[u])
    BY <2>1, MmAssumption DEF MmInv, LocksInv
  <2>3. ~ HasArg(g) /\ ~ HasRead(g)
    BY <1>2, <1>5 DEF HasArg, HasRead
  <2> QED BY <1>6, <2>1, <2>2, <2>3 DEF MmInv, LocksInv
<1>8. mm' = mm /\ SpaceInv'
  BY SpaceSame DEF MmInv, BrkLock, mmState
<1>9. MarkInv'
  BY <1>2, <1>5, <1>6, <1>8 DEF MmInv, MarkInv
<1> QED BY <1>6, <1>7, <1>8, <1>9 DEF MmInv

LEMMA BrkStoreInv ==
  ASSUME MmInv, NEW t \in MmThread, BrkStore(t)
  PROVE  MmInv'
<1> DEFINE c == mmcall[t]
           g == [c EXCEPT !.at = "brk_unlock"]
<1>0. c \in MmFrame /\ FrameOK(c) /\ c.at = "brk" /\ mmcall \in [MmThread -> MmFrame]
  BY DEF MmInv, FramesInv, BrkStore
<1>1. mmcall' = [mmcall EXCEPT ![t] = g] /\ mm' = [mm EXCEPT !["brk"] = c.addr]
  BY <1>0 DEF BrkStore, Goes
<1>2. c.addr \in 0..MaxAddr /\ mm["start_brk"] <= c.addr /\ c.addr < TaskSize /\ mmap_writer = t
  BY <1>0 DEF MmInv, MarkInv, MmFrame, LocksInv, HasWrite
<1> HIDE DEF c
<1>3. g \in MmFrame /\ g.at = "brk_unlock" /\ g.ret = c.ret /\ g.got = c.got /\ g.asked = c.asked
      /\ g.touched = c.touched
  BY <1>0, AllPlaces DEF MmFrame
<1> HIDE DEF g
<1>4. FrameOK(g)
  BY <1>0, <1>3 DEF FrameOK
<1>5. FramesInv' /\ \A u \in MmThread : mmcall'[u] = IF u = t THEN g ELSE mmcall[u]
  BY <1>1, <1>3, <1>4, FramesStep DEF MmInv
<1>6. LocksInv'
  <2>1. UNCHANGED <<mmap_readers, mmap_writer, arg_lock>>
    BY DEF BrkStore, mmLocks
  <2> QED BY <1>2, <1>3, <1>5, <2>1 DEF MmInv, LocksInv, HasArg, HasRead, HasWrite
<1>7. \A u \in MmThread \ {t} : mmcall[u].at \notin {"store", "brk"}
  BY <1>2, MmAssumption DEF MmInv, LocksInv, HasRead, HasWrite
<1>8. MarkInv'
  BY <1>3, <1>5, <1>7 DEF MarkInv
<1>9. SpaceInv'
  <2>1. Good(mm) /\ mm \in [Field -> 0..MaxAddr] /\ MmapMinAddr \in Nat /\ TaskSize \in Nat
    BY MmAssumption DEF MmInv, SpaceInv, Good, Layout
  <2>2. mm' \in Layout /\ \A f \in Field : mm'[f] = IF f = "brk" THEN c.addr ELSE mm[f]
    BY <1>1, <1>2, <2>1 DEF Layout
  <2>3. MmapMinAddr <= mm["start_brk"] /\ mm["start_brk"] \in Nat
    BY <2>1, MmAssumption DEF Good, InSpace, Field
  <2>4. \A f \in Field : InSpace(mm'[f])
    BY <1>2, <2>1, <2>2, <2>3 DEF Good, InSpace
  <2>5. OrderedPairs(mm')
    BY <1>2, <2>1, <2>2 DEF Good, OrderedPairs, Field
  <2> QED BY <2>2, <2>4, <2>5 DEF MmInv, SpaceInv, BrkStore, Good, OrderedPairs, InSpace
<1> QED BY <1>5, <1>6, <1>8, <1>9 DEF MmInv

LEMMA BrkUnlockInv ==
  ASSUME MmInv, NEW t \in MmThread, BrkUnlock(t)
  PROVE  MmInv'
<1> DEFINE c == mmcall[t]
           o == [NoMmCall EXCEPT !.ret = c.ret, !.touched = FALSE]
<1>0. c \in MmFrame /\ c.at = "brk_unlock"
  BY DEF MmInv, FramesInv, BrkUnlock
<1>1. mmcall' = [mmcall EXCEPT ![t] = o]
  BY DEF BrkUnlock, Done
<1>2. o \in MmFrame /\ FrameOK(o) /\ o.at = "idle"
  <2>1. c.ret \in MmError
    BY <1>0 DEF MmFrame
  <2> HIDE DEF c
  <2> QED BY <2>1, OverOK
<1> HIDE DEF o
<1>3. FramesInv' /\ \A u \in MmThread : mmcall'[u] = IF u = t THEN o ELSE mmcall[u]
  BY <1>1, <1>2, FramesStep DEF MmInv
<1>4. LocksInv'
  <2>1. mmap_writer' = NIL /\ mmap_writer = t /\ UNCHANGED <<mmap_readers, arg_lock>>
    BY <1>0 DEF BrkUnlock, MmInv, LocksInv, HasWrite
  <2>2. \A u \in MmThread \ {t} : ~ HasWrite(mmcall[u])
    BY <2>1 DEF MmInv, LocksInv
  <2>3. ~ HasArg(o) /\ ~ HasRead(o) /\ ~ HasWrite(o)
    BY <1>2 DEF HasArg, HasRead, HasWrite
  <2> QED BY <1>3, <2>1, <2>2, <2>3 DEF MmInv, LocksInv
<1>5. mm' = mm /\ SpaceInv'
  BY SpaceSame DEF MmInv, BrkUnlock, mmState
<1>6. MarkInv'
  <2>1. o.at # "store" /\ o.at # "brk"
    BY <1>2
  <2> QED BY <1>3, <1>5, <2>1 DEF MmInv, MarkInv
<1> QED BY <1>3, <1>4, <1>5, <1>6 DEF MmInv

-----------------------------------------------------------------------------
LEMMA MmCallInv ==
  ASSUME MmInv, NEW t \in MmThread, MmCall(t)
  PROVE  MmInv'
<1>1. ASSUME NEW opt \in Field \cup {"BAD"}, NEW addr \in 0..MaxAddr, NEW misused \in BOOLEAN,
             PrctlSetMm(t, opt, addr, NIL, misused)
      PROVE  MmInv'
  BY <1>1, PrctlSetMmInv
<1>2. ASSUME NEW exe \in ExeFile, PrctlSetMm(t, "EXE_FILE", 0, exe, FALSE) PROVE MmInv'
  <2>1. 0 \in 0..MaxAddr
    BY MmAssumption
  <2> QED BY <1>2, <2>1, PrctlSetMmInv
<1> QED BY <1>1, <1>2, PrctlSetAuxvInv, PrctlSetMmMapInv, BrkLockInv, TamallocStatsInv DEF MmCall

LEMMA MmNextInv == MmInv /\ [MmNext]_mmVars => MmInv'
<1> SUFFICES ASSUME MmInv, [MmNext]_mmVars PROVE MmInv'
  OBVIOUS
<1>1. ASSUME UNCHANGED <<mmLocks, mm, saved_auxv, mmcall>> PROVE MmInv'
  <2>1. FramesInv'
    <3>1. \A c : FrameOK(c)' <=> FrameOK(c)
      BY DEF FrameOK, Good, OrderedPairs, InSpace
    <3> QED BY <1>1, <3>1 DEF MmInv, FramesInv
  <2>2. LocksInv'
    BY <1>1 DEF MmInv, LocksInv, mmLocks, HasArg, HasRead, HasWrite
  <2>3. MarkInv' /\ SpaceInv'
    BY <1>1 DEF MmInv, MarkInv, SpaceInv, Good, OrderedPairs, InSpace
  <2> QED BY <2>1, <2>2, <2>3 DEF MmInv
<1>2. CASE UNCHANGED mmVars
  BY <1>1, <1>2 DEF mmVars, mmState
<1>3. ASSUME NEW v \in DataLimits, SetDataLimit(v) PROVE MmInv'
  BY <1>1, <1>3 DEF SetDataLimit
<1>4. ASSUME NEW t \in MmThread, MmStep(t) PROVE MmInv'
  BY <1>4, ExeFileInv, MmapReadLockInv, ArgLockInv, StoreLayoutInv, ArgUnlockInv, CopyAuxvInv, MmapReadUnlockInv,
     BrkStoreInv, BrkUnlockInv, VmMmapInv DEF MmStep
<1> QED BY <1>2, <1>3, <1>4, MmCallInv DEF MmNext

LEMMA MmInvariance == MmSpec => []MmInv
  BY MmInitInv, MmNextInv, PTL DEF MmSpec

-----------------------------------------------------------------------------
\* What prctl_set_mm() and sys_brk() leave of the layout is valid, for any
\* number of threads: arg_lock orders the PR_SET_MM calls among each other,
\* mmap_lock orders them against sys_brk().
THEOREM LayoutStaysValid == MmSpec => []LayoutValid
<1>1. MmInv => LayoutValid
  BY DEF MmInv, SpaceInv, Good, LayoutValid
<1> QED BY <1>1, MmInvariance, PTL

\* A prctl call that fails leaves the address space as it was.
THEOREM FailureIsClean == MmSpec => []AllOrNothing
<1>1. MmInv => AllOrNothing
  BY DEF MmInv, FramesInv, FrameOK, AllOrNothing
<1> QED BY <1>1, MmInvariance, PTL

\* tamalloc_stats grants at least what was asked, for every page and word
\* size: PAGE_ALIGN() either rounds up or wraps to 0, which is refused.
THEOREM GrantHasRoom == MmSpec => []RoomForCaller
<1>1. MmInv => RoomForCaller
  BY DEF MmInv, FramesInv, FrameOK, RoomForCaller
<1> QED BY <1>1, MmInvariance, PTL

\* Only the store of its own marks takes a call out of that place.
LEMMA LeavesStore ==
  ASSUME MmInv, [MmNext]_mmVars, NEW t \in MmThread, mmcall[t].at = "store", mmcall'[t].at # "store"
  PROVE  StoreLayout(t)
<1> SUFFICES ASSUME ~ StoreLayout(t) PROVE FALSE
  OBVIOUS
<1>0. mmcall \in [MmThread -> MmFrame]
  BY DEF MmInv, FramesInv
<1>1. ASSUME NEW u \in MmThread, mmcall[u].at # "store" \/ u # t, NEW f, mmcall' = [mmcall EXCEPT ![u] = f]
      PROVE  FALSE
  BY <1>0, <1>1
<1>2. ASSUME NEW u \in MmThread, MmCall(u) PROVE FALSE
  BY <1>1, <1>2 DEF MmCall, PrctlSetMm, PrctlSetAuxv, PrctlSetMmMap, BrkLock, TamallocStats, Call
<1>3. ASSUME NEW u \in MmThread, MmStep(u) PROVE FALSE
  <2>1. ASSUME NEW err, PrctlSetMmExeFile(u, err) PROVE FALSE
    BY <1>0, <2>1 DEF PrctlSetMmExeFile, Done
  <2>2. ASSUME NEW vma, MmapReadLock(u, vma) PROVE FALSE
    BY <1>0, <2>2 DEF MmapReadLock
  <2>3. ASSUME NEW err, VmMmap(u, err) PROVE FALSE
    BY <1>0, <2>3 DEF VmMmap
  <2>4. ArgLock(u) \/ ArgUnlock(u) \/ MmapReadUnlock(u) => FALSE
    BY <1>0 DEF ArgLock, ArgUnlock, MmapReadUnlock, Goes, Done
  <2>5. CopyAuxv(u) => FALSE
    BY <1>0 DEF CopyAuxv, Done
  <2>6. BrkStore(u) \/ BrkUnlock(u) => FALSE
    BY <1>0 DEF BrkStore, BrkUnlock, Goes, Done
  <2>7. StoreLayout(u) => FALSE
    BY <1>0 DEF StoreLayout
  <2> QED BY <1>3, <2>1, <2>2, <2>3, <2>4, <2>5, <2>6, <2>7 DEF MmStep
<1> QED BY <1>2, <1>3 DEF MmNext, SetDataLimit, mmVars

\* PR_SET_MM writes all eleven marks back and yet moves only its own, since
\* the others cannot move between its reading and its writing.
THEOREM NoMarkIsLost == MmSpec => NoLostMark
<1>1. ASSUME MmInv, [MmNext]_mmVars, NEW t \in MmThread, mmcall[t].at = "store", mmcall'[t].at # "store",
             mmcall[t].opt # "MAP", NEW f \in Field \ {mmcall[t].opt}
      PROVE  mm'[f] = mm[f]
  <2>1. mm' = mmcall[t].map
    BY <1>1, LeavesStore DEF StoreLayout
  <2>2. mmcall[t].map[f] = mm[f]
    BY <1>1 DEF MmInv, MarkInv
  <2> QED BY <2>1, <2>2
<1>2. MmInv /\ [MmNext]_mmVars =>
        [\A t \in MmThread : mmcall[t].at = "store" /\ mmcall'[t].at # "store" /\ mmcall[t].opt # "MAP" =>
           \A f \in Field \ {mmcall[t].opt} : mm'[f] = mm[f]]_mmVars
  BY <1>1
<1> QED BY <1>2, MmInvariance, PTL DEF MmSpec, NoLostMark

=============================================================================
