----------------------------- MODULE Credentials -----------------------------
(***************************************************************************)
(* The calls of kernel/sys.c that change the identity of a task: setuid,   *)
(* setreuid, setresuid, setfsuid and the group forms.                      *)
(*                                                                         *)
(* A call fills in a copy of the credentials, which nobody else sees, and  *)
(* gives it up (abort_creds) or installs it (commit_creds).  Only a task   *)
(* changes its own credentials; what tasks share is the number of          *)
(* processes of each user, which a user change reads in                    *)
(* flag_nproc_exceeded and updates later, in commit_creds.  A user change  *)
(* is therefore two steps, and every other call is one.                    *)
(*                                                                         *)
(* There is one user namespace.  CAP_SETUID and CAP_SETGID are one         *)
(* capability, permitted or effective.  The capability rules, commit_creds *)
(* and execve are outside this tree and marked external.                   *)
(***************************************************************************)
EXTENDS Integers, FiniteSets

CONSTANTS Task,
          Uid, Gid,    \* the valid ids; Root is a uid
          Root,
          NprocLimit,  \* rlimit(RLIMIT_NPROC)
          MaxOthers,   \* bound: processes of a user that make none of these calls
          NULL

KEEP == -1             \* (uid_t) -1 : leave this id alone
BAD == -2              \* an id that make_kuid does not map

EPERM == -1
EAGAIN == -11
ENOMEM == -12
EACCES == -13          \* stands for the answer of a security module
EINVAL == -22

ASSUME CredAssumption == /\ IsFiniteSet(Task)
                         /\ Uid \subseteq Nat /\ Gid \subseteq Nat /\ Root \in Uid
                         /\ NprocLimit \in Nat /\ MaxOthers \in Nat

VARIABLES cred,        \* current->cred
          pend,        \* the copy a user change is about to commit, or NULL
          flag,        \* PF_NPROC_EXCEEDED
          nproc,       \* UCOUNT_RLIMIT_NPROC of each user
          others,      \* how many of these belong to tasks outside the model
          ret,         \* what the last call returned
          own          \* history: the filesystem ids that setfs*id chose

vars == <<cred, pend, flag, nproc, others, ret, own>>

Ids(S) == [r : S, e : S, s : S, fs : S]
Cred == [u : Ids(Uid), g : Ids(Gid), user : Uid, ucounts : Uid,
         permitted : BOOLEAN, effective : BOOLEAN]

Three(i) == {i.r, i.e, i.s}
AllIds(i) == [r |-> i, e |-> i, s |-> i, fs |-> i]

\* A process as login leaves it.
Login(u, g) == [u |-> AllIds(u), g |-> AllIds(g), user |-> u, ucounts |-> u,
                permitted |-> u = Root, effective |-> u = Root]

ASSUME NullAssumption == NULL \notin Cred

Counted(u) == {t \in Task : cred[t].ucounts = u}

Init ==
  /\ \E id \in [Task -> Uid \X Gid] : cred = [t \in Task |-> Login(id[t][1], id[t][2])]
  /\ pend = [t \in Task |-> NULL]
  /\ flag = [t \in Task |-> FALSE]
  /\ others = [u \in Uid |-> 0]
  /\ nproc = [u \in Uid |-> Cardinality(Counted(u))]
  /\ ret = [t \in Task |-> 0]
  /\ own = [t \in Task |-> {}]

-----------------------------------------------------------------------------
(* The rules, which are the same for users and groups: i is the record of  *)
(* real, effective, saved and filesystem id, cap says that the caller has  *)
(* the capability.                                                         *)

Valid(S, args) == args \subseteq S \cup {KEEP}
Pick(arg, old) == IF arg = KEEP THEN old ELSE arg

MayRe(i, r, e, cap) == cap \/ /\ r \in {KEEP, i.r, i.e}
                              /\ e \in {KEEP, i.r, i.e, i.s}
Re(i, r, e) ==
  [r |-> Pick(r, i.r), e |-> Pick(e, i.e), fs |-> Pick(e, i.e),
   s |-> IF r # KEEP \/ (e # KEEP /\ e # i.r) THEN Pick(e, i.e) ELSE i.s]

MaySet(i, x, cap) == cap \/ x \in {i.r, i.s}

Set(i, x, cap) == IF cap THEN AllIds(x) ELSE [i EXCEPT !.e = x, !.fs = x]

ResNoChange(i, r, e, s) == /\ r \in {KEEP, i.r}
                           /\ e = KEEP \/ (e = i.e /\ e = i.fs)
                           /\ s \in {KEEP, i.s}

\* Mutant of MayRes: the saved id is not checked.
MayResAny(i, r, e, s, cap) == cap \/ {r, e} \subseteq {KEEP, i.r, i.e, i.s}

MayRes(i, r, e, s, cap) == cap \/ {r, e, s} \subseteq {KEEP, i.r, i.e, i.s}
Res(i, r, e, s) ==
  [r |-> Pick(r, i.r), e |-> Pick(e, i.e), s |-> Pick(s, i.s), fs |-> Pick(e, i.e)]

MayFs(i, x, cap) == cap \/ x \in {i.r, i.e, i.s, i.fs}

-----------------------------------------------------------------------------
(* Filling in the copy.  Each operator gives the possible results, NULL    *)
(* when the step fails.                                                    *)

\* Mutant of SetUser: its failure is ignored.
SetUserIgnored(old, new) ==
  IF new.u.r = old.u.r THEN {new} ELSE {[new EXCEPT !.user = new.u.r], new}

\* set_user(): the user_struct of a new real uid.
SetUser(old, new) ==
  IF new.u.r = old.u.r THEN {new} ELSE {[new EXCEPT !.user = new.u.r], NULL}

HasRoot(i) == Root \in Three(i)

\* Mutant of FixSetuid: the call is missing.
FixSetuidLost(old, new) == {new, NULL}

\* security_task_fix_setuid(): capabilities follow the root id, and a security
\* module may object.
FixSetuid(old, new) ==
  LET kept == new.permitted /\ (HasRoot(old.u) => HasRoot(new.u))
      eff == kept /\ IF (old.u.e = Root) = (new.u.e = Root) THEN new.effective
                                                            ELSE new.u.e = Root
  IN {[new EXCEPT !.permitted = kept, !.effective = eff], NULL}
FixSetgid(new) == {new, NULL}

\* set_cred_ucounts(): the counters of a new real uid.
SetCredUcounts(new) ==
  IF new.ucounts = new.u.r THEN {new} ELSE {[new EXCEPT !.ucounts = new.u.r], NULL}

\* Mutant of FlagNprocExceeded: the flag is never cleared.
FlagSetOnly(t, new) ==
  flag[t] \/ (new.ucounts # cred[t].ucounts /\ nproc[new.ucounts] > NprocLimit
              /\ new.user # Root)

\* flag_nproc_exceeded(new)
FlagNprocExceeded(t, new) ==
  IF new.ucounts = cred[t].ucounts THEN flag[t]
    ELSE nproc[new.ucounts] > NprocLimit /\ new.user # Root

-----------------------------------------------------------------------------
(* Ends of a call. *)

Ready(t) == pend[t] = NULL

\* The call returns r and changes nothing; abort_creds drops the copy.
Return(t, r) ==
  /\ ret' = [ret EXCEPT ![t] = r]
  /\ UNCHANGED <<cred, pend, flag, nproc, others, own>>

\* The end that setreuid, setuid and setresuid share: everything that may
\* still fail, then the flag; commit_creds is next.
FinishUid(t, filled) ==
  \/ \E a \in SetUser(cred[t], filled) :
       \/ a = NULL /\ Return(t, EAGAIN)
       \/ a # NULL /\ \E b \in FixSetuid(cred[t], a) :
            \/ b = NULL /\ Return(t, EACCES)
            \/ b # NULL /\ \E new \in SetCredUcounts(b) :
                 \/ new = NULL /\ Return(t, EAGAIN)
                 \/ /\ new # NULL
                    /\ pend' = [pend EXCEPT ![t] = new]
                    /\ flag' = [flag EXCEPT ![t] = FlagNprocExceeded(t, new)]
                    /\ UNCHANGED <<cred, nproc, others, ret, own>>

\* A group call commits at once: it shares nothing.
FinishGid(t, filled) ==
  \E new \in FixSetgid(filled) :
    \/ new = NULL /\ Return(t, EACCES)
    \/ /\ new # NULL
       /\ cred' = [cred EXCEPT ![t] = new]
       /\ ret' = [ret EXCEPT ![t] = 0]
       /\ own' = [own EXCEPT ![t] = @ \ {"g"}]
       /\ UNCHANGED <<pend, flag, nproc, others>>

\* commit_creds() of a user change: the process now counts for its new user.
CommitCreds(t) ==
  LET new == pend[t] IN
  /\ new # NULL
  /\ cred' = [cred EXCEPT ![t] = new]
  /\ nproc' = IF new.user = cred[t].user THEN nproc
                ELSE [u \in Uid |-> nproc[u] + (IF u = new.ucounts THEN 1 ELSE 0)
                                             - (IF u = cred[t].ucounts THEN 1 ELSE 0)]
  /\ pend' = [pend EXCEPT ![t] = NULL]
  /\ ret' = [ret EXCEPT ![t] = 0]
  /\ own' = [own EXCEPT ![t] = @ \ {"u"}]
  /\ UNCHANGED <<flag, others>>

-----------------------------------------------------------------------------
(* The calls. *)

\* __sys_setreuid(ruid, euid)
Setreuid(t, ruid, euid) ==
  /\ Ready(t)
  /\ LET c == cred[t]
         may == MayRe(c.u, ruid, euid, c.effective)
     IN IF ~Valid(Uid, {ruid, euid}) THEN Return(t, EINVAL)
        ELSE \/ Return(t, ENOMEM)
             \/ ~may /\ Return(t, EPERM)
             \/ may /\ FinishUid(t, [c EXCEPT !.u = Re(c.u, ruid, euid)])

\* __sys_setuid(uid)
Setuid(t, uid) ==
  /\ Ready(t)
  /\ LET c == cred[t]
         may == MaySet(c.u, uid, c.effective)
     IN IF uid \notin Uid THEN Return(t, EINVAL)
        ELSE \/ Return(t, ENOMEM)
             \/ ~may /\ Return(t, EPERM)
             \/ may /\ FinishUid(t, [c EXCEPT !.u = Set(c.u, uid, c.effective)])

\* __sys_setresuid(ruid, euid, suid): permission is checked before the copy.
Setresuid(t, ruid, euid, suid) ==
  /\ Ready(t)
  /\ LET c == cred[t] IN
     IF ~Valid(Uid, {ruid, euid, suid}) THEN Return(t, EINVAL)
     ELSE IF ResNoChange(c.u, ruid, euid, suid) THEN Return(t, 0)
     ELSE IF ~MayRes(c.u, ruid, euid, suid, c.effective) THEN Return(t, EPERM)
     ELSE \/ Return(t, ENOMEM)
          \/ FinishUid(t, [c EXCEPT !.u = Res(c.u, ruid, euid, suid)])

\* __sys_setregid(rgid, egid)
Setregid(t, rgid, egid) ==
  /\ Ready(t)
  /\ LET c == cred[t]
         may == MayRe(c.g, rgid, egid, c.effective)
     IN IF ~Valid(Gid, {rgid, egid}) THEN Return(t, EINVAL)
        ELSE \/ Return(t, ENOMEM)
             \/ ~may /\ Return(t, EPERM)
             \/ may /\ FinishGid(t, [c EXCEPT !.g = Re(c.g, rgid, egid)])

\* __sys_setgid(gid)
Setgid(t, gid) ==
  /\ Ready(t)
  /\ LET c == cred[t]
         may == MaySet(c.g, gid, c.effective)
     IN IF gid \notin Gid THEN Return(t, EINVAL)
        ELSE \/ Return(t, ENOMEM)
             \/ ~may /\ Return(t, EPERM)
             \/ may /\ FinishGid(t, [c EXCEPT !.g = Set(c.g, gid, c.effective)])

\* __sys_setresgid(rgid, egid, sgid)
Setresgid(t, rgid, egid, sgid) ==
  /\ Ready(t)
  /\ LET c == cred[t] IN
     IF ~Valid(Gid, {rgid, egid, sgid}) THEN Return(t, EINVAL)
     ELSE IF ResNoChange(c.g, rgid, egid, sgid) THEN Return(t, 0)
     ELSE IF ~MayRes(c.g, rgid, egid, sgid, c.effective) THEN Return(t, EPERM)
     ELSE \/ Return(t, ENOMEM)
          \/ FinishGid(t, [c EXCEPT !.g = Res(c.g, rgid, egid, sgid)])

\* The end of setfsuid and setfsgid, which tell the caller the old id whether
\* or not they changed it; k names the kind of id.
ChangeFs(t, k, new) ==
  /\ cred' = [cred EXCEPT ![t] = new]
  /\ own' = [own EXCEPT ![t] = @ \cup {k}]
  /\ UNCHANGED <<pend, flag, nproc, others>>

\* __sys_setfsuid(uid)
Setfsuid(t, uid) ==
  /\ Ready(t)
  /\ ret' = [ret EXCEPT ![t] = cred[t].u.fs]
  /\ \/ UNCHANGED <<cred, pend, flag, nproc, others, own>>
     \/ /\ uid \in Uid \ {cred[t].u.fs}
        /\ MayFs(cred[t].u, uid, cred[t].effective)
        /\ ChangeFs(t, "u", [cred[t] EXCEPT !.u.fs = uid])

\* __sys_setfsgid(gid)
Setfsgid(t, gid) ==
  /\ Ready(t)
  /\ ret' = [ret EXCEPT ![t] = cred[t].g.fs]
  /\ \/ UNCHANGED <<cred, pend, flag, nproc, others, own>>
     \/ /\ gid \in Gid \ {cred[t].g.fs}
        /\ MayFs(cred[t].g, gid, cred[t].effective)
        /\ ChangeFs(t, "g", [cred[t] EXCEPT !.g.fs = gid])

-----------------------------------------------------------------------------
(* What happens around the calls. *)

\* execve() of a file that is setuid to owner, or is not (KEEP).  This is where
\* PF_NPROC_EXCEEDED has its effect.
Execve(t, owner) ==
  /\ Ready(t)
  /\ LET c == cred[t]
         e == Pick(owner, c.u.e)
     IN IF flag[t] /\ nproc[c.ucounts] > NprocLimit THEN Return(t, EAGAIN)
        ELSE /\ flag' = [flag EXCEPT ![t] = FALSE]
             /\ cred' = [cred EXCEPT ![t] =
                  [c EXCEPT !.u = [r |-> c.u.r, e |-> e, s |-> e, fs |-> e],
                            !.g = [r |-> c.g.r, e |-> c.g.e, s |-> c.g.e, fs |-> c.g.e],
                            !.permitted = Root \in {c.u.r, e}, !.effective = e = Root]]
             /\ ret' = [ret EXCEPT ![t] = 0]
             /\ own' = [own EXCEPT ![t] = {}]
             /\ UNCHANGED <<pend, nproc, others>>

\* A process of user u that makes none of the calls starts or ends.
OtherStarts(u) ==
  /\ others[u] < MaxOthers
  /\ others' = [others EXCEPT ![u] = @ + 1]
  /\ nproc' = [nproc EXCEPT ![u] = @ + 1]
  /\ UNCHANGED <<cred, pend, flag, ret, own>>
OtherEnds(u) ==
  /\ others[u] > 0
  /\ others' = [others EXCEPT ![u] = @ - 1]
  /\ nproc' = [nproc EXCEPT ![u] = @ - 1]
  /\ UNCHANGED <<cred, pend, flag, ret, own>>

UidArg == Uid \cup {KEEP, BAD}
GidArg == Gid \cup {KEEP, BAD}

UidCall(t) ==
  \/ \E r, e \in UidArg : Setreuid(t, r, e)
  \/ \E x \in UidArg : Setuid(t, x)
  \/ \E r, e, s \in UidArg : Setresuid(t, r, e, s)
  \/ \E x \in UidArg : Setfsuid(t, x)

GidCall(t) ==
  \/ \E r, e \in GidArg : Setregid(t, r, e)
  \/ \E x \in GidArg : Setgid(t, x)
  \/ \E r, e, s \in GidArg : Setresgid(t, r, e, s)
  \/ \E x \in GidArg : Setfsgid(t, x)

Next ==
  \/ \E t \in Task : \/ UidCall(t)
                     \/ GidCall(t)
                     \/ CommitCreds(t)
                     \/ \E owner \in Uid \cup {KEEP} : Execve(t, owner)
  \/ \E u \in Uid : OtherStarts(u) \/ OtherEnds(u)

Spec == Init /\ [][Next]_vars

-----------------------------------------------------------------------------
(* Properties. *)

TypeOK ==
  /\ cred \in [Task -> Cred]
  /\ pend \in [Task -> Cred \cup {NULL}]
  /\ flag \in [Task -> BOOLEAN]
  /\ others \in [Uid -> 0..MaxOthers]
  /\ nproc \in [Uid -> Int]
  /\ ret \in [Task -> Uid \cup Gid \cup {0, EPERM, EAGAIN, ENOMEM, EACCES, EINVAL}]
  /\ own \in [Task -> SUBSET {"u", "g"}]

\* A task is charged to the user that its real uid names: user_struct and
\* ucounts follow uid through every setuid, setreuid and setresuid, the failed
\* ones included, and a user's process count is the number of its processes.
ChargedToUid ==
  /\ \A t \in Task : cred[t].user = cred[t].u.r /\ cred[t].ucounts = cred[t].u.r
  /\ \A u \in Uid : nproc[u] = others[u] + Cardinality(Counted(u))

\* Privilege goes with the root id: after any sequence of the calls a task has
\* CAP_SETUID in effect exactly when its effective uid is root, and may get it
\* back exactly when one of its three uids is.
PrivilegeIsRoot ==
  \A t \in Task : /\ cred[t].effective <=> cred[t].u.e = Root
                  /\ cred[t].permitted <=> HasRoot(cred[t].u)

\* root is never held to RLIMIT_NPROC: whatever changes of identity led there,
\* a task of INIT_USER between calls is not marked PF_NPROC_EXCEEDED.
RootNotFlagged == \A t \in Task : flag[t] /\ Ready(t) => cred[t].user # Root

\* The filesystem id shadows the effective id, except when it was set by
\* setfsuid or setfsgid since the last change of the other ids.
FsIdShadows ==
  \A t \in Task : /\ "u" \notin own[t] => cred[t].u.fs = cred[t].u.e
                  /\ "g" \notin own[t] => cred[t].g.fs = cred[t].g.e

\* Without the capability a task only moves its ids among those it has: a
\* program that has dropped its privileges does not get them back by any of
\* these calls.  (A setuid program it executes is another matter.)
NoNewIds == [][
  \A t \in Task :
    ~cred[t].effective /\ ~(\E owner \in Uid \cup {KEEP} : Execve(t, owner)) =>
      /\ Three(cred'[t].u) \subseteq Three(cred[t].u)
      /\ Three(cred'[t].g) \subseteq Three(cred[t].g)
      /\ cred'[t].u.fs \in Three(cred[t].u) \cup {cred[t].u.fs}
      /\ cred'[t].g.fs \in Three(cred[t].g) \cup {cred[t].g.fs}
      /\ cred'[t].permitted => cred[t].permitted ]_vars

==============================================================================
