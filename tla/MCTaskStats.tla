----------------------------- MODULE MCTaskStats -----------------------------
(***************************************************************************)
(* Instances of TaskStats for TLC, and a statement of a comment that the  *)
(* walk does not keep.                                                     *)
(***************************************************************************)
EXTENDS TaskStats

CONSTANTS t1, t2

\* t2 is a thread of the process t1.
MCThreads == [t \in Task |-> IF t = t2 THEN t1 ELSE t]

\* A process that tamalloc skips as a zombie has no memory.
ZombieHasNoMemory == \A c \in Caller :
  pc[c] = "zombie" /\ life[frame[c].task] = "zombie" =>
    \A t \in Task : GroupLeader[t] = frame[c].task => mm[t] = NULL

==============================================================================
