--------------------------- MODULE MCMemoryLimits ---------------------------
(***************************************************************************)
(* Instances of MemoryLimits for TLC (processes without threads), and the  *)
(* statements of the documentation that the calls do not keep.             *)
(***************************************************************************)
EXTENDS MemoryLimits, TLC

MCLeader == [t \in Task |-> t]

Symmetry == Permutations(Node) \cup Permutations(Caller)

\* A pid has at most one limit on the list.
OneEntryPerPid == \A m, n \in Reachable : entry[m].pid = entry[n].pid => m = n

HasEntry(p) == \E n \in Reachable : entry[n].pid = p

\* update reports ESRCH only for a pid without a limit.
UpdateFindsListed == \A c \in Caller :
  frame[c].op = "update" /\ frame[c].ret = ESRCH => ~ HasEntry(frame[c].pid)

==============================================================================
