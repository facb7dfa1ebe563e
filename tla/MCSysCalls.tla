----------------------------- MODULE MCSysCalls -----------------------------
(***************************************************************************)
(* An instance for TLC of four families of calls: groups and priorities,   *)
(* resource limits, address spaces, and the memory of the machine.  The    *)
(* four have no variable in common.  A behaviour in which they interleave  *)
(* has a property of one family when the steps of that family alone have   *)
(* it, so each behaviour here is one of a single family: part.             *)
(***************************************************************************)
EXTENDS Priorities, ResourceLimits, AddressSpace, MemoryInfo, TLC

CONSTANTS t1, t2, p1, p2, u1, u2

VARIABLE part

allVars == <<part, vars, limitVars, mmVars, infoVars>>

AllInit == /\ part \in {"priorities", "limits", "mm", "info"}
           /\ Init /\ LimitInit
           /\ MmInit /\ (part # "mm" => rlimit_data = 0)
           /\ InfoInit /\ (part # "info" => totalram = 5 /\ totalswap = 0)

AllNext == /\ UNCHANGED part
           /\ \/ part = "priorities" /\ Next /\ UNCHANGED <<limitVars, mmVars, infoVars>>
              \/ part = "limits" /\ LimitNext /\ UNCHANGED <<vars, mmVars, infoVars>>
              \/ part = "mm" /\ MmNext /\ UNCHANGED <<vars, limitVars, infoVars>>
              \/ part = "info" /\ InfoNext /\ UNCHANGED <<vars, limitVars, mmVars>>

AllSpec == AllInit /\ [][AllNext]_allVars

-----------------------------------------------------------------------------
\* One process of root and two of one user; one of the two makes the calls.
MCPid == 1..3
MCCaller == {2}
MCOwner == <<0, 7, 7>>
MCNiceArg == {-2, 0, 2}
MCMinNice == -1

\* Two processes of one user; the thread of the first one has
\* CAP_SYS_RESOURCE.
MCHome == (t1 :> p1) @@ (t2 :> p2)
MCUid == (p1 :> 7) @@ (p2 :> 7)
MCLimitArg == {[cur |-> 1, max |-> 2], [cur |-> 0, max |-> 3], [cur |-> 2, max |-> 1]}
MCLimitCalls == (t1 :> 1) @@ (t2 :> 1)

\* Addresses 1 and 2 can be used.  One of the maps is out of order.
LayoutOf(code, data, heap, stack) ==
  [f \in Field |-> CASE f = "start_code" -> code[1] [] f = "end_code" -> code[2]
                     [] f = "start_data" -> data[1] [] f = "end_data" -> data[2]
                     [] f = "start_brk" -> heap[1] [] f = "brk" -> heap[2] [] OTHER -> stack]
MCFirstLayout == LayoutOf(<<1, 2>>, <<1, 2>>, <<1, 2>>, 2)
MCMapArg == {LayoutOf(<<1, 2>>, <<1, 1>>, <<1, 2>>, 1), LayoutOf(<<2, 1>>, <<1, 1>>, <<1, 1>>, 1)}
MCMmCalls == (u1 :> 1) @@ (u2 :> 1)
=============================================================================
