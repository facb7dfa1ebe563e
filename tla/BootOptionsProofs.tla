-------------------------- MODULE BootOptionsProofs -------------------------
(***************************************************************************)
(* Proofs about BootOptions and the arrays that KernelStart hands to init, *)
(* for any options, boot configurations and sizes of the arrays.           *)
(*                                                                         *)
(* PassInv says what the arrays of arguments and variables hold when Place *)
(* options have been read: ArgsInv and EnvInv, for the text that ConfigInv *)
(* describes.  EarlyInv is what this needs of kernel_init().               *)
(***************************************************************************)
EXTENDS KernelStart, TLAPS

\* The time that a leaf may take.
USE ZenonT(10), SMTT(20)

USE DEF BootStep, InitStep

\* The places of the boot thread before rest_init().
Options == {"setup_boot_config", "setup_command_line", "parse_args", "init_args", "extra_init_args",
            "rest_init", "panic"}

\* kernel_init() does not run before the options have been read.
EarlyInv == boot \in Options => kinit = "none"

LEMMA OptionPlaces ==
  ASSUME OptionNext PROVE boot \in Options \ {"rest_init"} /\ boot' \in Options
<1>1. CASE SetupBootConfig
  BY <1>1 DEF SetupBootConfig, Options
<1>2. CASE SetupCommandLine
  BY <1>2 DEF SetupCommandLine, Options
<1>3. CASE UnknownBootoption
  BY <1>3 DEF UnknownBootoption, Options
<1>4. CASE MainOptionsRead
  BY <1>4 DEF MainOptionsRead, Options
<1>5. CASE SetInitArg
  BY <1>5 DEF SetInitArg, Options
<1>6. CASE InitArgsRead
  BY <1>6 DEF InitArgsRead, Options
<1>7. CASE ConsoleInit
  BY <1>7 DEF ConsoleInit, Options
<1> QED BY <1>1, <1>2, <1>3, <1>4, <1>5, <1>6, <1>7 DEF OptionNext

LEMMA EarlyNext == EarlyInv /\ [BootNext]_bootVars => EarlyInv'
<1> SUFFICES ASSUME EarlyInv, [BootNext]_bootVars PROVE EarlyInv'
  OBVIOUS
<1> USE DEF EarlyInv
<1>1. CASE OptionNext /\ UNCHANGED startVars
  BY <1>1, OptionPlaces DEF startVars
<1>2. CASE RestInit
  BY <1>2 DEF RestInit, SpawnInit, SpawnKthreadd, FindKthreadd, ScheduleState, Complete, Options
<1>3. CASE KernelInit
  <2>1. kinit # "none" /\ boot' = boot
    BY <1>3 DEF KernelInit, WaitForKthreadd, WorkqueueInit, KthreadsMade, DoOneInitcall, DoInitcallLevel,
           EarlyUserspace, AsyncSynchronize, FreeInitmem, RunInitProcess, optionVars
  <2> QED BY <2>1
<1>4. CASE KthreaddServes \/ \E w \in AsyncCalls : AsyncRun(w)
  BY <1>4 DEF KthreaddServes, AsyncRun, optionVars
<1>5. CASE UNCHANGED bootVars
  BY <1>5 DEF bootVars, optionVars, startVars
<1> QED BY <1>1, <1>2, <1>3, <1>4, <1>5 DEF BootNext, BootThread

LEMMA NoneIsNoText == NONE # "init" /\ NONE # "env"
  BY OptionAssumption

\* The arrays keep their slots, and the last ones are empty.
SlotsInv ==
  /\ DOMAIN argv_init = 0..MAX_INIT_ARGS+1 /\ DOMAIN envp_init = 0..MAX_INIT_ENVS+1
  /\ LastSlotsEmpty

LEMMA SlotsNext == SlotsInv /\ [BootNext]_bootVars => SlotsInv'
<1> SUFFICES ASSUME SlotsInv, [BootNext]_bootVars PROVE SlotsInv'
  OBVIOUS
<1> USE OptionAssumption, NoneIsNoText DEF SlotsInv, LastSlotsEmpty, MAX_INIT_ARGS, MAX_INIT_ENVS
<1>1. CASE UnknownBootoption
  <2> DEFINE o == Head(args)
  <2>1. CASE UNCHANGED initVars
    BY <2>1 DEF initVars
  <2>2. CASE Setup(o) /\ UNCHANGED <<envp_init, panic_later>>
    BY <2>2 DEF Setup, ClearArgs
  <2>3. CASE PassToInit(o) /\ panic_later = NONE
    <3> HIDE DEF o
    <3>1. CASE o.val # NONE
      <4> DEFINE i == Scan(envp_init, {o.param})
      <4>1. /\ panic_later' = IF i > MAX_INIT_ENVS \/ (i = MAX_INIT_ENVS /\ envp_init[i] # NONE)
                                THEN "env" ELSE panic_later
            /\ envp_init' = [envp_init EXCEPT ![i] = o]
            /\ UNCHANGED argv_init
        BY <2>3, <3>1 DEF PassToInit
      <4> HIDE DEF i
      <4> QED BY <4>1
    <3>2. CASE o.val = NONE
      BY <2>3, <3>2 DEF PassToInit
    <3> QED BY <3>1, <3>2
  <2> QED BY <1>1, <2>1, <2>2, <2>3 DEF UnknownBootoption
<1>2. CASE SetInitArg
  <2>1. CASE UNCHANGED initVars
    BY <2>1 DEF initVars
  <2>2. CASE panic_later' = "init" /\ UNCHANGED <<argv_init, envp_init>>
    BY <2>2
  <2>3. CASE /\ ~ (Scan(argv_init, {}) > MAX_INIT_ARGS) /\ UNCHANGED <<envp_init, panic_later>>
             /\ argv_init' = [argv_init EXCEPT ![Scan(argv_init, {})] = Head(args)]
    BY <2>3
  <2> QED BY <1>2, <2>1, <2>2, <2>3 DEF SetInitArg
<1>3. CASE RunInitProcess
  BY <1>3 DEF RunInitProcess
<1>4. CASE OptionNext /\ ~ UnknownBootoption /\ ~ SetInitArg
  <2>1. UNCHANGED initVars
    BY <1>4 DEF OptionNext, SetupBootConfig, SetupCommandLine, MainOptionsRead, InitArgsRead, ConsoleInit
  <2> QED BY <2>1 DEF initVars
<1>5. CASE ~ OptionNext /\ ~ RunInitProcess
  <2>1. UNCHANGED initVars
    BY <1>5 DEF BootNext, BootThread, KernelInit, RestInit, SpawnInit, SpawnKthreadd, FindKthreadd,
           ScheduleState, Complete, WaitForKthreadd, WorkqueueInit, KthreadsMade, DoOneInitcall, EarlyUserspace,
           DoInitcallLevel, AsyncSynchronize, FreeInitmem, KthreaddServes, AsyncRun, optionVars, bootVars
  <2> QED BY <2>1 DEF initVars
<1> QED BY <1>1, <1>2, <1>3, <1>4, <1>5

LEMMA SlotsInit == BootInit => SlotsInv
  BY OptionAssumption DEF BootInit, OptionInit, SlotsInv, LastSlotsEmpty, MAX_INIT_ARGS, MAX_INIT_ENVS

\* The first empty slot of an array.
-----------------------------------------------------------------------------
INSTANCE WellFoundedInduction

LEMMA Least == ASSUME NEW S \in SUBSET Nat, S # {} PROVE \E n \in S : \A m \in S : n <= m
<1>1. \E x \in S : \A y \in S : ~ (<<y, x>> \in OpToRel(<, Nat))
  BY NatLessThanWellFounded, WFMin
<1>2. PICK x \in S : \A y \in S : ~ (y < x)
  BY <1>1 DEF OpToRel
<1>3. \A y \in S : x <= y
  BY <1>2
<1> QED BY <1>3

FirstEmpty(slots, i) == i \in DOMAIN slots /\ slots[i] = NONE /\ \A j \in 0..i-1 : slots[j] # NONE

LEMMA ScanFinds ==
  ASSUME NEW n \in Nat, NEW slots, DOMAIN slots = 0..n, slots[n] = NONE
  PROVE  FirstEmpty(slots, Scan(slots, {}))
<1> DEFINE stops == {i \in DOMAIN slots : slots[i] = NONE \/ slots[i].param \in {}}
           first == CHOOSE i \in stops : \A j \in stops : i <= j
<1>1. stops \in SUBSET Nat /\ n \in stops
  OBVIOUS
<1>2. \E i \in stops : \A j \in stops : i <= j
  <2> HIDE DEF stops
  <2> QED BY <1>1, Least
<1>3. first \in stops /\ \A j \in stops : first <= j
  BY <1>2
<1>4. Scan(slots, {}) = first
  BY DEF Scan
<1>5. \A j \in 0..first-1 : j \notin stops
  BY <1>1, <1>3
<1> QED BY <1>1, <1>3, <1>4, <1>5 DEF FirstEmpty

\* As long as no option was one too many, the loops that look for the first empty
\* slot of the two arrays find it inside them.
THEOREM ScansEndInside ==
  BootSpec => [](panic_later = NONE =>
                   FirstEmpty(argv_init, Scan(argv_init, {})) /\ FirstEmpty(envp_init, Scan(envp_init, {})))
<1>1. SlotsInv /\ panic_later = NONE => FirstEmpty(argv_init, Scan(argv_init, {}))
      /\ FirstEmpty(envp_init, Scan(envp_init, {}))
  BY ScanFinds, OptionAssumption DEF SlotsInv, LastSlotsEmpty, MAX_INIT_ARGS, MAX_INIT_ENVS
<1> QED BY <1>1, SlotsInit, SlotsNext, PTL DEF BootSpec

-----------------------------------------------------------------------------
\* No dashes stand in the first n places of s.
NoDashes(s, n) == \A i \in 1..n : s[i] # Dashes

\* The dashes are found where they first stand.
LEMMA DashIs ==
  ASSUME NEW S, NEW s \in Seq(S)
  PROVE  /\ DashAt(s) \in 0..Len(s)
         /\ DashAt(s) = 0 => NoDashes(s, Len(s))
         /\ DashAt(s) # 0 => s[DashAt(s)] = Dashes /\ NoDashes(s, DashAt(s) - 1)
<1> DEFINE at == {i \in DOMAIN s : s[i] = Dashes}
           first == CHOOSE i \in at : \A j \in at : i <= j
<1>1. \A i : i \in at <=> i \in 1..Len(s) /\ s[i] = Dashes
  OBVIOUS
<1>2. DashAt(s) = IF at = {} THEN 0 ELSE first
  BY DEF DashAt
<1> HIDE DEF at
<1>3. CASE at = {}
  BY <1>1, <1>2, <1>3 DEF NoDashes
<1>4. CASE at # {}
  <2>1. at \in SUBSET Nat
    BY <1>1
  <2>2. first \in at /\ \A j \in at : first <= j
    BY <1>4, <2>1, Least
  <2> HIDE DEF first
  <2> QED BY <1>1, <1>2, <1>4, <2>2 DEF NoDashes
<1> QED BY <1>3, <1>4

LEMMA DashUnique ==
  ASSUME NEW S, NEW s \in Seq(S), NEW d \in 1..Len(s), s[d] = Dashes, NoDashes(s, d - 1)
  PROVE  DashAt(s) = d
<1>1. DashAt(s) # 0
  BY DashIs DEF NoDashes
<1>2. ~ (DashAt(s) < d) /\ ~ (d < DashAt(s))
  BY <1>1, DashIs DEF NoDashes
<1> QED BY <1>2, DashIs

LEMMA DashNone ==
  ASSUME NEW S, NEW s \in Seq(S), NoDashes(s, Len(s)) PROVE DashAt(s) = 0
  BY DashIs DEF NoDashes

\* What stands before the dashes, and behind them.
LEMMA UpToIs ==
  ASSUME NEW S, NEW s \in Seq(S)
  PROVE  /\ UpToDashes(s) \in Seq(S)
         /\ Len(UpToDashes(s)) = IF DashAt(s) = 0 THEN Len(s) ELSE DashAt(s) - 1
         /\ Len(UpToDashes(s)) \in 0..Len(s)
         /\ \A i \in 1..Len(UpToDashes(s)) : UpToDashes(s)[i] = s[i] /\ s[i] # Dashes
<1> USE DashIs
<1>1. CASE DashAt(s) = 0
  BY <1>1 DEF UpToDashes, NoDashes
<1>2. CASE DashAt(s) # 0
  BY <1>2 DEF UpToDashes, NoDashes
<1> QED BY <1>1, <1>2

LEMMA BehindIsRest ==
  ASSUME NEW S, NEW s \in Seq(S)
  PROVE  /\ BehindDashes(s) \in Seq(S)
         /\ Len(BehindDashes(s)) = IF DashAt(s) = 0 THEN 0 ELSE Len(s) - DashAt(s)
         /\ \A i \in 1..Len(BehindDashes(s)) : BehindDashes(s)[i] = s[DashAt(s) + i]
<1> USE DashIs
<1>1. CASE DashAt(s) = 0
  BY <1>1 DEF BehindDashes
<1>2. CASE DashAt(s) # 0
  BY <1>2 DEF BehindDashes
<1> QED BY <1>1, <1>2

\* The init arguments on the line.
LineInitArgs == UpToDashes(BehindDashes(Line))

\* The lines are made of options.
LinesInv ==
  /\ machine.line \in Seq(GivenOptions)
  /\ extra_command_line \in Seq(GivenOptions) /\ extra_init_args \in Seq(GivenOptions)

\* What is read has three parts.
LEMMA ReadParts ==
  ASSUME LinesInv
  PROVE  /\ Line \in Seq(GivenOptions) /\ OptionsRead \in Seq(GivenOptions) /\ Read \in Seq(GivenOptions)
         /\ LineInitArgs \in Seq(GivenOptions)
         /\ Len(OptionsRead) <= Len(Line)
         /\ Len(Read) = Len(OptionsRead) + Len(LineInitArgs) + Len(UpToDashes(extra_init_args))
         /\ \A i \in 1..Len(OptionsRead) : Read[i] = Line[i] /\ Line[i] # Dashes
         /\ \A i \in 1..Len(LineInitArgs) : Read[Len(OptionsRead) + i] = LineInitArgs[i]
         /\ \A i \in 1..Len(UpToDashes(extra_init_args)) :
              Read[Len(OptionsRead) + Len(LineInitArgs) + i] = UpToDashes(extra_init_args)[i]
<1>1. Line \in Seq(GivenOptions)
  BY DEF LinesInv, Line
<1>2. /\ OptionsRead \in Seq(GivenOptions) /\ Len(OptionsRead) <= Len(Line)
      /\ \A i \in 1..Len(OptionsRead) : OptionsRead[i] = Line[i] /\ Line[i] # Dashes
  BY <1>1, UpToIs DEF OptionsRead
<1>3. LineInitArgs \in Seq(GivenOptions) /\ UpToDashes(extra_init_args) \in Seq(GivenOptions)
  BY <1>1, BehindIsRest, UpToIs DEF LinesInv, LineInitArgs
<1> DEFINE a == OptionsRead
           b == LineInitArgs
           c == UpToDashes(extra_init_args)
<1>4. Read = a \o b \o c
  BY DEF Read, LineInitArgs
<1>5. a \in Seq(GivenOptions) /\ b \in Seq(GivenOptions) /\ c \in Seq(GivenOptions)
  BY <1>2, <1>3
<1> HIDE DEF a, b, c
<1>6. /\ Read \in Seq(GivenOptions) /\ Len(Read) = Len(a) + Len(b) + Len(c)
      /\ \A i \in 1..Len(a) : Read[i] = a[i]
      /\ \A i \in 1..Len(b) : Read[Len(a) + i] = b[i]
      /\ \A i \in 1..Len(c) : Read[Len(a) + Len(b) + i] = c[i]
  BY <1>4, <1>5
<1> QED BY <1>1, <1>2, <1>3, <1>6 DEF a, b, c

\* The places are numbers, and no argument is an init=.
LEMMA PlacesApart ==
  ASSUME LinesInv
  PROVE  /\ ArgsAt \in SUBSET (1..Len(Read)) /\ ResetsAt \in SUBSET (1..Len(OptionsRead))
         /\ VarsAt \in SUBSET (1..Len(OptionsRead)) /\ Len(OptionsRead) <= Len(Read)
         /\ Len(Read) \in Nat /\ Len(OptionsRead) \in Nat
         /\ ArgsAt \cap ResetsAt = {}
         /\ \A i \in 1..Len(Read) : i > Len(OptionsRead) => i \in ArgsAt
<1>1. /\ Read \in Seq(GivenOptions) /\ OptionsRead \in Seq(GivenOptions) /\ Len(OptionsRead) <= Len(Read)
  BY ReadParts
<1>2. /\ DOMAIN Read = 1..Len(Read) /\ DOMAIN OptionsRead = 1..Len(OptionsRead)
      /\ Len(Read) \in Nat /\ Len(OptionsRead) \in Nat
  BY <1>1
<1> QED BY <1>1, <1>2 DEF ArgsAt, ResetsAt, VarsAt

LEMMA OptionsThere == ASSUME LinesInv PROVE \A i \in 1..Len(Read) : Read[i] # NONE
<1>1. Read \in Seq(GivenOptions)
  BY ReadParts
<1>2. NONE \notin GivenOptions
  BY LineAssumption
<1> QED BY <1>1, <1>2

-----------------------------------------------------------------------------
LEMMA SeqEqual ==
  ASSUME NEW S, NEW s \in Seq(S), NEW t \in Seq(S), Len(s) = Len(t), \A i \in 1..Len(s) : s[i] = t[i]
  PROVE  s = t
  OBVIOUS

\* The dashes of two texts, of which the first has none.
LEMMA ConcatDash ==
  ASSUME NEW S, NEW a \in Seq(S), NEW b \in Seq(S), DashAt(a) = 0
  PROVE  DashAt(a \o b) = IF DashAt(b) = 0 THEN 0 ELSE Len(a) + DashAt(b)
<1> DEFINE c == a \o b
<1>1. c \in Seq(S) /\ Len(c) = Len(a) + Len(b) /\ Len(a) \in Nat /\ Len(b) \in Nat
      /\ \A i \in 1..Len(c) : c[i] = IF i <= Len(a) THEN a[i] ELSE b[i - Len(a)]
  OBVIOUS
<1>2. \A i \in 1..Len(a) : a[i] # Dashes
  BY DashIs DEF NoDashes
<1> HIDE DEF c
<1>3. CASE DashAt(b) = 0
  <2>1. \A i \in 1..Len(b) : b[i] # Dashes
    BY <1>3, DashIs DEF NoDashes
  <2>2. NoDashes(c, Len(c))
    BY <1>1, <1>2, <2>1 DEF NoDashes
  <2> QED BY <1>1, <1>3, <2>2, DashNone DEF c
<1>4. CASE DashAt(b) # 0
  <2>e. PICK e : e = DashAt(b)
    OBVIOUS
  <2>l. PICK l : l = Len(a)
    OBVIOUS
  <2>1. e \in 1..Len(b) /\ b[e] = Dashes /\ \A i \in 1..e-1 : b[i] # Dashes
    BY <1>4, <2>e, DashIs DEF NoDashes
  <2>2. l + e \in 1..Len(c) /\ c[l + e] = b[e]
    BY <1>1, <2>l, <2>1
  <2>3. NoDashes(c, (l + e) - 1)
    <3> SUFFICES ASSUME NEW i \in 1..(l + e)-1 PROVE c[i] # Dashes
      BY DEF NoDashes
    <3>1. CASE i <= l
      BY <1>1, <1>2, <2>l, <2>1, <3>1
    <3>2. CASE ~ (i <= l)
      <4>1. i - l \in 1..e-1 /\ i \in 1..Len(c)
        BY <1>1, <2>l, <2>1, <3>2
      <4> QED BY <1>1, <2>l, <2>1, <3>2, <4>1
    <3> QED BY <3>1, <3>2
  <2>4. DashAt(c) = l + e
    BY <1>1, <2>1, <2>2, <2>3, DashUnique
  <2> QED BY <1>4, <2>e, <2>l, <2>4 DEF c
<1> QED BY <1>3, <1>4

LEMMA ConcatNone ==
  ASSUME NEW S, NEW a \in Seq(S), NEW b \in Seq(S), DashAt(a) = 0, DashAt(b) = 0
  PROVE  a \o b \in Seq(S) /\ DashAt(a \o b) = 0
<1>1. a \o b \in Seq(S)
  OBVIOUS
<1> QED BY <1>1, ConcatDash

LEMMA BehindConcat ==
  ASSUME NEW S, NEW a \in Seq(S), NEW b \in Seq(S), DashAt(a) = 0
  PROVE  BehindDashes(a \o b) = BehindDashes(b)
<1>c. PICK c : c = a \o b
  OBVIOUS
<1>d. PICK d : d = DashAt(b)
  OBVIOUS
<1>l. PICK l : l = Len(a)
  OBVIOUS
<1>1. /\ c \in Seq(S) /\ Len(c) = l + Len(b) /\ l \in Nat /\ Len(b) \in Nat /\ \A i \in 1..Len(b) : c[l + i] = b[i]
  BY <1>c, <1>l
<1>2. d \in 0..Len(b) /\ DashAt(c) = IF d = 0 THEN 0 ELSE l + d
  BY <1>c, <1>d, <1>l, ConcatDash, DashIs
<1>3. CASE d = 0
  BY <1>c, <1>d, <1>2, <1>3 DEF BehindDashes
<1>4. CASE d # 0
  <2>x. PICK x : x = BehindDashes(c)
    OBVIOUS
  <2>y. PICK y : y = BehindDashes(b)
    OBVIOUS
  <2>1. x \in Seq(S) /\ Len(x) = Len(c) - (l + d) /\ \A i \in 1..Len(x) : x[i] = c[(l + d) + i]
    <3>1. l + d # 0
      BY <1>1, <1>2, <1>4
    <3> QED BY <1>1, <1>2, <1>4, <2>x, <3>1, BehindIsRest
  <2>2. y \in Seq(S) /\ Len(y) = Len(b) - d /\ \A i \in 1..Len(y) : y[i] = b[d + i]
    BY <1>d, <1>4, <2>y, BehindIsRest
  <2>3. Len(x) = Len(y)
    BY <1>1, <1>2, <2>1, <2>2
  <2>4. ASSUME NEW i \in 1..Len(x) PROVE x[i] = y[i]
    <3>1. d + i \in 1..Len(b) /\ (l + d) + i = l + (d + i)
      BY <1>1, <1>2, <2>2, <2>3
    <3> QED BY <1>1, <2>1, <2>2, <2>3, <3>1
  <2>5. x = y
    BY <2>1, <2>2, <2>3, <2>4, SeqEqual
  <2> QED BY <1>c, <2>x, <2>y, <2>5
<1> QED BY <1>3, <1>4

LEMMA UpToConcat ==
  ASSUME NEW S, NEW a \in Seq(S), NEW b \in Seq(S), DashAt(a) = 0
  PROVE  UpToDashes(a \o b) = a \o UpToDashes(b)
<1>c. PICK c : c = a \o b
  OBVIOUS
<1>d. PICK d : d = DashAt(b)
  OBVIOUS
<1>l. PICK l : l = Len(a)
  OBVIOUS
<1>u. PICK u : u = UpToDashes(b)
  OBVIOUS
<1>x. PICK x : x = UpToDashes(c)
  OBVIOUS
<1>1. /\ c \in Seq(S) /\ Len(c) = l + Len(b) /\ l \in Nat /\ Len(b) \in Nat
      /\ (\A i \in 1..l : c[i] = a[i]) /\ (\A i \in 1..Len(b) : c[l + i] = b[i])
  BY <1>c, <1>l
<1>2. d \in 0..Len(b) /\ DashAt(c) = IF d = 0 THEN 0 ELSE l + d
  BY <1>c, <1>d, <1>l, ConcatDash, DashIs
<1>3. /\ u \in Seq(S) /\ Len(u) = (IF d = 0 THEN Len(b) ELSE d - 1)
      /\ Len(u) \in 0..Len(b) /\ \A i \in 1..Len(u) : u[i] = b[i]
  BY <1>d, <1>u, UpToIs
<1>4. /\ x \in Seq(S) /\ Len(x) = (IF DashAt(c) = 0 THEN Len(c) ELSE DashAt(c) - 1)
      /\ \A i \in 1..Len(x) : x[i] = c[i]
  BY <1>x, <1>1, UpToIs
<1>5. Len(x) = l + Len(u)
  BY <1>1, <1>2, <1>3, <1>4
<1>6. /\ a \o u \in Seq(S) /\ Len(a \o u) = l + Len(u)
      /\ (\A i \in 1..l : (a \o u)[i] = a[i]) /\ (\A i \in 1..Len(u) : (a \o u)[l + i] = u[i])
  BY <1>l, <1>3
<1>7. ASSUME NEW i \in 1..Len(x) PROVE x[i] = (a \o u)[i]
  <2>1. CASE i <= l
    BY <1>1, <1>4, <1>6, <1>7, <2>1
  <2>2. CASE ~ (i <= l)
    <3>1. PICK j : j = i - l
      OBVIOUS
    <3>2. j \in 1..Len(u) /\ j \in 1..Len(b) /\ i = l + j
      BY <1>1, <1>3, <1>5, <1>7, <2>2, <3>1
    <3> QED BY <1>1, <1>3, <1>4, <1>6, <1>7, <3>2
  <2> QED BY <2>1, <2>2
<1>8. x = a \o u
  BY <1>4, <1>5, <1>6, <1>7, SeqEqual
<1> QED BY <1>c, <1>u, <1>x, <1>8

\* The dashes end the first text.
LEMMA BehindPrefix ==
  ASSUME NEW S, NEW s \in Seq(S), NEW t \in Seq(S), Len(s) > 0, s[Len(s)] = Dashes, NoDashes(s, Len(s) - 1)
  PROVE  BehindDashes(s \o t) = t
<1>c. PICK c : c = s \o t
  OBVIOUS
<1>l. PICK l : l = Len(s)
  OBVIOUS
<1>1. /\ c \in Seq(S) /\ Len(c) = l + Len(t) /\ l \in Nat /\ l > 0 /\ Len(t) \in Nat
      /\ (\A i \in 1..l : c[i] = s[i]) /\ (\A i \in 1..Len(t) : c[l + i] = t[i])
  BY <1>c, <1>l
<1>2. l \in 1..Len(c) /\ c[l] = Dashes /\ NoDashes(c, l - 1)
  BY <1>l, <1>1 DEF NoDashes
<1>3. DashAt(c) = l
  BY <1>1, <1>2, DashUnique
<1>4. PICK x : x = BehindDashes(c)
  OBVIOUS
<1>5. x \in Seq(S) /\ Len(x) = Len(c) - l /\ \A i \in 1..Len(x) : x[i] = c[l + i]
  BY <1>1, <1>3, <1>4, BehindIsRest
<1>a. Len(x) = Len(t)
  BY <1>1, <1>5
<1>6. Len(x) = Len(t) /\ \A i \in 1..Len(x) : x[i] = t[i]
  BY <1>a, <1>1, <1>5
<1>7. x = t
  BY <1>5, <1>6, SeqEqual
<1> QED BY <1>c, <1>4, <1>7

\* Dashes at the end of the line are glued to the first argument: none are left.
LEMMA GluedHides ==
  ASSUME NEW S, Dashes \in S, NEW line \in Seq(S), NEW x \in Seq(S), x # <<>>, DashAt(x) = 0,
         DashAt(line) = Len(line), line # <<>>
  PROVE  LET s == SubSeq(line, 1, Len(line) - 1) \o Glue(x) \o <<Option("-", NONE)>> IN
         DashAt(s) = 0
<1> DEFINE T == S \cup {Option("--glued", Head(x).val), Option("-", NONE)}
           a == SubSeq(line, 1, Len(line) - 1)
           g == Option("--glued", Head(x).val)
           h == Option("-", NONE)
<1>1. g # Dashes /\ h # Dashes
  BY DEF Option, Dashes
<1>2. a \in Seq(T) /\ Len(a) = Len(line) - 1 /\ \A i \in 1..Len(a) : a[i] = line[i]
  BY DEF T
<1>3. Tail(x) \in Seq(T) /\ Len(Tail(x)) = Len(x) - 1 /\ \A i \in 1..Len(Tail(x)) : Tail(x)[i] = x[i + 1]
  <2>1. x \in Seq(T)
    BY DEF T
  <2> QED BY <2>1
<1>4. NoDashes(a, Len(a))
  <2>1. Len(line) # 0
    OBVIOUS
  <2>2. NoDashes(line, Len(line) - 1)
    BY <2>1, DashIs
  <2> QED BY <1>2, <2>2 DEF NoDashes
<1>5. NoDashes(Tail(x), Len(Tail(x)))
  <2>1. NoDashes(x, Len(x))
    BY DashIs
  <2> QED BY <1>3, <2>1 DEF NoDashes
<1>6. g \in T /\ h \in T
  BY DEF T
<1> HIDE DEF T, a, g, h
<1>7. <<g>> \in Seq(T) /\ <<h>> \in Seq(T) /\ NoDashes(<<g>>, Len(<<g>>)) /\ NoDashes(<<h>>, Len(<<h>>))
  BY <1>1, <1>6 DEF NoDashes
<1>8. DashAt(a) = 0 /\ DashAt(<<g>>) = 0 /\ DashAt(<<h>>) = 0 /\ DashAt(Tail(x)) = 0
  BY <1>2, <1>3, <1>4, <1>5, <1>7, DashNone
<1>9. <<g>> \o Tail(x) \in Seq(T) /\ DashAt(<<g>> \o Tail(x)) = 0
  BY <1>3, <1>7, <1>8, ConcatNone
<1>10. a \o (<<g>> \o Tail(x)) \in Seq(T) /\ DashAt(a \o (<<g>> \o Tail(x))) = 0
  BY <1>2, <1>8, <1>9, ConcatNone
<1>11. DashAt(a \o (<<g>> \o Tail(x)) \o <<h>>) = 0
  BY <1>7, <1>8, <1>10, ConcatNone
<1> QED BY <1>11 DEF Glue, a, g, h

LEMMA NoLine == BehindDashes(<<>>) = <<>> /\ UpToDashes(<<>>) = <<>>
<1>1. DashAt(<<>>) = 0
  BY DEF DashAt
<1> QED BY <1>1 DEF BehindDashes, UpToDashes

\* setup_command_line() saves what LineSaved says.
LEMMA SavedLineShows ==
  ASSUME LinesInv, saved_command_line = SavedCommandLine,
         extra_init_args # <<>> => initargs_offs = DashAt(machine.line)
  PROVE  LineSaved
<1>1. PICK S : S = GivenOptions \cup {Dashes, Option("--glued", Head(extra_init_args).val), Option("-", NONE)}
  OBVIOUS
<1>2. PICK line, e, x, off :
        line = machine.line /\ e = extra_command_line /\ x = extra_init_args /\ off = initargs_offs
  OBVIOUS
<1>3. line \in Seq(S) /\ e \in Seq(S) /\ x \in Seq(S) /\ Dashes \in S
      /\ Option("--glued", Head(x).val) \in S /\ Option("-", NONE) \in S
  BY <1>1, <1>2 DEF LinesInv
<1> SUFFICES ASSUME DashAt(e) = 0, DashAt(x) = 0
             PROVE  UpToDashes(BehindDashes(saved_command_line)) =
                      IF x # <<>> /\ off # 0 /\ off = Len(line) THEN <<>>
                      ELSE x \o UpToDashes(BehindDashes(line))
  BY <1>2 DEF LineSaved
<1>4. PICK rest : rest = UpToDashes(BehindDashes(line))
  OBVIOUS
<1>5. rest \in Seq(S) /\ BehindDashes(line) \in Seq(S)
  BY <1>3, <1>4, BehindIsRest, UpToIs
<1>6. DashAt(line) \in 0..Len(line) /\ (x # <<>> => off = DashAt(line))
  BY <1>2, <1>3, DashIs
<1>7. CASE x = <<>>
  <2>1. saved_command_line = e \o line
    BY <1>2, <1>7 DEF SavedCommandLine
  <2>2. BehindDashes(saved_command_line) = BehindDashes(line)
    BY <1>3, <2>1, BehindConcat
  <2>3. x \o rest = rest
    BY <1>5, <1>7
  <2> QED BY <1>4, <1>7, <2>2, <2>3
<1>8. CASE x # <<>> /\ off = 0
  <2>1. saved_command_line = e \o (line \o <<Dashes>> \o x)
    BY <1>2, <1>8 DEF SavedCommandLine
  <2>2. line \o <<Dashes>> \in Seq(S) /\ Len(line \o <<Dashes>>) = Len(line) + 1
        /\ (line \o <<Dashes>>)[Len(line) + 1] = Dashes
        /\ \A i \in 1..Len(line) : (line \o <<Dashes>>)[i] = line[i]
    BY <1>3
  <2>3. NoDashes(line \o <<Dashes>>, Len(line \o <<Dashes>>) - 1)
    <3>1. NoDashes(line, Len(line))
      BY <1>3, <1>6, <1>8, DashIs
    <3>2. Len(line) \in Nat
      BY <1>3
    <3> QED BY <2>2, <3>1, <3>2 DEF NoDashes
  <2>4. BehindDashes(line \o <<Dashes>> \o x) = x
    <3>1. Len(line \o <<Dashes>>) > 0
      BY <1>3, <2>2
    <3> QED BY <1>3, <2>2, <2>3, <3>1, BehindPrefix
  <2>5. BehindDashes(saved_command_line) = x
    <3>1. line \o <<Dashes>> \o x \in Seq(S)
      BY <1>3, <2>2
    <3> QED BY <1>3, <2>1, <2>4, <3>1, BehindConcat
  <2>6. UpToDashes(x) = x
    BY DEF UpToDashes
  <2>7. BehindDashes(line) = <<>>
    BY <1>6, <1>8 DEF BehindDashes
  <2>8. x \o rest = x
    BY <1>3, <1>4, <2>7, NoLine
  <2> QED BY <1>4, <1>8, <2>5, <2>6, <2>8
<1>9. CASE x # <<>> /\ off # 0 /\ off = Len(line)
  <2>1. saved_command_line = e \o (SubSeq(line, 1, Len(line) - 1) \o Glue(x) \o <<Option("-", NONE)>>)
    BY <1>2, <1>9 DEF SavedCommandLine
  <2>2. DashAt(SubSeq(line, 1, Len(line) - 1) \o Glue(x) \o <<Option("-", NONE)>>) = 0
    <3>1. line # <<>> /\ DashAt(line) = Len(line)
      BY <1>6, <1>9
    <3> QED BY <1>3, <1>9, <3>1, GluedHides
  <2>3. SubSeq(line, 1, Len(line) - 1) \o Glue(x) \o <<Option("-", NONE)>> \in Seq(S)
    <3>1. SubSeq(line, 1, Len(line) - 1) \in Seq(S)
      BY <1>3
    <3>2. Tail(x) \in Seq(S)
      BY <1>3, <1>9
    <3>3. Glue(x) \in Seq(S)
      <4>1. PICK g : g = Option("--glued", Head(x).val)
        OBVIOUS
      <4>2. <<g>> \o Tail(x) \in Seq(S)
        BY <1>3, <3>2, <4>1
      <4> QED BY <4>1, <4>2 DEF Glue
    <3>4. <<Option("-", NONE)>> \in Seq(S)
      BY <1>3
    <3> QED BY <3>1, <3>3, <3>4
  <2>4. BehindDashes(saved_command_line) = <<>>
    <3>1. BehindDashes(SubSeq(line, 1, Len(line) - 1) \o Glue(x) \o <<Option("-", NONE)>>) = <<>>
      BY <2>2 DEF BehindDashes
    <3> QED BY <1>3, <2>1, <2>3, <3>1, BehindConcat
  <2> QED BY <1>9, <2>4, NoLine
<1>10. CASE x # <<>> /\ off # 0 /\ off # Len(line)
  <2> DEFINE head == SubSeq(line, 1, off)
             tail == SubSeq(line, off + 1, Len(line))
  <2>1. saved_command_line = e \o (head \o x \o tail)
    BY <1>2, <1>10 DEF SavedCommandLine
  <2>2. off \in 1..Len(line) /\ off = DashAt(line) /\ Len(line) \in Nat
    BY <1>3, <1>6, <1>10
  <2>3. tail = BehindDashes(line)
    BY <1>10, <2>2 DEF BehindDashes
  <2>4. head \in Seq(S) /\ Len(head) = off /\ \A i \in 1..off : head[i] = line[i]
    BY <1>3, <2>2
  <2>5. tail \in Seq(S)
    BY <1>5, <2>3
  <2> HIDE DEF head, tail
  <2>6. head[Len(head)] = Dashes /\ NoDashes(head, Len(head) - 1) /\ Len(head) > 0
    <3>1. line[off] = Dashes /\ NoDashes(line, off - 1)
      BY <1>3, <2>2, DashIs
    <3> QED BY <2>2, <2>4, <3>1 DEF NoDashes
  <2>7. x \o tail \in Seq(S) /\ head \o x \o tail = head \o (x \o tail)
    BY <1>3, <2>4, <2>5
  <2>8. BehindDashes(head \o (x \o tail)) = x \o tail
    BY <2>4, <2>6, <2>7, BehindPrefix
  <2>9. BehindDashes(saved_command_line) = x \o tail
    <3>1. head \o (x \o tail) \in Seq(S)
      BY <2>4, <2>7
    <3>2. saved_command_line = e \o (head \o (x \o tail))
      BY <2>1, <2>7
    <3>3. BehindDashes(e \o (head \o (x \o tail))) = BehindDashes(head \o (x \o tail))
      BY <1>3, <3>1, BehindConcat
    <3> QED BY <2>8, <3>2, <3>3
  <2>10. UpToDashes(x \o tail) = x \o UpToDashes(tail)
    BY <1>3, <2>5, UpToConcat
  <2> QED BY <1>4, <1>10, <2>3, <2>9, <2>10
<1> QED BY <1>4, <1>7, <1>8, <1>9, <1>10

-----------------------------------------------------------------------------
\* The text that is being read, and the place up to which it has been read.
Text == CASE boot = "parse_args" -> Line
          [] boot = "init_args" -> OptionsRead \o LineInitArgs
          [] OTHER -> Read
Place == Len(Text) - Len(args)

\* args is the rest of the text.
PlaceInv ==
  /\ args \in Seq(GivenOptions) /\ Place \in Nat
  /\ \A i \in 1..Len(args) : args[i] = Text[Place + i]
  /\ IF boot = "parse_args" THEN Place <= Len(OptionsRead) ELSE Place >= Len(OptionsRead)

Before == {"setup_boot_config", "setup_command_line"}
Reading == {"parse_args", "init_args", "extra_init_args", "rest_init"}

\* What the text is made of.
lineVars == <<machine, extra_command_line, extra_init_args, initargs_offs>>

ConfigInv ==
  /\ machine \in Machine /\ LinesInv
  /\ extra_init_args # <<>> => initargs_offs = DashAt(machine.line)

\* The text stays the same while it is read.
LEMMA ConfigKeeps ==
  ASSUME UNCHANGED lineVars
  PROVE  /\ Line' = Line /\ OptionsRead' = OptionsRead /\ LineInitArgs' = LineInitArgs /\ Read' = Read
         /\ ArgsAt' = ArgsAt /\ VarsAt' = VarsAt /\ SavedCommandLine' = SavedCommandLine
         /\ \A p : Stretch(p)' = Stretch(p) /\ Slot(p)' = Slot(p)
<1>1. Line' = Line
  BY DEF lineVars, Line
<1>2. OptionsRead' = OptionsRead /\ LineInitArgs' = LineInitArgs
  BY <1>1 DEF OptionsRead, LineInitArgs
<1>3. Read' = Read
  BY <1>1, <1>2 DEF Read, lineVars
<1>4. ArgsAt' = ArgsAt /\ VarsAt' = VarsAt /\ ResetsAt' = ResetsAt
  BY <1>2, <1>3 DEF ArgsAt, VarsAt, ResetsAt
<1>5. \A p : Stretch(p)' = Stretch(p)
  BY <1>4 DEF Stretch
<1>6. \A p : Slot(p)' = Slot(p)
  BY <1>5 DEF Slot
<1>7. SavedCommandLine' = SavedCommandLine
  BY DEF SavedCommandLine, lineVars
<1> QED BY <1>1, <1>2, <1>3, <1>4, <1>5, <1>6, <1>7

LEMMA ConfigNext == ConfigInv /\ [BootNext]_bootVars => ConfigInv'
<1> SUFFICES ASSUME ConfigInv, [BootNext]_bootVars PROVE ConfigInv'
  OBVIOUS
<1>1. CASE SetupBootConfig
  <2>1. machine' = machine
    BY <1>1 DEF SetupBootConfig
  <2>2. /\ extra_command_line' \in {machine.xbc.kernel, <<>>}
        /\ extra_init_args' \in {machine.xbc.init, <<>>}
    BY <1>1 DEF SetupBootConfig
  <2>3. extra_init_args' # <<>> => initargs_offs' = DashAt(machine.line)
    BY <1>1 DEF SetupBootConfig
  <2>4. machine.xbc.kernel \in Seq(GivenOptions) /\ machine.xbc.init \in Seq(GivenOptions)
    <3>1. machine.xbc.kernel \in GivenLines /\ machine.xbc.init \in GivenLines
      BY DEF ConfigInv, GivenLines
    <3> QED BY <3>1, LineAssumption
  <2>5. <<>> \in Seq(GivenOptions)
    OBVIOUS
  <2> QED BY <2>1, <2>2, <2>3, <2>4, <2>5 DEF ConfigInv, LinesInv
<1>2. CASE ~ SetupBootConfig
  <2>1. UNCHANGED lineVars
    <3>1. CASE OptionNext
      BY <1>2, <3>1 DEF OptionNext, SetupCommandLine, UnknownBootoption, MainOptionsRead, SetInitArg, InitArgsRead,
            ConsoleInit, configVars, lineVars
    <3>2. CASE ~ OptionNext
      BY <3>2 DEF BootNext, BootThread, KernelInit, RestInit, SpawnInit, SpawnKthreadd, FindKthreadd,
           ScheduleState, Complete, WaitForKthreadd, WorkqueueInit, KthreadsMade, DoOneInitcall, EarlyUserspace,
           DoInitcallLevel, AsyncSynchronize, FreeInitmem, RunInitProcess, KthreaddServes, AsyncRun, optionVars,
           bootVars, configVars, lineVars
    <3> QED BY <3>1, <3>2
  <2> QED BY <2>1 DEF ConfigInv, LinesInv, lineVars
<1> QED BY <1>1, <1>2

LEMMA TextIs ==
  ASSUME LinesInv
  PROVE  /\ Text \in Seq(GivenOptions)
         /\ boot = "parse_args" => Text = Line
         /\ boot # "parse_args" => Len(Text) <= Len(Read) /\ \A i \in 1..Len(Text) : Text[i] = Read[i]
         /\ boot = "init_args" => Len(Text) = Len(OptionsRead) + Len(LineInitArgs)
<1>1. CASE boot = "parse_args"
  BY <1>1, ReadParts DEF Text
<1>2. CASE boot = "init_args"
  <2> DEFINE a == OptionsRead
             b == LineInitArgs
  <2>1. Text = a \o b
    BY <1>2 DEF Text
  <2>2. /\ a \in Seq(GivenOptions) /\ b \in Seq(GivenOptions) /\ Len(Read) >= Len(a) + Len(b)
        /\ (\A i \in 1..Len(a) : Read[i] = a[i]) /\ \A i \in 1..Len(b) : Read[Len(a) + i] = b[i]
    <3>1. \A i \in 1..Len(OptionsRead) : OptionsRead[i] = Line[i]
      BY ReadParts, UpToIs DEF OptionsRead
    <3>2. UpToDashes(extra_init_args) \in Seq(GivenOptions)
      BY UpToIs DEF LinesInv
    <3> QED BY <3>1, <3>2, ReadParts
  <2> HIDE DEF a, b
  <2>3. /\ Text \in Seq(GivenOptions) /\ Len(Text) = Len(a) + Len(b) /\ Len(a) \in Nat /\ Len(b) \in Nat
        /\ (\A i \in 1..Len(a) : Text[i] = a[i]) /\ \A i \in 1..Len(b) : Text[Len(a) + i] = b[i]
    BY <2>1, <2>2
  <2>4. ASSUME NEW i \in 1..Len(Text) PROVE Text[i] = Read[i]
    <3>1. CASE i <= Len(a)
      BY <2>2, <2>3, <2>4, <3>1
    <3>2. CASE ~ (i <= Len(a))
      <4>1. PICK j : j = i - Len(a)
        OBVIOUS
      <4>2. j \in 1..Len(b) /\ i = Len(a) + j
        BY <2>3, <2>4, <3>2, <4>1
      <4> QED BY <2>2, <2>3, <4>2
    <3> QED BY <3>1, <3>2
  <2> QED BY <1>2, <2>2, <2>3, <2>4 DEF a, b
<1>3. CASE boot \notin {"parse_args", "init_args"}
  <2>1. Text = Read
    BY <1>3 DEF Text
  <2> QED BY <1>3, <2>1, ReadParts
<1> QED BY <1>1, <1>2, <1>3

\* One more option has been read.
LEMMA OneRead ==
  ASSUME LinesInv, PlaceInv, UNCHANGED lineVars, boot' = boot, args # <<>>, args' = Tail(args),
         boot = "parse_args" => Head(args) # Dashes
  PROVE  /\ PlaceInv' /\ Place' = Place + 1
         /\ Place \in 0..Len(Read)-1 /\ Read[Place + 1] = Head(args)
         /\ boot = "parse_args" <=> Place + 1 \in 1..Len(OptionsRead)
<1>k. PICK k : k = Place
  OBVIOUS
<1>n. PICK n : n = Len(args)
  OBVIOUS
<1>t. PICK t : t = Text
  OBVIOUS
<1>1. Text' = Text
  BY ConfigKeeps DEF Text
<1>2. /\ args \in Seq(GivenOptions) /\ k \in Nat /\ n \in Nat /\ n > 0 /\ k = Len(t) - n
      /\ \A i \in 1..n : args[i] = t[k + i]
  BY <1>k, <1>n, <1>t DEF PlaceInv, Place
<1>3. /\ args' \in Seq(GivenOptions) /\ Len(args') = n - 1 /\ \A i \in 1..n-1 : args'[i] = args[i + 1]
  BY <1>2, <1>n
<1>4. t \in Seq(GivenOptions) /\ Len(t) \in Nat /\ k + 1 \in 1..Len(t) /\ t[k + 1] = Head(args)
  <2>1. t \in Seq(GivenOptions)
    BY <1>t, TextIs
  <2> QED BY <1>2, <2>1
<1>a. k \in Nat
  BY <1>2
<1>b. Len(Line) \in Nat /\ Len(OptionsRead) \in Nat /\ Len(Read) \in Nat /\ Len(OptionsRead) <= Len(Read)
  BY ReadParts, PlacesApart
<1>5. Place' = k + 1
  <2>1. Place' = Len(t) - Len(args')
    BY <1>1, <1>t DEF Place
  <2> QED BY <1>2, <1>3, <1>4, <2>1
<1>6. \A i \in 1..Len(args') : args'[i] = Text'[Place' + i]
  <2> SUFFICES ASSUME NEW i \in 1..n-1 PROVE args'[i] = t[(k + 1) + i]
    BY <1>1, <1>t, <1>3, <1>5
  <2>1. i + 1 \in 1..n /\ k + (i + 1) = (k + 1) + i
    BY <1>2
  <2> QED BY <1>2, <1>3, <2>1
<1>7. CASE boot = "parse_args"
  <2>1. t = Line /\ k <= Len(OptionsRead)
    BY <1>7, <1>t, <1>k, TextIs DEF PlaceInv
  <2>2. k # Len(OptionsRead)
    <3> SUFFICES ASSUME k = Len(OptionsRead) PROVE FALSE
      OBVIOUS
    <3>1. Len(OptionsRead) = (IF DashAt(Line) = 0 THEN Len(Line) ELSE DashAt(Line) - 1)
      BY <1>4, <2>1, UpToIs DEF OptionsRead
    <3>2. DashAt(Line) \in 0..Len(Line) /\ (DashAt(Line) # 0 => Line[DashAt(Line)] = Dashes)
      BY <1>4, <2>1, DashIs
    <3>3. k + 1 <= Len(Line)
      BY <1>4, <2>1
    <3>4. DashAt(Line) # 0 /\ DashAt(Line) = k + 1
      BY <1>a, <1>b, <3>1, <3>2, <3>3
    <3> QED BY <1>4, <1>7, <2>1, <3>2, <3>4
  <2>3. k + 1 \in 1..Len(OptionsRead) /\ k \in 0..Len(Read)-1
    BY <1>a, <1>b, <2>1, <2>2
  <2>4. Read[k + 1] = Head(args)
    BY <1>4, <2>1, <2>3, ReadParts
  <2>5. PlaceInv'
    BY <1>2, <1>3, <1>5, <1>6, <1>7, <2>3, ConfigKeeps DEF PlaceInv
  <2> QED BY <1>k, <1>5, <1>7, <2>3, <2>4, <2>5
<1>8. CASE boot # "parse_args"
  <2>1. k >= Len(OptionsRead) /\ Len(OptionsRead) \in Nat
    BY <1>8, <1>k, PlacesApart DEF PlaceInv
  <2>2. Len(t) <= Len(Read) /\ \A i \in 1..Len(t) : t[i] = Read[i]
    BY <1>8, <1>t, TextIs
  <2>3. Read[k + 1] = Head(args) /\ k \in 0..Len(Read)-1
    <3>1. Len(Read) \in Nat
      BY PlacesApart
    <3>2. k \in 0..Len(Read)-1
      BY <1>2, <1>4, <2>2, <3>1
    <3> QED BY <1>4, <2>2, <3>2
  <2>4. k + 1 \notin 1..Len(OptionsRead)
    BY <1>2, <2>1
  <2>5. PlaceInv'
    BY <1>2, <1>3, <1>5, <1>6, <1>8, <2>1, ConfigKeeps DEF PlaceInv
  <2> QED BY <1>k, <1>5, <1>8, <2>3, <2>4, <2>5
<1> QED BY <1>7, <1>8

\* What the slots hold when nothing has been read.
\* The text behind the dashes is next, or that of the boot configuration.
LEMMA NextText ==
  ASSUME LinesInv, PlaceInv, UNCHANGED lineVars,
         \/ boot = "parse_args" /\ args = <<>> /\ boot' = "extra_init_args" /\ args' = UpToDashes(extra_init_args)
         \/ boot = "parse_args" /\ args # <<>> /\ Head(args) = Dashes
              /\ boot' = "init_args" /\ args' = UpToDashes(Tail(args))
         \/ boot = "init_args" /\ args = <<>> /\ boot' = "extra_init_args" /\ args' = UpToDashes(extra_init_args)
         \/ boot = "extra_init_args" /\ boot' = "rest_init" /\ args' = args
  PROVE  PlaceInv' /\ Place' = Place
<1>a. PICK a, b, x, k : a = OptionsRead /\ b = LineInitArgs /\ x = UpToDashes(extra_init_args) /\ k = Place
  OBVIOUS
<1>1. /\ Line \in Seq(GivenOptions) /\ a \in Seq(GivenOptions) /\ b \in Seq(GivenOptions)
      /\ Read \in Seq(GivenOptions) /\ x \in Seq(GivenOptions)
      /\ Len(Line) \in Nat /\ Len(a) \in Nat /\ Len(b) \in Nat /\ Len(x) \in Nat
      /\ Len(Read) = Len(a) + Len(b) + Len(x)
      /\ \A i \in 1..Len(b) : Read[Len(a) + i] = b[i]
      /\ \A i \in 1..Len(x) : Read[Len(a) + Len(b) + i] = x[i]
  <2>1. x \in Seq(GivenOptions)
    BY <1>a, UpToIs DEF LinesInv
  <2> QED BY <1>a, <2>1, ReadParts
<1>2. /\ DashAt(Line) \in 0..Len(Line) /\ (DashAt(Line) # 0 => Line[DashAt(Line)] = Dashes)
      /\ Len(a) = (IF DashAt(Line) = 0 THEN Len(Line) ELSE DashAt(Line) - 1)
      /\ \A i \in 1..Len(a) : Line[i] # Dashes
  BY <1>a, <1>1, DashIs, UpToIs DEF OptionsRead
<1>3. UNCHANGED <<OptionsRead, LineInitArgs, Line, Read>>
  BY ConfigKeeps
<1>4. k \in Nat /\ args \in Seq(GivenOptions)
  BY <1>a DEF PlaceInv
<1>5. ASSUME boot' = "extra_init_args", args' = x, k = Len(a) + Len(b) PROVE PlaceInv' /\ Place' = k
  <2>1. Text' = Read
    BY <1>3, <1>5 DEF Text
  <2>2. Place' = Len(a) + Len(b)
    <3>1. Place' = Len(Read) - Len(x)
      BY <1>5, <2>1 DEF Place
    <3> QED BY <1>1, <3>1
  <2>3. \A i \in 1..Len(args') : args'[i] = Text'[Place' + i]
    BY <1>1, <1>5, <2>1, <2>2
  <2>4. Place' >= Len(OptionsRead') /\ Place' \in Nat
    BY <1>a, <1>1, <1>3, <2>2
  <2> QED BY <1>1, <1>5, <2>2, <2>3, <2>4 DEF PlaceInv
<1>6. CASE boot = "parse_args" /\ args = <<>>
  <2>1. k = Len(Line) /\ k <= Len(a)
    BY <1>a, <1>1, <1>6, TextIs DEF PlaceInv, Place
  <2>2. DashAt(Line) = 0 /\ Len(a) = k
    BY <1>1, <1>2, <2>1
  <2>3. b = <<>>
    BY <1>a, <2>2, NoLine DEF LineInitArgs, BehindDashes
  <2>4. k = Len(a) + Len(b)
    BY <1>1, <2>2, <2>3
  <2> QED BY <1>a, <1>5, <1>6, <2>4
<1>7. CASE boot = "init_args" /\ args = <<>>
  <2>1. k = Len(a) + Len(b)
    <3>1. Len(Text) = Len(a) + Len(b)
      BY <1>a, <1>7, TextIs
    <3>2. k = Len(Text) - Len(args) /\ Len(args) = 0
      BY <1>a, <1>7 DEF Place
    <3> QED BY <1>1, <3>1, <3>2
  <2> QED BY <1>a, <1>5, <1>7, <2>1
<1>8. CASE boot = "extra_init_args"
  <2>1. Text' = Text /\ args' = args /\ boot' = "rest_init"
    BY <1>3, <1>8 DEF Text
  <2>2. Place' = Place
    BY <2>1 DEF Place
  <2> QED BY <1>3, <1>8, <2>1, <2>2 DEF PlaceInv
<1>9. CASE boot = "parse_args" /\ args # <<>>
  <2>1. Head(args) = Dashes /\ boot' = "init_args" /\ args' = UpToDashes(Tail(args))
    BY <1>9
  <2>2. k = Len(Line) - Len(args) /\ k <= Len(a) /\ \A i \in 1..Len(args) : args[i] = Line[k + i]
    BY <1>a, <1>9, TextIs DEF PlaceInv, Place
  <2>3. Len(args) \in Nat /\ Len(args) > 0 /\ Head(args) = args[1]
    BY <1>4, <1>9
  <2>4. Line[k + 1] = Dashes /\ k + 1 <= Len(Line)
    BY <1>1, <1>4, <2>1, <2>2, <2>3
  <2>5. DashAt(Line) = k + 1 /\ Len(a) = k
    <3>1. k = Len(a)
      <4>1. k \in Nat /\ Len(a) \in Nat /\ k <= Len(a)
        BY <1>1, <1>4, <2>2
      <4>2. k # Len(a) => k + 1 \in 1..Len(a)
        BY <4>1
      <4> QED BY <1>2, <2>4, <4>2
    <3> QED BY <1>1, <1>2, <1>4, <2>4, <3>1
  <2>6. Tail(args) = BehindDashes(Line)
    <3>1. PICK r : r = BehindDashes(Line)
      OBVIOUS
    <3>2. /\ r \in Seq(GivenOptions) /\ Len(r) = Len(Line) - (k + 1)
          /\ \A i \in 1..Len(r) : r[i] = Line[(k + 1) + i]
      <4>1. k + 1 # 0
        BY <1>4
      <4> QED BY <1>1, <2>5, <3>1, <4>1, BehindIsRest
    <3>3. /\ Tail(args) \in Seq(GivenOptions) /\ Len(Tail(args)) = Len(args) - 1
          /\ \A i \in 1..Len(args)-1 : Tail(args)[i] = args[i + 1]
      BY <1>4, <1>9
    <3>4. Len(Tail(args)) = Len(r)
      BY <1>1, <1>4, <2>2, <2>3, <3>2, <3>3
    <3>5. ASSUME NEW i \in 1..Len(args)-1 PROVE Tail(args)[i] = r[i]
      <4>1. i + 1 \in 1..Len(args) /\ k + (i + 1) = (k + 1) + i /\ i \in 1..Len(r)
        BY <1>4, <2>3, <3>3, <3>4
      <4> QED BY <2>2, <3>2, <3>3, <4>1
    <3>6. Tail(args) = r
      BY <3>2, <3>3, <3>4, <3>5, SeqEqual
    <3> QED BY <3>1, <3>6
  <2>7. args' = b
    BY <1>a, <2>1, <2>6 DEF LineInitArgs
  <2>8. Text' = a \o b
    BY <1>a, <1>3, <2>1 DEF Text
  <2>9. Len(a \o b) = Len(a) + Len(b) /\ \A i \in 1..Len(b) : (a \o b)[Len(a) + i] = b[i]
    BY <1>1
  <2>10. Place' = k
    <3>1. Place' = Len(a \o b) - Len(b)
      BY <2>7, <2>8 DEF Place
    <3> QED BY <1>1, <1>4, <2>5, <2>9, <3>1
  <2>11. \A i \in 1..Len(args') : args'[i] = Text'[Place' + i]
    BY <2>5, <2>7, <2>8, <2>9, <2>10
  <2>12. Place' >= Len(OptionsRead') /\ Place' \in Nat
    BY <1>a, <1>3, <1>4, <2>5, <2>10
  <2>13. PlaceInv'
    BY <1>1, <2>1, <2>7, <2>11, <2>12 DEF PlaceInv
  <2> QED BY <1>a, <2>10, <2>13
<1> QED BY <1>6, <1>7, <1>8, <1>9

-----------------------------------------------------------------------------
Defaults == {Option("HOME", "/"), Option("TERM", "linux")}

\* x is in the environment of the first k options.
InEnv(x, k) ==
  \/ \E i \in VarsAt : i <= k /\ x = Read[i] /\ \A j \in VarsAt : j <= k /\ Read[j].param = Read[i].param => j <= i
  \/ x \in Defaults /\ \A j \in VarsAt : j <= k => Read[j].param # x.param

\* The variables are in the first slots, every name once.
EnvInv(slots, k) ==
  /\ DOMAIN slots = 0..MAX_INIT_ENVS+1 /\ slots[MAX_INIT_ENVS + 1] = NONE
  /\ \A i \in 0..MAX_INIT_ENVS+1 : slots[i] = NONE => \A j \in i..MAX_INIT_ENVS+1 : slots[j] = NONE
  /\ \A i, j \in 0..MAX_INIT_ENVS+1 : slots[i] # NONE /\ slots[j] # NONE /\ slots[i].param = slots[j].param => i = j
  /\ \A x : InEnv(x, k) <=> \E i \in 0..MAX_INIT_ENVS+1 : slots[i] = x /\ x # NONE

LEMMA EnvStays ==
  ASSUME LinesInv, NEW k \in 0..Len(Read)-1, k + 1 \notin VarsAt, NEW slots, EnvInv(slots, k)
  PROVE  EnvInv(slots, k + 1)
<1>1. \A j \in VarsAt : j <= k + 1 <=> j <= k
  BY PlacesApart
<1>2. \A x : InEnv(x, k + 1) <=> InEnv(x, k)
  BY <1>1 DEF InEnv
<1> QED BY <1>2 DEF EnvInv

\* A variable replaces the one of its name.
LEMMA InEnvNext ==
  ASSUME LinesInv, NEW k \in 0..Len(Read)-1, k + 1 \in VarsAt
  PROVE  \A x : InEnv(x, k + 1) <=> x = Read[k + 1] \/ (InEnv(x, k) /\ x.param # Read[k + 1].param)
<1>p. PICK p : p = k + 1
  OBVIOUS
<1>1. /\ p \in VarsAt /\ p <= p /\ ~ (p <= k)
      /\ \A j \in VarsAt : (j <= p <=> j <= k \/ j = p) /\ (j <= k => j <= p /\ ~ (p <= j))
  BY <1>p, PlacesApart
<1>2. ASSUME NEW x PROVE InEnv(x, p) <=> x = Read[p] \/ (InEnv(x, k) /\ x.param # Read[p].param)
  <2>1. InEnv(x, p) => x = Read[p] \/ (InEnv(x, k) /\ x.param # Read[p].param)
    BY <1>1 DEF InEnv
  <2>2. x = Read[p] => InEnv(x, p)
    BY <1>1 DEF InEnv
  <2>3. InEnv(x, k) /\ x.param # Read[p].param => InEnv(x, p)
    BY <1>1 DEF InEnv
  <2> QED BY <2>1, <2>2, <2>3
<1> QED BY <1>p, <1>2

\* The loop over envp_init stops at the variable or at the first empty slot.
LEMMA EnvScanIs ==
  ASSUME NEW slots, NEW k, EnvInv(slots, k), NEW name
  PROVE  LET i == Scan(slots, {name}) IN
         /\ i \in 0..MAX_INIT_ENVS+1
         /\ slots[i] = NONE \/ slots[i].param = name
         /\ \A j \in 0..i-1 : slots[j] # NONE /\ slots[j].param # name
<1>m. MAX_INIT_ENVS \in Nat
  BY OptionAssumption DEF MAX_INIT_ENVS
<1> DEFINE stops == {j \in DOMAIN slots : slots[j] = NONE \/ slots[j].param \in {name}}
           first == CHOOSE h \in stops : \A j \in stops : h <= j
<1>1. \A j : j \in stops <=> j \in 0..MAX_INIT_ENVS+1 /\ (slots[j] = NONE \/ slots[j].param = name)
  BY DEF EnvInv
<1>2. MAX_INIT_ENVS + 1 \in stops
  BY <1>m, <1>1 DEF EnvInv
<1> HIDE DEF stops
<1>3. stops \in SUBSET Nat
  BY <1>m, <1>1
<1>4. first \in stops /\ \A j \in stops : first <= j
  BY <1>2, <1>3, Least
<1>5. Scan(slots, {name}) = first
  BY DEF Scan, stops
<1> HIDE DEF first
<1>6. \A j \in 0..first-1 : j \notin stops /\ j \in 0..MAX_INIT_ENVS+1
  BY <1>m, <1>1, <1>4
<1> QED BY <1>1, <1>4, <1>5, <1>6

\* A variable, while there is a slot for it.
LEMMA EnvAdded ==
  ASSUME LinesInv, NEW k \in 0..Len(Read)-1, k + 1 \in VarsAt, NEW slots, EnvInv(slots, k),
         ~ (Scan(slots, {Read[k + 1].param}) > MAX_INIT_ENVS)
  PROVE  EnvInv([slots EXCEPT ![Scan(slots, {Read[k + 1].param})] = Read[k + 1]], k + 1)
<1>m. PICK m : m = MAX_INIT_ENVS
  OBVIOUS
<1>p. PICK o : o = Read[k + 1]
  OBVIOUS
<1>i. PICK i : i = Scan(slots, {o.param})
  OBVIOUS
<1>a. m \in Nat /\ m >= 2
  BY <1>m, OptionAssumption DEF MAX_INIT_ENVS
<1>b. o # NONE
  BY <1>p, OptionsThere
<1>1. /\ DOMAIN slots = 0..m+1 /\ slots[m + 1] = NONE
      /\ \A h \in 0..m+1 : slots[h] = NONE => \A j \in h..m+1 : slots[j] = NONE
      /\ \A h, j \in 0..m+1 : slots[h] # NONE /\ slots[j] # NONE /\ slots[h].param = slots[j].param => h = j
      /\ \A x : InEnv(x, k) <=> \E h \in 0..m+1 : slots[h] = x /\ x # NONE
  BY <1>m DEF EnvInv
<1>2. /\ i \in 0..m+1 /\ (slots[i] = NONE \/ slots[i].param = o.param)
      /\ \A j \in 0..i-1 : slots[j] # NONE /\ slots[j].param # o.param
  BY <1>i, <1>m, EnvScanIs
<1>3. i \in 0..m
  BY <1>a, <1>i, <1>m, <1>p, <1>2
<1>s. PICK new : new = [slots EXCEPT ![i] = o]
  OBVIOUS
<1>4. DOMAIN new = 0..m+1 /\ new[i] = o /\ \A j \in 0..m+1 : j # i => new[j] = slots[j]
  BY <1>a, <1>s, <1>1, <1>3
<1>5. \A j \in 0..m+1 : j # i /\ slots[j] # NONE => slots[j].param # o.param
  <2> SUFFICES ASSUME NEW j \in 0..m+1, j # i, slots[j] # NONE, slots[j].param = o.param PROVE FALSE
    OBVIOUS
  <2>1. i < j
    BY <1>a, <1>2
  <2>2. slots[i] # NONE
    BY <1>a, <1>1, <1>2, <2>1
  <2> QED BY <1>1, <1>2, <2>2
<1>6. new[m + 1] = NONE
  BY <1>a, <1>1, <1>3, <1>4
<1>7. \A h \in 0..m+1 : new[h] = NONE => \A j \in h..m+1 : new[j] = NONE
  BY <1>a, <1>b, <1>1, <1>2, <1>4
<1>8. \A h, j \in 0..m+1 : new[h] # NONE /\ new[j] # NONE /\ new[h].param = new[j].param => h = j
  BY <1>1, <1>3, <1>4, <1>5
<1>9. \A x : InEnv(x, k + 1) <=> \E h \in 0..m+1 : new[h] = x /\ x # NONE
  <2>1. \A x : InEnv(x, k + 1) <=> x = o \/ (InEnv(x, k) /\ x.param # o.param)
    BY <1>p, InEnvNext
  <2>2. i \in 0..m+1
    BY <1>2
  <2>3. slots[i] # NONE => slots[i].param = o.param
    BY <1>2
  <2>4. ASSUME NEW x, InEnv(x, k), x.param # o.param PROVE \E h \in 0..m+1 : new[h] = x /\ x # NONE
    <3>1. PICK h \in 0..m+1 : slots[h] = x /\ x # NONE
      BY <1>1, <2>4
    <3>2. h # i
      BY <2>3, <2>4, <3>1
    <3> QED BY <1>4, <3>1, <3>2
  <2>5. ASSUME NEW h \in 0..m+1, new[h] # NONE, h # i PROVE InEnv(new[h], k) /\ new[h].param # o.param
    BY <1>1, <1>4, <1>5, <2>5
  <2>6. ASSUME NEW x PROVE InEnv(x, k + 1) <=> \E h \in 0..m+1 : new[h] = x /\ x # NONE
    <3>1. CASE x = o
      BY <1>b, <1>4, <2>1, <2>2, <3>1
    <3>2. CASE x # o
      <4>1. InEnv(x, k + 1) => \E h \in 0..m+1 : new[h] = x /\ x # NONE
        BY <2>1, <2>4, <3>2
      <4>2. ASSUME NEW h \in 0..m+1, new[h] = x, x # NONE PROVE InEnv(x, k + 1)
        BY <1>4, <2>1, <2>5, <3>2, <4>2
      <4> QED BY <4>1, <4>2
    <3> QED BY <3>1, <3>2
  <2> QED BY <2>6
<1>10. EnvInv(new, k + 1)
  BY <1>m, <1>4, <1>6, <1>7, <1>8, <1>9 DEF EnvInv
<1> QED BY <1>i, <1>p, <1>s, <1>10

LEMMA EnvInvPasses ==
  ASSUME LinesInv, EnvInv(envp_init, Len(Read)) PROVE EnvironmentPassed
<1> DEFINE m == MAX_INIT_ENVS
           n == Scan(envp_init, {})
<1>a. m \in Nat
  BY OptionAssumption DEF MAX_INIT_ENVS
<1>1. /\ DOMAIN envp_init = 0..m+1 /\ envp_init[m + 1] = NONE
      /\ \A h \in 0..m+1 : envp_init[h] = NONE => \A j \in h..m+1 : envp_init[j] = NONE
      /\ \A h, j \in 0..m+1 :
           envp_init[h] # NONE /\ envp_init[j] # NONE /\ envp_init[h].param = envp_init[j].param => h = j
      /\ \A x : InEnv(x, Len(Read)) <=> \E h \in 0..m+1 : envp_init[h] = x /\ x # NONE
  BY DEF EnvInv
<1> HIDE DEF m
<1>2. n \in 0..m+1 /\ envp_init[n] = NONE /\ \A j \in 0..n-1 : envp_init[j] # NONE
  <2>1. m + 1 \in Nat
    BY <1>a
  <2>2. FirstEmpty(envp_init, n)
    BY <1>1, <2>1, ScanFinds
  <2> QED BY <1>1, <2>2 DEF FirstEmpty
<1> HIDE DEF n
<1>3. \A h \in 0..m+1 : envp_init[h] # NONE <=> h \in 0..n-1
  BY <1>a, <1>1, <1>2
<1>4. \A x : x \in {envp_init[i] : i \in 0..n-1} <=> InEnv(x, Len(Read))
  <2>1. \A i \in 0..n-1 : i \in 0..m+1
    BY <1>a, <1>2
  <2> QED BY <1>1, <1>3, <2>1
<1>5. \A x : x \in ExpectedEnv <=> InEnv(x, Len(Read))
  <2>1. \A j \in VarsAt : j <= Len(Read)
    BY PlacesApart
  <2> QED BY <2>1 DEF ExpectedEnv, InEnv, Defaults
<1>6. \A i, j \in 0..n-1 : envp_init[i].param = envp_init[j].param => i = j
  BY <1>a, <1>1, <1>2
<1>7. {envp_init[i] : i \in 0..n-1} = ExpectedEnv
  BY <1>4, <1>5
<1> QED BY <1>6, <1>7 DEF EnvironmentPassed, n

-----------------------------------------------------------------------------
INSTANCE FiniteSetTheorems

\* Every argument of a stretch has a slot among its first ones.
LEMMA StretchIs ==
  ASSUME LinesInv, NEW k \in 0..Len(Read)
  PROVE  /\ IsFiniteSet(Stretch(k)) /\ Cardinality(Stretch(k)) \in Nat
         /\ \A p \in Stretch(k) : Slot(p) \in 1..Cardinality(Stretch(k))
<1> USE PlacesApart
<1>1. Stretch(k) \in SUBSET (1..k)
  BY DEF Stretch
<1>2. IsFiniteSet(Stretch(k)) /\ Cardinality(Stretch(k)) \in Nat
  <2>1. IsFiniteSet(1..k)
    BY FS_Interval
  <2> QED BY <1>1, <2>1, FS_Subset, FS_CardinalityType
<1>3. ASSUME NEW p \in Stretch(k) PROVE Slot(p) \in 1..Cardinality(Stretch(k))
  <2>1. Stretch(p) \in SUBSET Stretch(k) /\ p \in Stretch(p)
    BY DEF Stretch
  <2>2. IsFiniteSet(Stretch(p)) /\ Cardinality(Stretch(p)) <= Cardinality(Stretch(k))
    BY <1>2, <2>1, FS_Subset
  <2>3. Cardinality(Stretch(p)) \in Nat /\ Cardinality(Stretch(p)) # 0
    BY <2>1, <2>2, FS_CardinalityType, FS_EmptySet
  <2> QED BY <1>2, <2>2, <2>3 DEF Slot
<1> QED BY <1>2, <1>3

\* How an option changes the stretch.
LEMMA StretchNext ==
  ASSUME LinesInv, NEW k \in 0..Len(Read)-1
  PROVE  /\ k + 1 \in ResetsAt => Stretch(k + 1) = {}
         /\ k + 1 \in ArgsAt => /\ Stretch(k + 1) = Stretch(k) \cup {k + 1}
                                /\ Slot(k + 1) = Cardinality(Stretch(k)) + 1
                                /\ Cardinality(Stretch(k + 1)) = Cardinality(Stretch(k)) + 1
         /\ k + 1 \notin ResetsAt \cup ArgsAt => Stretch(k + 1) = Stretch(k)
<1> USE PlacesApart
<1>1. CASE k + 1 \in ResetsAt
  BY <1>1 DEF Stretch
<1>2. CASE k + 1 \in ArgsAt
  <2>1. Stretch(k + 1) = Stretch(k) \cup {k + 1} /\ k + 1 \notin Stretch(k) /\ k + 1 \notin ResetsAt
    BY <1>2 DEF Stretch
  <2>2. IsFiniteSet(Stretch(k))
    BY StretchIs
  <2>3. Cardinality(Stretch(k + 1)) = Cardinality(Stretch(k)) + 1
    BY <2>1, <2>2, FS_AddElement
  <2> QED BY <1>2, <2>1, <2>3 DEF Slot
<1>3. CASE k + 1 \notin ResetsAt \cup ArgsAt
  BY <1>3 DEF Stretch
<1> QED BY <1>1, <1>2, <1>3

-----------------------------------------------------------------------------
\* What the slots of the arguments hold when k options have been read: the
\* arguments of the stretch in their order, then empty slots, and in slot
\* MAX_INIT_ARGS the only argument that has had it.
ArgsInv(slots, k) ==
  LET n == Cardinality(Stretch(k)) IN
  /\ DOMAIN slots = 0..MAX_INIT_ARGS+1 /\ slots[0] # NONE /\ slots[MAX_INIT_ARGS + 1] = NONE
  /\ n <= MAX_INIT_ARGS
  /\ \A i \in 1..n : slots[i] # NONE
  /\ \A i \in n+1..MAX_INIT_ARGS-1 : slots[i] = NONE
  /\ \A p \in Stretch(k) : slots[Slot(p)] = Read[p]
  /\ \A p \in ArgsAt : p <= k /\ Slot(p) = MAX_INIT_ARGS => slots[MAX_INIT_ARGS] = Read[p]
  /\ slots[MAX_INIT_ARGS] # NONE => \E p \in ArgsAt : p <= k /\ Slot(p) = MAX_INIT_ARGS

\* An option that is neither an argument nor init= leaves the slots alone.
LEMMA ArgsStay ==
  ASSUME LinesInv, NEW k \in 0..Len(Read)-1, k + 1 \notin ResetsAt \cup ArgsAt, NEW slots, ArgsInv(slots, k)
  PROVE  ArgsInv(slots, k + 1)
<1>1. Stretch(k + 1) = Stretch(k)
  BY StretchNext
<1>2. \A p \in ArgsAt : p <= k + 1 <=> p <= k
  BY PlacesApart
<1> QED BY <1>1, <1>2 DEF ArgsInv

\* init= and rdinit= clear the slots below the last.
LEMMA ArgsCleared ==
  ASSUME LinesInv, NEW k \in 0..Len(Read)-1, k + 1 \in ResetsAt, NEW slots, ArgsInv(slots, k)
  PROVE  ArgsInv(ClearArgs(slots), k + 1)
<1> DEFINE new == ClearArgs(slots)
<1>1. Stretch(k + 1) = {} /\ Cardinality(Stretch(k + 1)) = 0
  BY StretchNext, FS_EmptySet
<1>2. \A p \in ArgsAt : p <= k + 1 <=> p <= k
  BY PlacesApart
<1>3. MAX_INIT_ARGS \in Nat /\ MAX_INIT_ARGS >= 2
  BY OptionAssumption DEF MAX_INIT_ARGS
<1>4. /\ DOMAIN new = 0..MAX_INIT_ARGS+1
      /\ \A i \in 0..MAX_INIT_ARGS+1 : new[i] = IF i \in 1..MAX_INIT_ARGS-1 THEN NONE ELSE slots[i]
  BY DEF ClearArgs, ArgsInv
<1>5. /\ new[0] = slots[0] /\ new[MAX_INIT_ARGS] = slots[MAX_INIT_ARGS]
      /\ new[MAX_INIT_ARGS + 1] = slots[MAX_INIT_ARGS + 1]
      /\ \A i \in 1..MAX_INIT_ARGS-1 : new[i] = NONE
  BY <1>3, <1>4
<1> HIDE DEF new
<1> QED BY <1>1, <1>2, <1>3, <1>4, <1>5 DEF ArgsInv, new

\* Where the next argument goes.
LEMMA ScanIs ==
  ASSUME NEW n \in Nat, NEW slots, DOMAIN slots = 0..n, NEW i \in 0..n, slots[i] = NONE,
         \A j \in 0..i-1 : slots[j] # NONE
  PROVE  Scan(slots, {}) = i
<1> DEFINE stops == {j \in DOMAIN slots : slots[j] = NONE \/ slots[j].param \in {}}
<1>1. i \in stops /\ \A j \in stops : i <= j
  OBVIOUS
<1>2. \A h \in stops : (\A j \in stops : h <= j) => h = i
  <2> SUFFICES ASSUME NEW h \in stops, \A j \in stops : h <= j PROVE h = i
    OBVIOUS
  <2>1. h <= i /\ i <= h /\ h \in Int /\ i \in Int
    BY <1>1
  <2> QED BY <2>1
<1>3. (CHOOSE h \in stops : \A j \in stops : h <= j) = i
  <2> HIDE DEF stops
  <2> QED BY <1>1, <1>2
<1> QED BY <1>3 DEF Scan

LEMMA ArgsScan ==
  ASSUME LinesInv, NEW k \in 0..Len(Read), NEW slots, ArgsInv(slots, k)
  PROVE  LET n == Cardinality(Stretch(k)) IN
         Scan(slots, {}) = IF n < MAX_INIT_ARGS /\ slots[n + 1] = NONE THEN n + 1 ELSE MAX_INIT_ARGS + 1
<1> DEFINE n == Cardinality(Stretch(k))
<1>1. n \in Nat
  BY StretchIs
<1>2. MAX_INIT_ARGS \in Nat /\ MAX_INIT_ARGS >= 2
  BY OptionAssumption DEF MAX_INIT_ARGS
<1>3. /\ DOMAIN slots = 0..MAX_INIT_ARGS+1 /\ slots[0] # NONE /\ slots[MAX_INIT_ARGS + 1] = NONE
      /\ n <= MAX_INIT_ARGS /\ \A i \in 1..n : slots[i] # NONE
      /\ \A i \in n+1..MAX_INIT_ARGS-1 : slots[i] = NONE
  BY DEF ArgsInv
<1> HIDE DEF n
<1>4. CASE n < MAX_INIT_ARGS /\ slots[n + 1] = NONE
  <2>1. n + 1 \in 0..MAX_INIT_ARGS+1 /\ \A j \in 0..(n+1)-1 : slots[j] # NONE
    BY <1>1, <1>2, <1>3, <1>4
  <2>2. MAX_INIT_ARGS + 1 \in Nat
    BY <1>2
  <2>3. Scan(slots, {}) = n + 1
    BY <1>3, <1>4, <2>1, <2>2, ScanIs
  <2> QED BY <1>4, <2>3 DEF n
<1>5. CASE ~ (n < MAX_INIT_ARGS /\ slots[n + 1] = NONE)
  <2>1. MAX_INIT_ARGS + 1 \in 0..MAX_INIT_ARGS+1 /\ \A j \in 0..(MAX_INIT_ARGS+1)-1 : slots[j] # NONE
    BY <1>1, <1>2, <1>3, <1>5
  <2>2. MAX_INIT_ARGS + 1 \in Nat
    BY <1>2
  <2>3. Scan(slots, {}) = MAX_INIT_ARGS + 1
    BY <1>3, <2>1, <2>2, ScanIs
  <2> QED BY <1>5, <2>3 DEF n
<1> QED BY <1>4, <1>5

\* An argument, while there is a slot for it.
LEMMA ArgsAdded ==
  ASSUME LinesInv, NEW k \in 0..Len(Read)-1, k + 1 \in ArgsAt, NEW slots, ArgsInv(slots, k),
         ~ (Scan(slots, {}) > MAX_INIT_ARGS)
  PROVE  ArgsInv([slots EXCEPT ![Scan(slots, {})] = Read[k + 1]], k + 1)
<1>n. PICK n : n = Cardinality(Stretch(k))
  OBVIOUS
<1>m. PICK m : m = MAX_INIT_ARGS
  OBVIOUS
<1>p. PICK p : p = k + 1
  OBVIOUS
<1>a. n \in Nat /\ \A q \in Stretch(k) : Slot(q) \in 1..n
  BY <1>n, StretchIs
<1>b. m \in Nat /\ m >= 2
  BY <1>m, OptionAssumption DEF MAX_INIT_ARGS
<1>c. Stretch(p) = Stretch(k) \cup {p} /\ Slot(p) = n + 1 /\ Cardinality(Stretch(p)) = n + 1
  BY <1>n, <1>p, StretchNext
<1>d. Read[p] # NONE /\ p \in ArgsAt /\ \A q \in ArgsAt : q <= p <=> q <= k \/ q = p
  BY <1>p, OptionsThere, PlacesApart
<1>1. /\ DOMAIN slots = 0..m+1 /\ slots[0] # NONE /\ slots[m + 1] = NONE
      /\ n <= m /\ (\A i \in 1..n : slots[i] # NONE) /\ (\A i \in n+1..m-1 : slots[i] = NONE)
      /\ \A q \in Stretch(k) : slots[Slot(q)] = Read[q]
      /\ \A q \in ArgsAt : q <= k /\ Slot(q) = m => slots[m] = Read[q]
      /\ slots[m] # NONE => \E q \in ArgsAt : q <= k /\ Slot(q) = m
  BY <1>n, <1>m DEF ArgsInv
<1>2. n < m /\ slots[n + 1] = NONE /\ Scan(slots, {}) = n + 1
  BY <1>a, <1>b, <1>n, <1>m, ArgsScan
<1>s. PICK new : new = [slots EXCEPT ![n + 1] = Read[p]]
  OBVIOUS
<1>3. DOMAIN new = 0..m+1 /\ new[n + 1] = Read[p] /\ \A i \in 0..m+1 : i # n + 1 => new[i] = slots[i]
  BY <1>a, <1>b, <1>s, <1>1, <1>2
<1>4. new[0] # NONE /\ new[m + 1] = NONE /\ n + 1 <= m
  BY <1>a, <1>b, <1>1, <1>2, <1>3
<1>5. (\A i \in 1..(n+1) : new[i] # NONE) /\ (\A i \in (n+1)+1..m-1 : new[i] = NONE)
  BY <1>a, <1>b, <1>d, <1>1, <1>2, <1>3
<1>6. \A q \in Stretch(p) : new[Slot(q)] = Read[q]
  BY <1>a, <1>b, <1>c, <1>1, <1>2, <1>3
<1>7. \A q \in ArgsAt : q <= k /\ Slot(q) = m => n + 1 # m
  <2>1. \A q \in ArgsAt : q <= k => Read[q] # NONE
    BY OptionsThere, PlacesApart
  <2> QED BY <1>1, <1>2, <2>1
<1>8. \A q \in ArgsAt : q <= p /\ Slot(q) = m => new[m] = Read[q]
  BY <1>a, <1>b, <1>c, <1>d, <1>1, <1>3, <1>7
<1>9. new[m] # NONE => \E q \in ArgsAt : q <= p /\ Slot(q) = m
  BY <1>a, <1>b, <1>c, <1>d, <1>1, <1>2, <1>3
<1>10. ArgsInv(new, p)
  BY <1>c, <1>m, <1>3, <1>4, <1>5, <1>6, <1>8, <1>9 DEF ArgsInv
<1> QED BY <1>p, <1>s, <1>2, <1>10

\* When all is read, execve finds what ArgumentsPassed says.
LEMMA ArgsInvPasses ==
  ASSUME LinesInv, ArgsInv(argv_init, Len(Read)) PROVE ArgumentsPassed
<1> DEFINE kept == Stretch(Len(Read))
           old == {p \in ArgsAt \ kept : Slot(p) = MAX_INIT_ARGS}
           n == Cardinality(kept)
<1>a. Len(Read) \in 0..Len(Read) /\ \A p \in ArgsAt : p <= Len(Read)
  BY PlacesApart
<1>b. n \in Nat /\ \A q \in kept : Slot(q) \in 1..n
  BY <1>a, StretchIs
<1>c. MAX_INIT_ARGS \in Nat /\ MAX_INIT_ARGS >= 2
  BY OptionAssumption DEF MAX_INIT_ARGS
<1>1. /\ n <= MAX_INIT_ARGS /\ (\A i \in n+1..MAX_INIT_ARGS-1 : argv_init[i] = NONE)
      /\ \A q \in kept : argv_init[Slot(q)] = Read[q]
      /\ \A q \in ArgsAt : Slot(q) = MAX_INIT_ARGS => argv_init[MAX_INIT_ARGS] = Read[q]
      /\ argv_init[MAX_INIT_ARGS] # NONE => \E q \in ArgsAt : Slot(q) = MAX_INIT_ARGS
  BY <1>a DEF ArgsInv
<1>2. Scan(argv_init, {}) = IF n < MAX_INIT_ARGS /\ argv_init[n + 1] = NONE THEN n + 1 ELSE MAX_INIT_ARGS + 1
  BY <1>a, ArgsScan
<1>3. \A q \in ArgsAt : Read[q] # NONE
  BY OptionsThere, PlacesApart
<1> HIDE DEF kept, n
<1>4. n = MAX_INIT_ARGS - 1 => (argv_init[MAX_INIT_ARGS] # NONE <=> old # {})
  BY <1>b, <1>c, <1>1, <1>3
<1>5. n < MAX_INIT_ARGS - 1 => argv_init[n + 1] = NONE
  BY <1>b, <1>c, <1>1
<1> DEFINE back == old # {} /\ n = MAX_INIT_ARGS - 1
<1>6. Scan(argv_init, {}) = n + (IF back THEN 2 ELSE 1)
  <2> HIDE DEF old
  <2>1. CASE n < MAX_INIT_ARGS - 1
    BY <1>b, <1>c, <1>2, <1>5, <2>1
  <2>2. CASE n = MAX_INIT_ARGS - 1
    <3>1. n + 1 = MAX_INIT_ARGS /\ n < MAX_INIT_ARGS /\ MAX_INIT_ARGS + 1 = n + 2
      BY <1>b, <1>c, <2>2
    <3> QED BY <1>2, <1>4, <2>2, <3>1
  <2>3. CASE n = MAX_INIT_ARGS
    BY <1>b, <1>c, <1>2, <2>3
  <2> QED BY <1>b, <1>c, <1>1, <2>1, <2>2, <2>3
<1>7. \A p \in old : argv_init[MAX_INIT_ARGS] = Read[p]
  BY <1>1
<1> QED BY <1>1, <1>6, <1>7 DEF ArgumentsPassed, kept, n

-----------------------------------------------------------------------------
\* What the arrays hold while the options are read.
PassInv ==
  /\ boot \in Before =>
       /\ panic_later = NONE
       /\ argv_init = [i \in 0..MAX_INIT_ARGS+1 |-> IF i = 0 THEN Option("init", NONE) ELSE NONE]
       /\ envp_init = [i \in 0..MAX_INIT_ENVS+1 |-> CASE i = 0 -> Option("HOME", "/")
                                                      [] i = 1 -> Option("TERM", "linux")
                                                      [] OTHER -> NONE]
  /\ boot \in Reading =>
       /\ saved_command_line = SavedCommandLine
       /\ PlaceInv
       /\ panic_later = NONE => \A k \in Nat : k = Place => ArgsInv(argv_init, k) /\ EnvInv(envp_init, k)
  /\ boot = "rest_init" => args = <<>> /\ panic_later = NONE

LEMMA KeepInv ==
  ASSUME UNCHANGED lineVars, NEW k, ArgsInv(argv_init', k), EnvInv(envp_init', k)
  PROVE  ArgsInv(argv_init, k)' /\ EnvInv(envp_init, k)'
<1> USE ConfigKeeps
<1>1. ArgsInv(argv_init, k)'
  BY DEF ArgsInv
<1>2. \A x : InEnv(x, k)' <=> InEnv(x, k)
  BY DEF InEnv
<1>3. EnvInv(envp_init, k)'
  BY <1>2 DEF EnvInv
<1> QED BY <1>1, <1>3

\* What the slots hold when nothing has been read.
LEMMA FirstSlots ==
  ASSUME LinesInv, PassInv, boot \in Before
  PROVE  panic_later = NONE /\ ArgsInv(argv_init, 0) /\ EnvInv(envp_init, 0)
<1>1. MAX_INIT_ARGS \in Nat /\ MAX_INIT_ARGS >= 2 /\ MAX_INIT_ENVS \in Nat /\ MAX_INIT_ENVS >= 2
  BY OptionAssumption DEF MAX_INIT_ARGS, MAX_INIT_ENVS
<1>2. PICK ini, home, term :
        ini = Option("init", NONE) /\ home = Option("HOME", "/") /\ term = Option("TERM", "linux")
  OBVIOUS
<1>3. ini # NONE /\ home # NONE /\ term # NONE
  BY <1>2, LineAssumption
<1>4. home.param = "HOME" /\ term.param = "TERM"
  BY <1>2 DEF Option
<1>5. /\ argv_init = [i \in 0..MAX_INIT_ARGS+1 |-> IF i = 0 THEN ini ELSE NONE]
      /\ envp_init = [i \in 0..MAX_INIT_ENVS+1 |-> CASE i = 0 -> home [] i = 1 -> term [] OTHER -> NONE]
      /\ panic_later = NONE
  BY <1>2 DEF PassInv
<1>6. Stretch(0) = {} /\ \A p \in ArgsAt : ~ (p <= 0)
  BY PlacesApart DEF Stretch
<1>7. Cardinality(Stretch(0)) = 0
  BY <1>6, FS_EmptySet
<1>8. ArgsInv(argv_init, 0)
  BY <1>1, <1>3, <1>5, <1>6, <1>7 DEF ArgsInv
<1>9. \A x : InEnv(x, 0) <=> x \in {home, term}
  <2>1. \A j \in VarsAt : ~ (j <= 0)
    BY PlacesApart
  <2> QED BY <1>2, <2>1 DEF InEnv, Defaults
<1>10. /\ DOMAIN envp_init = 0..MAX_INIT_ENVS+1 /\ envp_init[0] = home /\ envp_init[1] = term
       /\ \A i \in 2..MAX_INIT_ENVS+1 : envp_init[i] = NONE
  BY <1>1, <1>5
<1>11. \A i \in 0..MAX_INIT_ENVS+1 : i = 0 \/ i = 1 \/ i \in 2..MAX_INIT_ENVS+1
  BY <1>1
<1>12. EnvInv(envp_init, 0)
  <2>1. envp_init[MAX_INIT_ENVS + 1] = NONE
    BY <1>1, <1>10
  <2>2. \A i \in 0..MAX_INIT_ENVS+1 : envp_init[i] = NONE => \A j \in i..MAX_INIT_ENVS+1 : envp_init[j] = NONE
    BY <1>1, <1>3, <1>10
  <2>3. \A i, j \in 0..MAX_INIT_ENVS+1 :
          envp_init[i] # NONE /\ envp_init[j] # NONE /\ envp_init[i].param = envp_init[j].param => i = j
    BY <1>4, <1>10, <1>11
  <2>4. \A x : x \in {home, term} <=> \E i \in 0..MAX_INIT_ENVS+1 : envp_init[i] = x /\ x # NONE
    <3>1. 0 \in 0..MAX_INIT_ENVS+1 /\ 1 \in 0..MAX_INIT_ENVS+1
      BY <1>1
    <3> QED BY <1>3, <1>10, <1>11, <3>1
  <2> QED BY <1>9, <1>10, <2>1, <2>2, <2>3, <2>4 DEF EnvInv
<1> QED BY <1>5, <1>8, <1>12

LEMMA PassNext == EarlyInv /\ ConfigInv /\ PassInv /\ [BootNext]_bootVars => PassInv'
<1> SUFFICES ASSUME EarlyInv, ConfigInv, PassInv, [BootNext]_bootVars PROVE PassInv'
  OBVIOUS
<1>a. LinesInv /\ NONE \notin {"init", "env"}
  BY OptionAssumption DEF ConfigInv
<1>b. PlaceInv => Place \in Nat
  BY DEF PlaceInv
<1>1. CASE SetupBootConfig
  BY <1>1 DEF SetupBootConfig, PassInv, Before, Reading, initVars
<1>2. CASE SetupCommandLine
  <2>1. boot \in Before /\ UNCHANGED lineVars /\ UNCHANGED initVars
    BY <1>2 DEF SetupCommandLine, Before, lineVars
  <2>2. CASE boot' = "panic"
    BY <2>2 DEF PassInv, Before, Reading
  <2>3. CASE boot' = "parse_args" /\ saved_command_line' = SavedCommandLine /\ args' = Line
    <3>1. /\ Line' = Line /\ OptionsRead' = OptionsRead /\ SavedCommandLine' = SavedCommandLine
          /\ Line \in Seq(GivenOptions) /\ OptionsRead \in Seq(GivenOptions)
      BY <1>a, <2>1, ConfigKeeps, ReadParts
    <3>2. Text' = Line /\ Place' = 0 /\ Len(OptionsRead) \in Nat
      BY <2>3, <3>1 DEF Text, Place
    <3>3. PlaceInv'
      BY <2>3, <3>1, <3>2 DEF PlaceInv
    <3>4. ArgsInv(argv_init', 0) /\ EnvInv(envp_init', 0) /\ panic_later' = NONE
      BY <1>a, <2>1, FirstSlots DEF initVars
    <3>5. ArgsInv(argv_init, 0)' /\ EnvInv(envp_init, 0)'
      BY <2>1, <3>4, KeepInv
    <3> QED BY <2>3, <3>1, <3>2, <3>3, <3>5 DEF PassInv, Before, Reading
  <2> QED BY <1>2, <2>2, <2>3 DEF SetupCommandLine, Line
<1>3. CASE UnknownBootoption \/ SetInitArg
  <2>k. PICK k : k = Place
    OBVIOUS
  <2>1. /\ boot \in Reading \ {"rest_init"} /\ boot' = boot /\ UNCHANGED configVars
        /\ args # <<>> /\ args' = Tail(args) /\ (boot = "parse_args" => Head(args) # Dashes)
    BY <1>3 DEF UnknownBootoption, SetInitArg, Reading
  <2>2. UNCHANGED lineVars /\ UNCHANGED saved_command_line
    BY <2>1 DEF configVars, lineVars
  <2>3. PlaceInv /\ saved_command_line = SavedCommandLine
    BY <2>1 DEF PassInv
  <2>4. /\ PlaceInv' /\ Place' = k + 1 /\ k \in 0..Len(Read)-1 /\ Read[k + 1] = Head(args)
        /\ boot = "parse_args" <=> k + 1 \in 1..Len(OptionsRead)
    BY <1>a, <2>k, <2>1, <2>2, <2>3, OneRead
  <2>5. SavedCommandLine' = SavedCommandLine
    BY <2>2, ConfigKeeps
  <2>6. ASSUME panic_later' = NONE
        PROVE  /\ panic_later = NONE
               /\ ArgsInv(argv_init, k) => ArgsInv(argv_init', k + 1)
               /\ EnvInv(envp_init, k) => EnvInv(envp_init', k + 1)
    <3>o. PICK o : o = Head(args)
      OBVIOUS
    <3>1. /\ k + 1 \in ArgsAt <=> boot # "parse_args" \/ (Foreign(o) /\ o.val = NONE)
          /\ k + 1 \in ResetsAt <=> boot = "parse_args" /\ o.param \in {"init", "rdinit"} /\ o.val # NONE
          /\ k + 1 \in VarsAt <=> boot = "parse_args" /\ Foreign(o) /\ o.val # NONE
      <4>1. /\ k + 1 \in DOMAIN Read /\ Len(OptionsRead) \in Nat /\ k \in Nat
            /\ DOMAIN OptionsRead = 1..Len(OptionsRead)
        BY <1>a, <2>4, ReadParts, PlacesApart
      <4>2. k + 1 > Len(OptionsRead) <=> boot # "parse_args"
        BY <2>4, <4>1
      <4> QED BY <2>4, <3>o, <4>1, <4>2 DEF ArgsAt, ResetsAt, VarsAt
    <3>2. CASE SetInitArg
      <4>1. boot # "parse_args"
        BY <3>2 DEF SetInitArg
      <4>2. /\ panic_later = NONE /\ ~ (Scan(argv_init, {}) > MAX_INIT_ARGS) /\ envp_init' = envp_init
            /\ argv_init' = [argv_init EXCEPT ![Scan(argv_init, {})] = o]
        BY <1>a, <2>6, <3>o, <3>2 DEF SetInitArg, initVars
      <4> QED BY <1>a, <2>4, <3>o, <3>1, <4>1, <4>2, ArgsAdded, EnvStays
    <3>3. CASE UnknownBootoption
      <4>0. boot = "parse_args"
        BY <3>3 DEF UnknownBootoption
      <4>1. CASE IsSetup(o)
        <5>1. UNCHANGED <<envp_init, panic_later>> /\ Setup(o) /\ ~ Foreign(o)
          BY <3>o, <3>3, <4>1 DEF UnknownBootoption, Foreign, Consumed
        <5>2. IF o.param \in {"init", "rdinit"} THEN argv_init' = ClearArgs(argv_init) ELSE argv_init' = argv_init
          BY <5>1 DEF Setup
        <5>3. o.val # NONE
          BY <4>1 DEF IsSetup
        <5> QED BY <1>a, <2>4, <2>6, <3>1, <4>0, <5>1, <5>2, <5>3, ArgsCleared, ArgsStay, EnvStays
      <4>2. CASE ~ IsSetup(o) /\ UNCHANGED initVars /\ ~ Foreign(o)
        <5>1. o.param \in {"init", "rdinit"} => o.val = NONE
          BY <4>2 DEF IsSetup
        <5> QED BY <1>a, <2>4, <2>6, <3>1, <4>0, <4>2, <5>1, ArgsStay, EnvStays DEF initVars
      <4>3. CASE PassToInit(o) /\ Foreign(o) /\ panic_later = NONE
        <5>1. ~ (o.param \in {"init", "rdinit"} /\ o.val # NONE)
          BY <4>3 DEF Foreign, Consumed, IsSetup
        <5>2. CASE o.val # NONE
          <6>1. /\ panic_later' = IF Scan(envp_init, {o.param}) > MAX_INIT_ENVS
                                     \/ (Scan(envp_init, {o.param}) = MAX_INIT_ENVS
                                         /\ envp_init[Scan(envp_init, {o.param})] # NONE)
                                    THEN "env" ELSE panic_later
                /\ envp_init' = [envp_init EXCEPT ![Scan(envp_init, {o.param})] = o]
                /\ argv_init' = argv_init
            BY <4>3, <5>2 DEF PassToInit
          <6>2. ~ (Scan(envp_init, {o.param}) > MAX_INIT_ENVS)
            BY <1>a, <2>6, <6>1
          <6> QED BY <1>a, <2>4, <3>o, <3>1, <4>0, <4>3, <5>1, <5>2, <6>1, <6>2, ArgsStay, EnvAdded
        <5>3. CASE o.val = NONE
          <6>1. /\ panic_later' = (IF Scan(argv_init, {}) > MAX_INIT_ARGS THEN "init" ELSE panic_later)
                /\ argv_init' = [argv_init EXCEPT ![Scan(argv_init, {})] = o]
                /\ envp_init' = envp_init
            BY <4>3, <5>3 DEF PassToInit
          <6>2. ~ (Scan(argv_init, {}) > MAX_INIT_ARGS)
            BY <1>a, <2>6, <6>1
          <6> QED BY <1>a, <2>4, <3>o, <3>1, <4>0, <4>3, <5>3, <6>1, <6>2, ArgsAdded, EnvStays
        <5> QED BY <5>2, <5>3
      <4>4. CASE ~ IsSetup(o) /\ panic_later # NONE
        BY <2>6, <3>o, <3>3, <4>4 DEF UnknownBootoption, initVars, PassToInit
      <4> QED BY <3>o, <3>3, <4>1, <4>2, <4>3, <4>4 DEF UnknownBootoption, Foreign
    <3> QED BY <1>3, <3>2, <3>3
  <2>7. ASSUME panic_later' = NONE PROVE ArgsInv(argv_init, k + 1)' /\ EnvInv(envp_init, k + 1)'
    <3>1. ArgsInv(argv_init, k) /\ EnvInv(envp_init, k)
      BY <1>b, <2>k, <2>1, <2>3, <2>6, <2>7 DEF PassInv
    <3> QED BY <2>2, <2>6, <2>7, <3>1, KeepInv
  <2>8. \A j \in Nat : j = Place' => j = k + 1
    BY <2>4
  <2> QED BY <2>1, <2>2, <2>3, <2>4, <2>5, <2>7, <2>8 DEF PassInv, Before, Reading
<1>4. CASE MainOptionsRead \/ InitArgsRead \/ ConsoleInit
  <2>1. /\ boot \in Reading \ {"rest_init"} /\ UNCHANGED configVars /\ UNCHANGED initVars
        /\ boot' \in Reading \cup {"panic"} /\ (boot' = "rest_init" => args' = <<>> /\ panic_later' = NONE)
    BY <1>4 DEF MainOptionsRead, InitArgsRead, ConsoleInit, Reading, initVars
  <2>2. UNCHANGED lineVars /\ UNCHANGED saved_command_line /\ UNCHANGED <<argv_init, envp_init, panic_later>>
    BY <2>1 DEF configVars, lineVars, initVars
  <2>3. PlaceInv /\ saved_command_line = SavedCommandLine
        /\ (panic_later = NONE => \A k \in Nat : k = Place => ArgsInv(argv_init, k) /\ EnvInv(envp_init, k))
    BY <2>1 DEF PassInv
  <2>4. CASE boot' = "panic"
    BY <2>4 DEF PassInv, Before, Reading
  <2>5. CASE boot' # "panic"
    <3>1. PlaceInv' /\ Place' = Place
      BY <1>a, <1>4, <2>2, <2>3, <2>5, NextText DEF MainOptionsRead, InitArgsRead, ConsoleInit
    <3>2. SavedCommandLine' = SavedCommandLine
      BY <2>2, ConfigKeeps
    <3>3. ASSUME NEW k \in Nat, k = Place, panic_later' = NONE
          PROVE  ArgsInv(argv_init, k)' /\ EnvInv(envp_init, k)'
      <4>1. ArgsInv(argv_init, k) /\ EnvInv(envp_init, k)
        BY <2>2, <2>3, <3>3
      <4> QED BY <2>2, <4>1, KeepInv
    <3> QED BY <2>1, <2>2, <2>3, <2>5, <3>1, <3>2, <3>3 DEF PassInv, Before, Reading
  <2> QED BY <2>4, <2>5
<1>5. CASE ~ OptionNext /\ UNCHANGED optionVars
  <2>1. UNCHANGED <<boot, args, saved_command_line, argv_init, envp_init, panic_later>> /\ UNCHANGED lineVars
    BY <1>5 DEF optionVars, configVars, initVars, lineVars
  <2>2. UNCHANGED <<Line, Read, OptionsRead, LineInitArgs, SavedCommandLine>>
    BY <2>1, ConfigKeeps
  <2>3. Text' = Text
    BY <2>1, <2>2 DEF Text
  <2>4. Place' = Place /\ (PlaceInv' <=> PlaceInv)
    BY <2>1, <2>2, <2>3 DEF PlaceInv, Place
  <2>5. ASSUME NEW k, ArgsInv(argv_init, k) /\ EnvInv(envp_init, k)
        PROVE  ArgsInv(argv_init, k)' /\ EnvInv(envp_init, k)'
    BY <2>1, <2>5, KeepInv
  <2> QED BY <2>1, <2>2, <2>4, <2>5 DEF PassInv
<1>6. CASE ~ OptionNext /\ ~ UNCHANGED optionVars
  <2>1. boot' \notin Options
    BY <1>6 DEF BootNext, BootThread, KernelInit, RestInit, SpawnInit, SpawnKthreadd, FindKthreadd,
           ScheduleState, Complete, WaitForKthreadd, WorkqueueInit, KthreadsMade, DoOneInitcall, EarlyUserspace,
           DoInitcallLevel, AsyncSynchronize, FreeInitmem, RunInitProcess, KthreaddServes, AsyncRun,
           bootVars, EarlyInv, Options
  <2> QED BY <2>1 DEF PassInv, Options, Before, Reading
<1> QED BY <1>1, <1>2, <1>3, <1>4, <1>5, <1>6 DEF OptionNext

\* When start_kernel() has read the options and none was too many, init is given
\* exactly the arguments and the environment that the command line and the boot
\* configuration name, and the saved line shows them, for every command line,
\* boot configuration and size of the two arrays.
THEOREM InitArgumentsAreExact == BootSpec => []InitArguments
<1>1. BootInit => EarlyInv /\ ConfigInv /\ PassInv
  <2> SUFFICES ASSUME BootInit PROVE EarlyInv /\ ConfigInv /\ PassInv
    OBVIOUS
  <2>1. machine \in Machine /\ extra_command_line = <<>> /\ extra_init_args = <<>> /\ boot = "setup_boot_config"
    BY DEF BootInit, OptionInit
  <2>2. machine.line \in Seq(GivenOptions)
    <3>1. machine.line \in GivenLines
      BY <2>1 DEF GivenLines
    <3> QED BY <3>1, LineAssumption
  <2>3. ConfigInv
    BY <2>1, <2>2 DEF ConfigInv, LinesInv
  <2>4. PassInv
    BY <2>1 DEF BootInit, OptionInit, PassInv, Before, Reading
  <2>5. EarlyInv
    BY DEF BootInit, EarlyInv
  <2> QED BY <2>3, <2>4, <2>5
<1>2. SlotsInv /\ ConfigInv /\ PassInv => InitArguments
  <2> SUFFICES ASSUME LastSlotsEmpty, ConfigInv, PassInv, boot = "rest_init"
               PROVE  ArgumentsPassed /\ EnvironmentPassed /\ LineSaved
    BY DEF InitArguments, SlotsInv
  <2>1. /\ args = <<>> /\ panic_later = NONE /\ saved_command_line = SavedCommandLine
        /\ \A k \in Nat : k = Place => ArgsInv(argv_init, k) /\ EnvInv(envp_init, k)
    BY DEF PassInv, Reading
  <2>2. LinesInv /\ (extra_init_args # <<>> => initargs_offs = DashAt(machine.line))
    BY DEF ConfigInv
  <2>3. Place = Len(Read) /\ Len(Read) \in Nat
    BY <2>1, <2>2, PlacesApart DEF Place, Text
  <2>4. ArgsInv(argv_init, Len(Read)) /\ EnvInv(envp_init, Len(Read))
    BY <2>1, <2>3
  <2> QED BY <2>1, <2>2, <2>4, ArgsInvPasses, EnvInvPasses, SavedLineShows
<1> QED BY <1>1, <1>2, EarlyNext, SlotsInit, SlotsNext, ConfigNext, PassNext, PTL DEF BootSpec
=============================================================================
