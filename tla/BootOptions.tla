----------------------------- MODULE BootOptions -----------------------------
(***************************************************************************)
(* init/main.c, first part of start_kernel(): the boot configuration in    *)
(* the initrd, the command line, and the options that are handed to init   *)
(* as arguments and environment.  One thread runs; an option is a step.    *)
(*                                                                         *)
(* An option is a record of a parameter and its value (NONE without "=");  *)
(* a command line is a sequence of options without trailing blanks.        *)
(***************************************************************************)
EXTENDS Integers, Sequences, FiniteSets

CONSTANTS Machine,       \* what the boot loader leaves: [line, initrd, embedded, xbc]
          EarlyOption,   \* names of early parameters
          Dotted,        \* names with a dot: parameters of modules
          EnvArgLimit,   \* CONFIG_INIT_ENV_ARG_LIMIT
          ConfigForce,   \* CONFIG_BOOT_CONFIG_FORCE
          HdrLen,        \* BOOTCONFIG_MAGIC_LEN plus size and checksum
          XbcDataMax,    \* XBC_DATA_MAX
          NONE

MAX_INIT_ARGS == EnvArgLimit
MAX_INIT_ENVS == EnvArgLimit

Option(p, v) == [param |-> p, val |-> v]
Dashes == Option("--", NONE)

\* The lines that a machine may be given, and their options.
GivenLines == UNION {{m.line, m.xbc.kernel, m.xbc.init} : m \in Machine}
GivenOptions == UNION {{s[i] : i \in DOMAIN s} : s \in GivenLines}

ASSUME OptionAssumption ==
  /\ EnvArgLimit \in Nat /\ EnvArgLimit >= 2
  /\ HdrLen \in Nat /\ XbcDataMax \in Nat
  /\ ConfigForce \in BOOLEAN
  /\ NONE \notin Nat \cup {"env", "init"}

\* A line is a sequence of options; NONE stands for no option.
ASSUME LineAssumption ==
  /\ \A s \in GivenLines : s \in Seq(GivenOptions)
  /\ NONE \notin GivenOptions \cup {Option("init", NONE), Option("HOME", "/"), Option("TERM", "linux")}

VARIABLES boot,           \* where start_kernel() is
          machine,        \* the element of Machine that boots
          initrd_end,     \* end of the initrd, 0 without one
          extra_command_line, extra_init_args,  \* from the boot configuration, <<>> for NONE
          initargs_offs,  \* place of the init arguments on the command line, or 0
          saved_command_line,
          args,           \* the options that parse_args() has still to read
          argv_init, envp_init, panic_later,
          execute_command, ramdisk_execute_command,
          blacklisted_initcalls

configVars == <<machine, initrd_end, extra_command_line, extra_init_args, initargs_offs, saved_command_line>>
initVars == <<argv_init, envp_init, panic_later>>
programVars == <<execute_command, ramdisk_execute_command, blacklisted_initcalls>>
optionVars == <<boot, configVars, args, initVars, programVars>>

OptionInit ==
  /\ boot = "setup_boot_config"
  /\ machine \in Machine
  /\ initrd_end = IF machine.initrd = NONE THEN 0 ELSE machine.initrd.end
  /\ extra_command_line = <<>> /\ extra_init_args = <<>> /\ initargs_offs = 0
  /\ saved_command_line = <<>> /\ args = <<>>
  /\ argv_init = [i \in 0..MAX_INIT_ARGS+1 |-> IF i = 0 THEN Option("init", NONE) ELSE NONE]
  /\ envp_init = [i \in 0..MAX_INIT_ENVS+1 |-> CASE i = 0 -> Option("HOME", "/")
                                                 [] i = 1 -> Option("TERM", "linux")
                                                 [] OTHER -> NONE]
  /\ panic_later = NONE
  /\ execute_command = NONE /\ ramdisk_execute_command = "/init"
  /\ blacklisted_initcalls = {}

-----------------------------------------------------------------------------
\* What parse_args() reads of a line: it stops behind the first "--".
DashAt(s) == LET at == {i \in DOMAIN s : s[i] = Dashes} IN
             IF at = {} THEN 0 ELSE CHOOSE i \in at : \A j \in at : i <= j
UpToDashes(s) == IF DashAt(s) = 0 THEN s ELSE SubSeq(s, 1, DashAt(s) - 1)
BehindDashes(s) == IF DashAt(s) = 0 THEN <<>> ELSE SubSeq(s, DashAt(s) + 1, Len(s))

\* get_boot_config_from_initrd(): the magic is searched at the end and at the
\* three bytes before it; initrd.pad is the number of bytes behind it.
InitrdData ==
  LET r == machine.initrd
      data == r.end - r.pad - HdrLen - r.size IN
  IF r # NONE /\ r.pad \in 0..3 /\ data >= r.start /\ r.sum THEN data ELSE NONE

\* setup_boot_config(): xbc_make_cmdline() returns NONE also when it gets no
\* memory.
SetupBootConfig ==
  LET line == machine.line
      found == \E i \in DOMAIN UpToDashes(line) : line[i].param = "bootconfig"
      size == IF InitrdData # NONE THEN machine.initrd.size ELSE machine.embedded
      wanted == found \/ ConfigForce
      loaded == wanted /\ (InitrdData # NONE \/ machine.embedded # NONE)
                /\ size < XbcDataMax /\ machine.xbc.parses IN
  /\ boot = "setup_boot_config" /\ boot' = "setup_command_line"
  /\ initrd_end' = IF InitrdData # NONE THEN InitrdData ELSE initrd_end
  /\ initargs_offs' = IF wanted THEN DashAt(line) ELSE 0
  /\ extra_command_line' \in IF loaded THEN {machine.xbc.kernel, <<>>} ELSE {<<>>}
  /\ extra_init_args' \in IF loaded THEN {machine.xbc.init, <<>>} ELSE {<<>>}
  /\ UNCHANGED <<machine, saved_command_line, args, initVars, programVars>>

\* The dashes and the first option without a blank between them: one option,
\* and no separator.
Glue(s) == <<Option("--glued", Head(s).val)>> \o Tail(s)

\* The saved line: the init arguments of the boot configuration stand in front
\* of those of the command line.  They are copied to the place where the
\* arguments of the command line start, and the command line is copied behind
\* them from one byte before that place: a line that ends with the dashes has
\* no blank there, but a dash.
SavedCommandLine ==
  LET line == machine.line
      dash == initargs_offs IN
  extra_command_line \o
  (IF extra_init_args = <<>> THEN line
   ELSE IF dash = 0 THEN line \o <<Dashes>> \o extra_init_args
   ELSE IF dash = Len(line) THEN SubSeq(line, 1, dash - 1) \o Glue(extra_init_args) \o <<Option("-", NONE)>>
   ELSE SubSeq(line, 1, dash) \o extra_init_args \o SubSeq(line, dash + 1, Len(line)))

\* setup_command_line(): panics without memory.
SetupCommandLine ==
  /\ boot = "setup_command_line"
  /\ \/ /\ boot' = "parse_args"
        /\ saved_command_line' = SavedCommandLine
        /\ args' = extra_command_line \o machine.line
     \/ /\ boot' = "panic"
        /\ UNCHANGED <<saved_command_line, args>>
  /\ UNCHANGED <<machine, initrd_end, extra_command_line, extra_init_args, initargs_offs, initVars, programVars>>

-----------------------------------------------------------------------------
\* Where the loops over argv_init and envp_init stop: at an empty slot or at
\* one that holds a parameter of the set params.
Scan(slots, params) ==
  LET stops == {i \in DOMAIN slots : slots[i] = NONE \/ slots[i].param \in params} IN
  CHOOSE i \in stops : \A j \in stops : i <= j

\* Mutant: init= clears all the arguments.
ClearArgsAll(slots) == [i \in DOMAIN slots |-> IF i = 0 THEN slots[i] ELSE NONE]

\* The loop of init_setup() and rdinit_setup().
ClearArgs(slots) == [i \in DOMAIN slots |-> IF i \in 1..MAX_INIT_ARGS-1 THEN NONE ELSE slots[i]]

\* obsolete_checksetup() for the __setup parameters of this file: init_setup,
\* rdinit_setup and initcall_blacklist, which takes a list of functions.
Setup(o) ==
  \/ /\ o.param = "init" /\ o.val # NONE
     /\ execute_command' = o.val
     /\ argv_init' = ClearArgs(argv_init)
     /\ UNCHANGED <<ramdisk_execute_command, blacklisted_initcalls>>
  \/ /\ o.param = "rdinit" /\ o.val # NONE
     /\ ramdisk_execute_command' = o.val
     /\ argv_init' = ClearArgs(argv_init)
     /\ UNCHANGED <<execute_command, blacklisted_initcalls>>
  \/ /\ o.param = "initcall_blacklist" /\ o.val # NONE
     /\ blacklisted_initcalls' = blacklisted_initcalls \cup o.val
     /\ UNCHANGED <<execute_command, ramdisk_execute_command, argv_init>>

IsSetup(o) == o.param \in {"init", "rdinit", "initcall_blacklist"} /\ o.val # NONE
Consumed(o) == IsSetup(o) \/ o.param \in EarlyOption

\* The rest of unknown_bootoption(): a full array is noted in panic_later, and
\* the option is written all the same, into the last slot.
PassToInit(o) ==
  IF o.val # NONE
    THEN LET i == Scan(envp_init, {o.param}) IN
         /\ panic_later' = IF i > MAX_INIT_ENVS \/ (i = MAX_INIT_ENVS /\ envp_init[i] # NONE)
                             THEN "env" ELSE panic_later
         /\ envp_init' = [envp_init EXCEPT ![i] = o]
         /\ UNCHANGED argv_init
    ELSE LET i == Scan(argv_init, {}) IN
         /\ panic_later' = IF i > MAX_INIT_ARGS THEN "init" ELSE panic_later
         /\ argv_init' = [argv_init EXCEPT ![i] = o]
         /\ UNCHANGED envp_init

\* unknown_bootoption()
UnknownBootoption ==
  LET o == Head(args) IN
  /\ boot = "parse_args" /\ args # <<>> /\ o # Dashes
  /\ args' = Tail(args)
  /\ IF IsSetup(o) THEN Setup(o) /\ UNCHANGED <<envp_init, panic_later>>
     ELSE /\ UNCHANGED programVars
          /\ IF Consumed(o) \/ o.param \in Dotted \/ panic_later # NONE
               THEN UNCHANGED initVars ELSE PassToInit(o)
  /\ UNCHANGED <<boot, configVars>>

\* parse_args() returns: behind the dashes the init arguments are next.
MainOptionsRead ==
  /\ boot = "parse_args"
  /\ \/ /\ args = <<>> /\ boot' = "extra_init_args" /\ args' = UpToDashes(extra_init_args)
     \/ /\ args # <<>> /\ Head(args) = Dashes
        /\ boot' = "init_args" /\ args' = UpToDashes(Tail(args))
  /\ UNCHANGED <<configVars, initVars, programVars>>

\* set_init_arg()
SetInitArg ==
  LET i == Scan(argv_init, {}) IN
  /\ boot \in {"init_args", "extra_init_args"} /\ args # <<>>
  /\ args' = Tail(args)
  /\ IF panic_later # NONE THEN UNCHANGED initVars
     ELSE IF i > MAX_INIT_ARGS THEN panic_later' = "init" /\ UNCHANGED <<argv_init, envp_init>>
     ELSE argv_init' = [argv_init EXCEPT ![i] = Head(args)] /\ UNCHANGED <<envp_init, panic_later>>
  /\ UNCHANGED <<boot, configVars, programVars>>

\* The init arguments of the command line are read; those of the boot
\* configuration follow.
InitArgsRead ==
  /\ boot = "init_args" /\ args = <<>>
  /\ boot' = "extra_init_args" /\ args' = UpToDashes(extra_init_args)
  /\ UNCHANGED <<configVars, initVars, programVars>>

\* console_init() and the panic for too many options.
ConsoleInit ==
  /\ boot = "extra_init_args" /\ args = <<>>
  /\ boot' = IF panic_later # NONE THEN "panic" ELSE "rest_init"
  /\ UNCHANGED <<configVars, args, initVars, programVars>>

OptionNext ==
  \/ SetupBootConfig
  \/ SetupCommandLine
  \/ UnknownBootoption
  \/ MainOptionsRead
  \/ SetInitArg
  \/ InitArgsRead
  \/ ConsoleInit

-----------------------------------------------------------------------------
\* All that is read for init: the options of both sources up to the dashes, the
\* init arguments behind them, and the init arguments of the boot configuration.
Line == extra_command_line \o machine.line
OptionsRead == UpToDashes(Line)
Read == OptionsRead \o UpToDashes(BehindDashes(Line)) \o UpToDashes(extra_init_args)

\* The places of its arguments, of init= and rdinit=, and of its variables.
Foreign(o) == ~ Consumed(o) /\ o.param \notin Dotted
ArgsAt == {i \in DOMAIN Read : i > Len(OptionsRead) \/ (Foreign(Read[i]) /\ Read[i].val = NONE)}
ResetsAt == {i \in DOMAIN OptionsRead : Read[i].param \in {"init", "rdinit"} /\ Read[i].val # NONE}
VarsAt == {i \in DOMAIN OptionsRead : Foreign(Read[i]) /\ Read[i].val # NONE}

\* The arguments up to place k that no init= behind them has removed, and the
\* slot of an argument.
Stretch(k) == {p \in ArgsAt : p <= k /\ \A r \in ResetsAt : r <= k => r < p}
Slot(p) == Cardinality(Stretch(p))

\* execve reads the arguments before the first empty slot: those behind the last
\* init= or rdinit=, each in its slot, and behind them, when they fill the slots
\* up to the last, the argument that an earlier stretch left in slot
\* MAX_INIT_ARGS, which init= does not clear.
ArgumentsPassed ==
  LET kept == Stretch(Len(Read))
      old == {p \in ArgsAt \ kept : Slot(p) = MAX_INIT_ARGS}
      back == old # {} /\ Cardinality(kept) = MAX_INIT_ARGS - 1 IN
  /\ \A p \in kept : argv_init[Slot(p)] = Read[p]
  /\ back => \A p \in old : argv_init[MAX_INIT_ARGS] = Read[p]
  /\ Scan(argv_init, {}) = Cardinality(kept) + (IF back THEN 2 ELSE 1)

\* The last value of every variable, over the two defaults.
ExpectedEnv ==
  {Read[i] : i \in {i \in VarsAt : \A j \in VarsAt : Read[j].param = Read[i].param => j <= i}}
  \cup {d \in {Option("HOME", "/"), Option("TERM", "linux")} : \A j \in VarsAt : Read[j].param # d.param}

EnvironmentPassed ==
  LET n == Scan(envp_init, {}) IN
  /\ {envp_init[i] : i \in 0..n-1} = ExpectedEnv
  /\ \A i, j \in 0..n-1 : envp_init[i].param = envp_init[j].param => i = j

\* Behind the dashes saved_command_line shows the init arguments of both
\* sources, those of the boot configuration first; a command line that ends
\* with the dashes hides them.
LineSaved ==
  LET shown == UpToDashes(BehindDashes(saved_command_line))
      glued == extra_init_args # <<>> /\ initargs_offs # 0 /\ initargs_offs = Len(machine.line) IN
  DashAt(extra_command_line) = 0 /\ DashAt(extra_init_args) = 0 =>
    shown = IF glued THEN <<>> ELSE extra_init_args \o UpToDashes(BehindDashes(machine.line))

\* As long as no option was too many the last slot of both arrays is empty, so
\* that the scans of unknown_bootoption() and set_init_arg() end inside.
LastSlotsEmpty ==
  panic_later = NONE => argv_init[MAX_INIT_ARGS + 1] = NONE /\ envp_init[MAX_INIT_ENVS + 1] = NONE

\* When the options have been read and none was too many, init is given exactly
\* the arguments and the environment that the command line and the boot
\* configuration name, and saved_command_line shows them.  Until then the last
\* slot of both arrays is empty, so that the scans end inside, whatever the order
\* of arguments, init= and the init arguments of both sources.  (The comment in
\* init_setup() says that all arguments before init= are ignored; the one in slot
\* MAX_INIT_ARGS is not.)
InitArguments ==
  /\ LastSlotsEmpty
  /\ boot = "rest_init" => ArgumentsPassed /\ EnvironmentPassed /\ LineSaved

==============================================================================
