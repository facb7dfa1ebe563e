----------------------------- MODULE MCProgress -----------------------------
(***************************************************************************)
(* An instance for TLC of two components in which something must come to   *)
(* an end: the start of the kernel, and the calls of two tasks on one file *)
(* and a pipe.  They have no variable in common, and each behaviour is one *)
(* of a single component: part.                                            *)
(***************************************************************************)
EXTENDS FileIO, KernelStart

CONSTANTS plain, pipe

Rw == {"READ", "CAN_READ", "WRITE", "CAN_WRITE"}

MCAttr == [f \in File |->
  CASE f = plain -> [mode |-> Rw \cup {"REG", "PREAD", "PWRITE", "LSEEK", "ATOMIC_POS", "LARGEFILE"},
                     inode |-> "a", sb |-> 1, llseek |-> "generic"]
    [] f = pipe  -> [mode |-> Rw \cup {"STREAM"}, inode |-> "p", sb |-> 2, llseek |-> "noop"]]

\* Two arguments fit behind the name of init, one variable behind HOME and TERM.
Lines(options, n) == UNION {[1..k -> options] : k \in 0..n}

A == Option("a", NONE)
B == Option("b", NONE)
InitIs == Option("init", "/x")
E1 == Option("e", "1")
Bootconfig == Option("bootconfig", NONE)

\* Arguments, init= and the dashes in every order, and shorter lines with all
\* kinds of options.
PlainLines == Lines({A, InitIs, Dashes}, 3) \cup {<<A, B>> \o l : l \in Lines({A, InitIs, Dashes}, 3)}
OtherLines == Lines({A, E1, Option("e", "2"), Option("f", "1"), Option("TERM", "vt"), Option("m.x", NONE),
                     Option("quiet", NONE), Option("rdinit", "/r"), Option("initcall_blacklist", {"rootfs"}),
                     Option("initcall_blacklist", {"late", "dev"})}, 2)
ConfigLines == {<<Bootconfig>> \o l : l \in Lines({A, Dashes, InitIs}, 2)} \cup {<<Dashes, Bootconfig>>, <<A, Bootconfig>>}

Plain == [line |-> <<>>, initrd |-> NONE, embedded |-> NONE,
          xbc |-> [parses |-> FALSE, kernel |-> <<>>, init |-> <<>>], initramfs |-> {"/init"}]

\* Boot configurations at the end of the initrd (with padding, a size that
\* does not fit, a bad sum, too large) or built in.
Initrds == {[start |-> 1, end |-> 8, pad |-> 3, size |-> 2, sum |-> TRUE],
            [start |-> 1, end |-> 8, pad |-> 4, size |-> 2, sum |-> TRUE],
            [start |-> 1, end |-> 8, pad |-> 0, size |-> 6, sum |-> TRUE],
            [start |-> 1, end |-> 8, pad |-> 0, size |-> 4, sum |-> TRUE],
            [start |-> 1, end |-> 8, pad |-> 0, size |-> 2, sum |-> FALSE]}
Xbc == [parses |-> TRUE, kernel |-> <<E1>>, init |-> <<B>>]

MCMachine ==
  {[Plain EXCEPT !.line = l] : l \in PlainLines}
  \cup {[Plain EXCEPT !.line = l, !.initramfs = i] : l \in OtherLines, i \in {{}, {"/init", "/r"}}}
  \cup {[Plain EXCEPT !.line = l, !.embedded = 1, !.xbc = Xbc] : l \in ConfigLines}
  \cup {[Plain EXCEPT !.line = <<Bootconfig>>, !.initrd = r, !.embedded = e, !.xbc = [Xbc EXCEPT !.parses = p]] :
          r \in Initrds, e \in {NONE, 2}, p \in BOOLEAN}

MCLevels == << <<"early">>, <<"core", "rootfs">>, <<"dev", "late">> >>

-----------------------------------------------------------------------------
VARIABLE part

allVars == <<part, vars, bootVars>>

AllInit == /\ part \in {"boot", "files"}
           /\ Init /\ (part = "boot" => i_size = [i \in Inode |-> 0])
           /\ BootInit /\ (part = "files" => machine = Plain)

BootPart(step) == part = "boot" /\ step /\ UNCHANGED <<part, vars>>
FilePart(step) == part = "files" /\ step /\ UNCHANGED <<part, bootVars>>

AllNext == BootPart(BootNext) \/ FilePart(Next)

\* Every thread of the kernel that can run is scheduled, until a panic.  A task
\* in a call keeps running; the position lock is a mutex that is handed to its
\* waiters in turn.
AllFairSpec ==
  /\ AllInit /\ [][AllNext]_allVars
  /\ WF_allVars(BootPart(Running /\ BootThread))
  /\ WF_allVars(BootPart(Running /\ KernelInit))
  /\ WF_allVars(BootPart(Running /\ KthreaddServes))
  /\ \A w \in AsyncCalls : WF_allVars(BootPart(Running /\ AsyncRun(w)))
  /\ \A t \in Task : SF_allVars(FilePart(Step(t)))

\* The kernel comes up or says why not: in the end a program runs as init, or
\* the kernel has panicked.
BootEnds == part = "boot" ~> Ended
=============================================================================
