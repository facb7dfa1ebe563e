------------------------------ MODULE MCFileIO ------------------------------
(***************************************************************************)
(* An instance of FileIO for TLC: a file opened twice (once for appending) *)
(* and a pipe.                                                             *)
(***************************************************************************)
EXTENDS FileIO, TLC

CONSTANTS plain, append, pipe

Symmetry == Permutations(Task)

MCOffsets == {-1, 1}

Rw == {"READ", "CAN_READ", "WRITE", "CAN_WRITE"}
Regular == Rw \cup {"REG", "PREAD", "PWRITE", "LSEEK", "ATOMIC_POS"}

MCAttr == [f \in File |->
  CASE f = plain  -> [mode |-> Regular \cup {"LARGEFILE"}, inode |-> "a", sb |-> 1, llseek |-> "generic"]
    [] f = append -> [mode |-> Regular \cup {"LARGEFILE", "APPEND"}, inode |-> "a", sb |-> 1, llseek |-> "default"]
    [] f = pipe   -> [mode |-> Rw \cup {"STREAM"}, inode |-> "p", sb |-> 2, llseek |-> "noop"]]

==============================================================================
