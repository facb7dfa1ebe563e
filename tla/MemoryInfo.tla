----------------------------- MODULE MemoryInfo -----------------------------
(***************************************************************************)
(* The calls that report the memory of the machine: the call               *)
(* capture_memory_snapshot and its /proc entry, the memory part of the     *)
(* statistics entry (project 1), and sysinfo of kernel/sys.c with its      *)
(* 32-bit variant.  All of them read counters of the memory manager one by *)
(* one, while pages move from one use to another.                          *)
(*                                                                         *)
(* Unsigned longs are modulo LongRange, 32-bit words modulo CompatWord.    *)
(* The fields of sysinfo that are not about memory, and the high memory    *)
(* that 64-bit machines have none of, are left out; so is the copy to the  *)
(* caller, which may fail and changes no state.                            *)
(***************************************************************************)
EXTENDS Integers, Sequences

CONSTANTS Asker,         \* the tasks that ask
          RamPages,      \* sizes of memory
          SwapPages,     \* sizes of swap space
          PageShift,     \* log2 of PAGE_SIZE
          LongRange,     \* 2^64
          CompatWord,    \* 2^32
          Kilo, Mega,    \* the units of the entries, in bytes
          MaxMoves       \* bound on the moves of pages

ASSUME InfoAssumption ==
  /\ PageShift \in Nat
  /\ RamPages \subseteq 1..LongRange - 1 /\ SwapPages \subseteq 0..LongRange - 1
  /\ LongRange \in Nat /\ CompatWord \in 1..LongRange /\ {Kilo, Mega} \subseteq Nat \ {0} /\ MaxMoves \in Nat

PageBytes == 2^PageShift

VARIABLES totalram, totalswap,
          page,          \* how many pages are in each use
          freeswap,
          moves,         \* moves made
          ask            \* the call of each task

infoVars == <<totalram, totalswap, page, freeswap, moves, ask>>

Use == {"free", "active_anon", "inactive_anon", "active_file", "inactive_file", "shmem", "buffers"}

\* The counters: shared memory counts as file pages and as anonymous ones,
\* buffers as file pages.
Counter(c) ==
  CASE c = "NR_FILE_PAGES" -> page["active_file"] + page["inactive_file"] + page["shmem"] + page["buffers"]
    [] c = "NR_SHMEM" -> page["shmem"]
    [] c = "NR_ACTIVE_FILE" -> page["active_file"]
    [] c = "NR_ACTIVE_ANON" -> page["active_anon"]
    [] c = "NR_INACTIVE_FILE" -> page["inactive_file"] + page["buffers"]
    [] c = "NR_INACTIVE_ANON" -> page["inactive_anon"] + page["shmem"]
    [] c = "freeram" -> page["free"]
    [] c = "bufferram" -> page["buffers"]
    [] c = "freeswap" -> freeswap

\* What a call reads, in this order: si_meminfo() first, which leaves the
\* fields on swap space alone.
Meminfo == <<"freeram", "bufferram">>
States == <<"NR_FILE_PAGES", "NR_SHMEM", "NR_ACTIVE_FILE", "NR_ACTIVE_ANON", "NR_INACTIVE_FILE", "NR_INACTIVE_ANON">>
Reads(kind) == CASE kind \in {"snapshot", "entry"} -> Meminfo \o States
                 [] kind \in {"sysinfo", "compat"} -> Meminfo \o <<"freeswap">>
                 [] kind = "statistics" -> Meminfo

Kind == {"snapshot", "entry", "sysinfo", "compat", "statistics"}
NoneRead == [c \in {"freeram", "bufferram", "freeswap"} \cup {States[i] : i \in 1..Len(States)} |-> 0]

\* next is the counter to read next, read what was read and answer the result;
\* during counts the moves since the call was made.
NoAsk == [at |-> "idle", kind |-> "snapshot", next |-> 1, read |-> NoneRead, answer |-> <<>>, during |-> 0]

InfoInit ==
  /\ totalram \in RamPages /\ totalswap \in SwapPages
  /\ page = [u \in Use |-> IF u = "free" THEN totalram - 1 ELSE IF u = "active_file" THEN 1 ELSE 0]
  /\ freeswap = totalswap
  /\ moves = 0
  /\ ask = [a \in Asker |-> NoAsk]

-----------------------------------------------------------------------------
\* The memory manager puts a page to another use, or writes one to swap space.
PageMoves(from, to) ==
  /\ moves < MaxMoves /\ from # to /\ page[from] > 0
  /\ page' = [page EXCEPT ![from] = @ - 1, ![to] = @ + 1]
  /\ \/ freeswap' = freeswap
     \/ from = "inactive_anon" /\ freeswap > 0 /\ freeswap' = freeswap - 1
  /\ moves' = moves + 1
  /\ ask' = [a \in Asker |-> [ask[a] EXCEPT !.during = IF ask[a].at = "idle" THEN 0 ELSE @ + 1]]
  /\ UNCHANGED <<totalram, totalswap>>

Asks(a, kind) ==
  /\ ask[a].at = "idle"
  /\ ask' = [ask EXCEPT ![a] = [NoAsk EXCEPT !.at = "read", !.kind = kind]]
  /\ UNCHANGED <<totalram, totalswap, page, freeswap, moves>>

ReadCounter(a) ==
  LET c == ask[a] IN
  /\ c.at = "read"
  /\ ask' = [ask EXCEPT ![a].read[Reads(c.kind)[c.next]] = Counter(Reads(c.kind)[c.next]),
                        ![a].next = c.next + 1,
                        ![a].at = IF c.next < Len(Reads(c.kind)) THEN "read" ELSE "answer"]
  /\ UNCHANGED <<totalram, totalswap, page, freeswap, moves>>

-----------------------------------------------------------------------------
\* Mutant: shared memory is not taken off.
CacheRamAll(g) == (g["NR_FILE_PAGES"] - g["bufferram"]) % LongRange

\* The page cache without shared memory and buffers: unsigned, so that counters
\* of different moments can wrap it.
CacheRam(g) == (g["NR_FILE_PAGES"] - g["NR_SHMEM"] - g["bufferram"]) % LongRange

\* fill_memory_snapshot(): stack is what the fields on swap space held.
FillMemorySnapshot(g, stack) ==
  [total_ram |-> totalram, free_ram |-> g["freeram"], swap_total |-> stack[1], swap_free |-> stack[2],
   cache_ram |-> CacheRam(g), buffer_ram |-> g["bufferram"],
   active_ram |-> (g["NR_ACTIVE_FILE"] + g["NR_ACTIVE_ANON"]) % LongRange,
   inactive_ram |-> (g["NR_INACTIVE_FILE"] + g["NR_INACTIVE_ANON"]) % LongRange]

\* print_memory_line(): pages as whole megabytes.
PrintMemoryLine(pages) == ((pages * PageBytes) % LongRange) \div Mega

\* fill_mem_snapshot() of the entry: the same figures, in megabytes.
FillMemSnapshot(g) ==
  LET f == FillMemorySnapshot(g, <<0, 0>>) IN [k \in DOMAIN f \ {"swap_total", "swap_free"} |-> PrintMemoryLine(f[k])]

\* Whether doubling a total PageShift times leaves the range of an unsigned long.
Overflows(total) ==
  LET shifted[i \in 0..PageShift] == IF i = 0 THEN total ELSE (shifted[i - 1] * 2) % LongRange IN
  \E i \in 1..PageShift : shifted[i] < shifted[i - 1]

\* Mutant: swap space is not part of the sum.
DoSysinfoRam(g) ==
  LET by == IF Overflows(totalram) THEN 1 ELSE PageBytes IN
  [totalram |-> (totalram * by) % LongRange, freeram |-> (g["freeram"] * by) % LongRange,
   bufferram |-> (g["bufferram"] * by) % LongRange, totalswap |-> (totalswap * by) % LongRange,
   freeswap |-> (g["freeswap"] * by) % LongRange, mem_unit |-> IF by = 1 THEN PageBytes ELSE 1]

\* do_sysinfo(): bytes when ram and swap together fit, pages otherwise.
DoSysinfo(g) ==
  LET mem_total == (totalram + totalswap) % LongRange
      keep == mem_total < totalram \/ mem_total < totalswap \/ Overflows(mem_total)
      by == IF keep THEN 1 ELSE PageBytes IN
  [totalram |-> (totalram * by) % LongRange, freeram |-> (g["freeram"] * by) % LongRange,
   bufferram |-> (g["bufferram"] * by) % LongRange, totalswap |-> (totalswap * by) % LongRange,
   freeswap |-> (g["freeswap"] * by) % LongRange, mem_unit |-> IF keep THEN PageBytes ELSE 1]

\* The 32-bit variant: pages when a total does not fit, cut to 32 bits.
CompatSysinfo(g) ==
  LET s == DoSysinfo(g)
      down == IF s.totalram >= CompatWord \/ s.totalswap >= CompatWord THEN PageBytes \div s.mem_unit ELSE 1 IN
  [k \in DOMAIN s |-> IF k = "mem_unit" THEN s.mem_unit * down ELSE (s[k] \div down) % CompatWord]

\* get_memory_info() of the statistics entry: kilobytes.
GetMemoryInfo(g) == [totalram |-> ((totalram * PageBytes) % LongRange) \div Kilo,
                     freeram |-> ((g["freeram"] * PageBytes) % LongRange) \div Kilo]

\* The answer of a call; stack is arbitrary.
Answers(a, stack) ==
  LET g == ask[a].read
      kind == ask[a].kind IN
  /\ ask[a].at = "answer" /\ (kind # "snapshot" => stack = <<0, 0>>)
  /\ ask' = [ask EXCEPT ![a].at = "done",
       ![a].answer = CASE kind = "snapshot" -> FillMemorySnapshot(g, stack)
                       [] kind = "entry" -> FillMemSnapshot(g)
                       [] kind = "sysinfo" -> DoSysinfo(g)
                       [] kind = "compat" -> CompatSysinfo(g)
                       [] kind = "statistics" -> GetMemoryInfo(g)]
  /\ UNCHANGED <<totalram, totalswap, page, freeswap, moves>>

InfoNext == \/ \E from, to \in Use : PageMoves(from, to)
            \/ \E a \in Asker : \/ \E kind \in Kind : Asks(a, kind)
                                \/ ReadCounter(a)
                                \/ \E stack \in {0, 1} \X {0, 1} : Answers(a, stack)

InfoSpec == InfoInit /\ [][InfoNext]_infoVars

-----------------------------------------------------------------------------
\* Two words are at most n apart, on the circle of unsigned longs.
Near(v, w, n) == (v - w) % LongRange <= n \/ (w - v) % LongRange <= n

\* Although capture_memory_snapshot and its entry read counters that move
\* together one by one, each figure is off by at most one page for every page
\* that moved during the call, and exact when none did.  The cache may so fall
\* below zero and wrap.
SnapshotNear ==
  \A a \in Asker : ask[a].at = "done" =>
    LET s == ask[a].answer
        n == ask[a].during
        cached == page["active_file"] + page["inactive_file"] IN
    /\ ask[a].kind = "snapshot" =>
         /\ Near(s.cache_ram, cached, n)
         /\ Near(s.active_ram, page["active_file"] + page["active_anon"], n)
         /\ Near(s.free_ram + s.active_ram + s.inactive_ram, totalram, n)
    /\ ask[a].kind = "entry" /\ n = 0 /\ totalram * PageBytes < LongRange =>
         s.cache_ram = (cached * PageBytes) \div Mega

\* sysinfo reports amounts of memory exactly, in the unit it names, whatever
\* the sizes of memory and swap space; the 32-bit variant does so as long as
\* they have less than 2^32 pages.
SysinfoExact ==
  \A a \in Asker : ask[a].at = "done" /\ ask[a].kind \in {"sysinfo", "compat"} =>
    LET s == ask[a].answer
        g == ask[a].read IN
    ask[a].kind = "sysinfo" \/ (totalram < CompatWord /\ totalswap < CompatWord) =>
      /\ s.totalram * s.mem_unit = totalram * PageBytes
      /\ s.totalswap * s.mem_unit = totalswap * PageBytes
      /\ s.freeram * s.mem_unit = g["freeram"] * PageBytes
      /\ s.freeswap * s.mem_unit = g["freeswap"] * PageBytes
=============================================================================
