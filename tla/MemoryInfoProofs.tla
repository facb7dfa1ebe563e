-------------------------- MODULE MemoryInfoProofs --------------------------
(***************************************************************************)
(* Proofs about MemoryInfo, for any sizes of memory, swap space, pages and *)
(* words.                                                                  *)
(*                                                                         *)
(* InfoInv says of a call in progress that the figures of what it has      *)
(* read, together with what it would read now, are off by at most one page *)
(* for every page that moved (SeenNear): this is what a move and a read    *)
(* keep.                                                                   *)
(***************************************************************************)
EXTENDS MemoryInfo, TLAPS, FiniteSetTheorems, WellFoundedInduction

\* The time that a leaf may take.
USE SMTT(20), ZenonT(20)

LEMMA Least == ASSUME NEW S \in SUBSET Nat, S # {} PROVE \E n \in S : \A m \in S : n <= m
<1>1. \E x \in S : \A y \in S : ~ (<<y, x>> \in OpToRel(<, Nat))
  BY Zenon, NatLessThanWellFounded, WFMin
<1>2. PICK x \in S : \A y \in S : ~ (y < x)
  BY Zenon, <1>1 DEF OpToRel
<1>3. \A y \in S : x <= y
  BY <1>2
<1> QED BY Zenon, <1>3

-----------------------------------------------------------------------------
\* Division with remainder.
Divides(x, m) == \E q \in Int : \E r \in 0..m-1 : x = q * m + r

LEMMA DivideNat == ASSUME NEW m \in Nat, m # 0 PROVE \A x \in Nat : Divides(x, m)
<1> DEFINE bad == {x \in Nat : ~ Divides(x, m)}
<1>1. bad = {}
  <2> SUFFICES ASSUME bad # {} PROVE FALSE
    OBVIOUS
  <2>1. PICK x \in bad : \A y \in bad : x <= y
    <3>1. bad \in SUBSET Nat
      OBVIOUS
    <3> HIDE DEF bad
    <3> QED BY <3>1, Least
  <2>2. x # 0
    <3>1. 0 = 0 * m + 0 /\ 0 \in 0..m-1
      OBVIOUS
    <3> QED BY <2>1, <3>1 DEF Divides
  <2>3. x - 1 \in Nat /\ x - 1 \notin bad
    BY <2>1, <2>2
  <2>4. PICK q \in Int, r \in 0..m-1 : x - 1 = q * m + r
    BY <2>3 DEF Divides
  <2>5. CASE r < m - 1
    <3>1. x = q * m + (r + 1) /\ r + 1 \in 0..m-1
      BY <2>1, <2>4, <2>5
    <3> QED BY <2>1, <3>1 DEF Divides
  <2>6. CASE r = m - 1
    <3>1. x = (q + 1) * m + 0 /\ q + 1 \in Int /\ 0 \in 0..m-1
      BY <2>1, <2>4, <2>6
    <3> QED BY <2>1, <3>1 DEF Divides
  <2> QED BY <2>5, <2>6
<1> QED BY <1>1

LEMMA DivideInt == ASSUME NEW m \in Nat, m # 0, NEW x \in Int
  PROVE \E q \in Int : \E r \in 0..m-1 : x = q * m + r /\ r = x % m
<1>1. Divides(x, m)
  <2>1. CASE x >= 0
    BY <2>1, DivideNat
  <2>2. CASE x < 0
    <3>1. Divides(-x, m)
      BY <2>2, DivideNat
    <3>2. PICK q \in Int, r \in 0..m-1 : -x = q * m + r
      BY <3>1 DEF Divides
    <3>3. CASE r = 0
      <4>1. x = (-q) * m + 0 /\ -q \in Int /\ 0 \in 0..m-1
        BY <3>2, <3>3
      <4> QED BY Zenon, <4>1 DEF Divides
    <3>4. CASE r # 0
      <4>1. x = (-q - 1) * m + (m - r) /\ -q - 1 \in Int /\ m - r \in 0..m-1
        BY <3>2, <3>4
      <4> QED BY Zenon, <4>1 DEF Divides
    <3> QED BY <3>3, <3>4
  <2> QED BY <2>1, <2>2
<1>2. PICK q \in Int, r \in 0..m-1 : x = q * m + r
  BY <1>1 DEF Divides
<1>3. x % m = r
  BY <1>2
<1> QED BY <1>2, <1>3

\* A multiple of the range does not matter.
LEMMA ModShift == ASSUME NEW m \in Nat, m # 0, NEW x \in Int, NEW k \in Int PROVE (x + k * m) % m = x % m
<1>1. PICK q \in Int, r \in 0..m-1 : x = q * m + r /\ r = x % m
  BY Zenon, DivideInt
<1>3. x + k * m = (q + k) * m + r
  <2>1. (q + k) * m = q * m + k * m
    OBVIOUS
  <2> QED BY <1>1, <2>1
<1>4. ((q + k) * m + r) % m = r
  OBVIOUS
<1> QED BY <1>1, <1>3, <1>4

\* Words that differ from two numbers by multiples of the range are near when
\* the numbers are.
LEMMA NearNumbers ==
  ASSUME LongRange \in Nat, LongRange # 0, NEW v \in Int, NEW w \in Int, NEW n \in Nat, NEW k \in Int,
         v - w <= n, w - v <= n
  PROVE  Near(v + k * LongRange, w, n)
<1>1. PICK d \in Int, e \in Int, j \in Int : d = v - w /\ e = w - v /\ j = -k
  OBVIOUS
<1>2. (d + k * LongRange) % LongRange = d % LongRange /\ (e + j * LongRange) % LongRange = e % LongRange
  BY Zenon, ModShift
<1>3. (v + k * LongRange) - w = d + k * LongRange
  BY <1>1
<1>4. w - (v + k * LongRange) = e + j * LongRange
  <2>1. (-k) * LongRange = -(k * LongRange)
    OBVIOUS
  <2> QED BY <1>1, <2>1
<1>5. CASE d >= 0
  <2>1. d % LongRange <= d /\ d % LongRange \in Int /\ d <= n
    BY <1>1, <1>5
  <2>2. d % LongRange <= n
    BY <2>1
  <2> QED BY <1>2, <1>3, <2>2 DEF Near
<1>6. CASE d < 0
  <2>1. e >= 0 /\ e <= n
    BY <1>1, <1>6
  <2>2. e % LongRange <= e /\ e % LongRange \in Int
    BY <2>1
  <2>3. e % LongRange <= n
    BY <2>1, <2>2
  <2> QED BY <1>2, <1>4, <2>3 DEF Near
<1> QED BY <1>5, <1>6

-----------------------------------------------------------------------------
\* A set has twice as many subsets with one element more.
LEMMA PowerDoubles == ASSUME NEW n \in Nat PROVE 2^(n + 1) = 2 * 2^n /\ 2^n \in Nat
<1> DEFINE S == 1..n
           T == 1..n+1
           P == SUBSET S
           Q == {A \cup {n + 1} : A \in P}
           f == [A \in P |-> A \cup {n + 1}]
<1>1. IsFiniteSet(S) /\ Cardinality(S) = n /\ IsFiniteSet(T) /\ Cardinality(T) = n + 1
  BY FS_Interval
<1>2. IsFiniteSet(P) /\ Cardinality(P) = 2^n /\ IsFiniteSet(SUBSET T) /\ Cardinality(SUBSET T) = 2^(n + 1)
  BY Zenon, <1>1, FS_SUBSET
<1>3. T = S \cup {n + 1} /\ n + 1 \notin S
  OBVIOUS
<1>4. \A A, B \in P : A \cup {n + 1} = B \cup {n + 1} => A = B
  <2> SUFFICES ASSUME NEW A \in P, NEW B \in P, A \cup {n + 1} = B \cup {n + 1} PROVE A = B
    OBVIOUS
  <2>1. n + 1 \notin A /\ n + 1 \notin B
    BY <1>3
  <2>2. A = (A \cup {n + 1}) \ {n + 1} /\ B = (B \cup {n + 1}) \ {n + 1}
    BY Zenon, <2>1
  <2> QED BY <2>2
<1>5. f \in Bijection(P, Q)
  <2>1. f \in [P -> Q] /\ \A A \in P : f[A] = A \cup {n + 1}
    OBVIOUS
  <2> HIDE DEF f, P
  <2>2. \A A, B \in P : f[A] = f[B] => A = B
    BY Zenon, <1>4, <2>1
  <2>3. \A t \in Q : \E A \in P : f[A] = t
    BY Zenon, <2>1
  <2> QED BY <2>1, <2>2, <2>3 DEF Bijection, Injection, Surjection, IsInjective
<1>6. IsFiniteSet(Q) /\ Cardinality(Q) = Cardinality(P)
  BY <1>2, <1>5, FS_Bijection DEF ExistsBijection
<1>7. P \cap Q = {}
  BY <1>3
<1>8. SUBSET T = P \cup Q
  <2>1. \A A \in P : A \in SUBSET T /\ A \cup {n + 1} \in SUBSET T
    BY <1>3
  <2>2. ASSUME NEW A \in SUBSET T PROVE A \in P \cup Q
    <3>1. CASE n + 1 \in A
      <4>1. A \ {n + 1} \in P /\ A = (A \ {n + 1}) \cup {n + 1}
        BY <1>3, <3>1
      <4> QED BY Zenon, <4>1
    <3>2. CASE n + 1 \notin A
      BY <1>3, <3>2
    <3> QED BY <3>1, <3>2
  <2>3. \A A \in P \cup Q : A \in SUBSET T
    BY <2>1
  <2> QED BY Zenon, <2>2, <2>3
<1> HIDE DEF P, Q, S, T
<1>9. Cardinality(P) \in Nat
  BY <1>2, FS_CardinalityType
<1>10. Cardinality(SUBSET T) = Cardinality(P) + Cardinality(Q) - Cardinality({})
  BY <1>2, <1>6, <1>7, <1>8, FS_Union
<1>11. Cardinality({}) = 0
  BY FS_EmptySet
<1>12. PICK c \in Nat : c = Cardinality(P)
  BY <1>9
<1>13. 2^(n + 1) = c + c - 0 /\ 2^n = c
  BY Zenon, <1>2, <1>6, <1>10, <1>11, <1>12
<1> QED BY <1>13

LEMMA PowerPositive == \A n \in Nat : 2^n \in Nat \ {0}
<1> DEFINE bad == {n \in Nat : 2^n = 0}
<1>1. bad = {}
  <2> SUFFICES ASSUME bad # {} PROVE FALSE
    OBVIOUS
  <2>1. PICK n \in bad : \A m \in bad : n <= m
    <3>1. bad \in SUBSET Nat
      OBVIOUS
    <3> HIDE DEF bad
    <3> QED BY <3>1, Least
  <2>2. 2^0 = 1
    OBVIOUS
  <2>3. n # 0
    <3>1. 2^n = 0
      BY <2>1
    <3>2. 1 # 0
      OBVIOUS
    <3> QED BY Zenon, <2>2, <3>1, <3>2
  <2>4. PICK k \in Nat : n = k + 1
    BY <2>1, <2>3
  <2>5. k \notin bad
    BY <2>1, <2>4
  <2>6. 2^n = 2 * 2^k /\ 2^k \in Nat
    BY <2>4, PowerDoubles
  <2> QED BY <2>1, <2>5, <2>6
<1> QED BY Zenon, <1>1, PowerDoubles

-----------------------------------------------------------------------------
\* The counters in the order of the calls.
Order == <<"freeram", "bufferram", "NR_FILE_PAGES", "NR_SHMEM", "NR_ACTIVE_FILE", "NR_ACTIVE_ANON",
           "NR_INACTIVE_FILE", "NR_INACTIVE_ANON">>

LEMMA SnapshotReads ==
  \A kind \in {"snapshot", "entry"} : Len(Reads(kind)) = 8 /\ \A i \in 1..8 : Reads(kind)[i] = Order[i]
<1>1. Len(Meminfo \o States) = 8
  BY DEF Meminfo, States
<1>2. \A i \in 1..8 : (Meminfo \o States)[i] = Order[i]
  BY DEF Meminfo, States, Order
<1> QED BY <1>1, <1>2 DEF Reads

LEMMA SysinfoReads ==
  \A kind \in {"sysinfo", "compat"} :
    Len(Reads(kind)) = 3 /\ Reads(kind)[1] = "freeram" /\ Reads(kind)[2] = "bufferram"
      /\ Reads(kind)[3] = "freeswap"
  BY DEF Reads, Meminfo

LEMMA StatisticsReads ==
  Len(Reads("statistics")) = 2 /\ Reads("statistics")[1] = "freeram" /\ Reads("statistics")[2] = "bufferram"
  BY DEF Reads, Meminfo

Counters == {"freeram", "bufferram", "freeswap", "NR_FILE_PAGES", "NR_SHMEM", "NR_ACTIVE_FILE",
             "NR_ACTIVE_ANON", "NR_INACTIVE_FILE", "NR_INACTIVE_ANON"}

LEMMA NoneReadIs == NoneRead = [c \in Counters |-> 0]
<1>1. {"freeram", "bufferram", "freeswap"} \cup {States[i] : i \in 1..Len(States)} = Counters
  <2>1. Len(States) = 6 /\ \A x : x \in {States[i] : i \in 1..6} <=> x \in
          {"NR_FILE_PAGES", "NR_SHMEM", "NR_ACTIVE_FILE", "NR_ACTIVE_ANON", "NR_INACTIVE_FILE", "NR_INACTIVE_ANON"}
    BY DEF States
  <2> QED BY <2>1 DEF Counters
<1> QED BY Zenon, <1>1 DEF NoneRead

\* The pages of all uses together.
AllPages(pg) == pg["free"] + pg["active_anon"] + pg["inactive_anon"] + pg["active_file"]
                + pg["inactive_file"] + pg["shmem"] + pg["buffers"]

PagesInv ==
  /\ LongRange \in Nat /\ totalram \in 1..LongRange-1 /\ totalswap \in 0..LongRange-1
  /\ freeswap \in 0..totalswap /\ moves \in Nat
  /\ page \in [Use -> Nat] /\ AllPages(page) = totalram

LEMMA PagesInit == InfoInit => PagesInv
<1> SUFFICES ASSUME InfoInit PROVE PagesInv
  OBVIOUS
<1>1. LongRange \in Nat /\ totalram \in 1..LongRange-1 /\ totalswap \in 0..LongRange-1
  BY InfoAssumption DEF InfoInit
<1>2. freeswap \in 0..totalswap /\ moves \in Nat
  BY <1>1 DEF InfoInit
<1>3. page \in [Use -> Nat]
  BY <1>1 DEF InfoInit
<1>4. /\ page["free"] = totalram - 1 /\ page["active_file"] = 1 /\ page["active_anon"] = 0
      /\ page["inactive_anon"] = 0
      /\ page["inactive_file"] = 0 /\ page["shmem"] = 0 /\ page["buffers"] = 0
  BY DEF InfoInit, Use
<1>5. AllPages(page) = totalram
  BY <1>1, <1>4 DEF AllPages
<1> QED BY <1>1, <1>2, <1>3, <1>5 DEF PagesInv

\* One for the use u, nothing for the others.
One(u) == [x \in Use |-> IF x = u THEN 1 ELSE 0]

LEMMA OneSum ==
  ASSUME NEW u \in Use
  PROVE  /\ \A x \in Use : One(u)[x] \in Nat
         /\ AllPages(One(u)) = 1
  BY DEF One, Use, AllPages

LEMMA MovedPages ==
  ASSUME PagesInv, NEW from \in Use, NEW to \in Use, PageMoves(from, to)
  PROVE  /\ \A x \in Use : page'[x] = page[x] + One(to)[x] - One(from)[x] /\ page'[x] \in Nat
         /\ page' \in [Use -> Nat]
<1>1. page \in [Use -> Nat] /\ from # to /\ page[from] > 0 /\ page' = [page EXCEPT ![from] = @ - 1, ![to] = @ + 1]
  BY DEF PagesInv, PageMoves
<1> QED BY <1>1 DEF One

-----------------------------------------------------------------------------
\* The counters on pages, with pg for page.
CounterAt(pg, k) ==
  CASE k = "NR_FILE_PAGES" -> pg["active_file"] + pg["inactive_file"] + pg["shmem"] + pg["buffers"]
    [] k = "NR_SHMEM" -> pg["shmem"]
    [] k = "NR_ACTIVE_FILE" -> pg["active_file"]
    [] k = "NR_ACTIVE_ANON" -> pg["active_anon"]
    [] k = "NR_INACTIVE_FILE" -> pg["inactive_file"] + pg["buffers"]
    [] k = "NR_INACTIVE_ANON" -> pg["inactive_anon"] + pg["shmem"]
    [] k = "freeram" -> pg["free"]
    [] k = "bufferram" -> pg["buffers"]

LEMMA CounterIs == \A k \in Counters \ {"freeswap"} : Counter(k) = CounterAt(page, k)
  BY DEF Counter, CounterAt, Counters

LEMMA CounterBound ==
  ASSUME PagesInv, NEW k \in Counters
  PROVE  /\ Counter(k) \in Nat /\ (k # "freeswap" => Counter(k) <= totalram)
         /\ (k = "freeswap" => Counter(k) <= totalswap)
<1>1. \A u \in Use : page[u] \in Nat
  BY DEF PagesInv
<1>2. /\ page["free"] \in Nat /\ page["active_anon"] \in Nat /\ page["inactive_anon"] \in Nat
      /\ page["active_file"] \in Nat /\ page["inactive_file"] \in Nat
      /\ page["shmem"] \in Nat /\ page["buffers"] \in Nat
  BY <1>1 DEF Use
<1>3. totalram \in Nat /\ AllPages(page) = totalram /\ freeswap \in Nat /\ freeswap <= totalswap
  BY DEF PagesInv
<1> QED BY <1>2, <1>3 DEF Counter, AllPages, Counters

\* What a call in state c sees of counter i: what it has read, or what it would
\* read now.
Seen(c, i, pg) == IF c.next > i THEN c.read[Order[i]] ELSE CounterAt(pg, Order[i])

Close(x, n) == x <= n /\ -n <= x

\* The figures of the snapshot from what the call sees are off by at most one
\* page for every page that moved.
SeenNear(c, pg, tr) ==
  /\ Close(Seen(c, 3, pg) - Seen(c, 4, pg) - Seen(c, 2, pg) - (pg["active_file"] + pg["inactive_file"]), c.during)
  /\ Close(Seen(c, 5, pg) + Seen(c, 6, pg) - (pg["active_file"] + pg["active_anon"]), c.during)
  /\ Close(Seen(c, 1, pg) + Seen(c, 5, pg) + Seen(c, 6, pg) + Seen(c, 7, pg) + Seen(c, 8, pg) - tr, c.during)

AskFields == {"at", "kind", "next", "read", "answer", "during"}

IsAsk(c) ==
  /\ DOMAIN c = AskFields /\ c = [f \in AskFields |-> c[f]]
  /\ c.at \in {"idle", "read", "answer", "done"} /\ c.kind \in Kind /\ c.during \in Nat
  /\ c.read \in [Counters -> Nat]
  /\ c.at = "read" => c.next \in 1..Len(Reads(c.kind))
  /\ c.at \in {"answer", "done"} => c.next = Len(Reads(c.kind)) + 1

ReadBound(c, tr, ts) == (\A k \in Counters \ {"freeswap"} : c.read[k] <= tr) /\ c.read["freeswap"] <= ts

AskOK(c, pg, tr, ts) ==
  /\ IsAsk(c) /\ ReadBound(c, tr, ts)
  /\ c.at # "idle" /\ c.kind \in {"snapshot", "entry"} => SeenNear(c, pg, tr)

\* Names for what is seen.
LEMMA SeenIs ==
  ASSUME NEW c, NEW pg
  PROVE  /\ Seen(c, 1, pg) = IF c.next > 1 THEN c.read["freeram"] ELSE pg["free"]
         /\ Seen(c, 2, pg) = IF c.next > 2 THEN c.read["bufferram"] ELSE pg["buffers"]
         /\ Seen(c, 3, pg) = IF c.next > 3 THEN c.read["NR_FILE_PAGES"]
                             ELSE pg["active_file"] + pg["inactive_file"] + pg["shmem"] + pg["buffers"]
         /\ Seen(c, 4, pg) = IF c.next > 4 THEN c.read["NR_SHMEM"] ELSE pg["shmem"]
         /\ Seen(c, 5, pg) = IF c.next > 5 THEN c.read["NR_ACTIVE_FILE"] ELSE pg["active_file"]
         /\ Seen(c, 6, pg) = IF c.next > 6 THEN c.read["NR_ACTIVE_ANON"] ELSE pg["active_anon"]
         /\ Seen(c, 7, pg) = IF c.next > 7 THEN c.read["NR_INACTIVE_FILE"] ELSE pg["inactive_file"] + pg["buffers"]
         /\ Seen(c, 8, pg) = IF c.next > 8 THEN c.read["NR_INACTIVE_ANON"] ELSE pg["inactive_anon"] + pg["shmem"]
  BY DEF Seen, CounterAt, Order

LEMMA MoveSum ==
  ASSUME NEW pg \in [Use -> Nat], NEW qg \in [Use -> Nat], NEW p \in [Use -> Nat], NEW m \in [Use -> Nat],
         AllPages(p) = 1, AllPages(m) = 1, \A u \in Use : qg[u] = pg[u] + p[u] - m[u]
  PROVE  AllPages(qg) = AllPages(pg)
<1>g. PICK gf, gaa, gia, gaf, gff, gsh, gbu \in Nat :
        /\ gf = pg["free"] /\ gaa = pg["active_anon"] /\ gia = pg["inactive_anon"] /\ gaf = pg["active_file"]
        /\ gff = pg["inactive_file"] /\ gsh = pg["shmem"] /\ gbu = pg["buffers"]
  BY Zenon DEF Use
<1>p. PICK pf, paa, pia, paf, pff, psh, pbu \in Nat :
        /\ pf = p["free"] /\ paa = p["active_anon"] /\ pia = p["inactive_anon"] /\ paf = p["active_file"]
        /\ pff = p["inactive_file"] /\ psh = p["shmem"] /\ pbu = p["buffers"]
  BY Zenon DEF Use
<1>m. PICK mf, maa, mia, maf, mff, msh, mbu \in Nat :
        /\ mf = m["free"] /\ maa = m["active_anon"] /\ mia = m["inactive_anon"] /\ maf = m["active_file"]
        /\ mff = m["inactive_file"] /\ msh = m["shmem"] /\ mbu = m["buffers"]
  BY Zenon DEF Use
<1>1. /\ qg["free"] = gf + pf - mf /\ qg["active_anon"] = gaa + paa - maa /\ qg["inactive_anon"] = gia + pia - mia
      /\ qg["active_file"] = gaf + paf - maf /\ qg["inactive_file"] = gff + pff - mff
      /\ qg["shmem"] = gsh + psh - msh /\ qg["buffers"] = gbu + pbu - mbu
  BY <1>g, <1>p, <1>m DEF Use
<1>2. pf + paa + pia + paf + pff + psh + pbu = 1 /\ mf + maa + mia + maf + mff + msh + mbu = 1
  BY <1>p, <1>m DEF AllPages
<1>3. AllPages(pg) = gf + gaa + gia + gaf + gff + gsh + gbu
  BY <1>g DEF AllPages
<1>4. AllPages(qg) = (gf + pf - mf) + (gaa + paa - maa) + (gia + pia - mia) + (gaf + paf - maf)
                     + (gff + pff - mff) + (gsh + psh - msh) + (gbu + pbu - mbu)
  BY <1>1 DEF AllPages
<1> QED BY <1>2, <1>3, <1>4

\* A move brings each figure at most one page farther away.
\* pg has become qg, with the page p put to use and the page m taken.
Change(pg, qg, p, m) ==
  /\ pg \in [Use -> Nat] /\ qg \in [Use -> Nat] /\ p \in [Use -> Nat] /\ m \in [Use -> Nat]
  /\ AllPages(p) = 1 /\ AllPages(m) = 1 /\ \A u \in Use : qg[u] = pg[u] + p[u] - m[u]

\* The call c has seen one move more as d.
Later(c, d) ==
  /\ c.next \in 1..9 /\ d.next = c.next /\ c.read \in [Counters -> Nat] /\ d.read = c.read
  /\ c.during \in Nat /\ d.during = c.during + 1

LEMMA MoveNear ==
  \A pg, qg, p, m, c, d : \A tr \in Nat :
    Change(pg, qg, p, m) /\ Later(c, d) /\ SeenNear(c, pg, tr) => SeenNear(d, qg, tr)
<1> SUFFICES ASSUME NEW pg, NEW qg, NEW p, NEW m, NEW c, NEW d, NEW tr \in Nat,
                    Change(pg, qg, p, m), Later(c, d), SeenNear(c, pg, tr)
             PROVE  SeenNear(d, qg, tr)
  OBVIOUS
<1> USE DEF Change, Later
<1> DEFINE S(f) == f["free"] \in Nat /\ f["active_anon"] \in Nat /\ f["inactive_anon"] \in Nat
                   /\ f["active_file"] \in Nat /\ f["inactive_file"] \in Nat
                   /\ f["shmem"] \in Nat /\ f["buffers"] \in Nat
<1>1. S(pg) /\ S(qg) /\ S(p) /\ S(m)
  BY DEF Use
<1>2. /\ qg["free"] = pg["free"] + p["free"] - m["free"]
      /\ qg["active_anon"] = pg["active_anon"] + p["active_anon"] - m["active_anon"]
      /\ qg["inactive_anon"] = pg["inactive_anon"] + p["inactive_anon"] - m["inactive_anon"]
      /\ qg["active_file"] = pg["active_file"] + p["active_file"] - m["active_file"]
      /\ qg["inactive_file"] = pg["inactive_file"] + p["inactive_file"] - m["inactive_file"]
      /\ qg["shmem"] = pg["shmem"] + p["shmem"] - m["shmem"]
      /\ qg["buffers"] = pg["buffers"] + p["buffers"] - m["buffers"]
  BY DEF Use
<1>3. \A k \in Counters : c.read[k] \in Nat
  OBVIOUS
<1>r. PICK r1, r2, r3, r4, r5, r6, r7, r8 \in Nat :
        /\ r1 = c.read["freeram"] /\ r2 = c.read["bufferram"] /\ r3 = c.read["NR_FILE_PAGES"]
        /\ r4 = c.read["NR_SHMEM"] /\ r5 = c.read["NR_ACTIVE_FILE"] /\ r6 = c.read["NR_ACTIVE_ANON"]
        /\ r7 = c.read["NR_INACTIVE_FILE"] /\ r8 = c.read["NR_INACTIVE_ANON"]
  BY Zenon, <1>3 DEF Counters
<1>n. PICK n \in Nat, x \in 1..9 : n = c.during /\ x = c.next
  OBVIOUS
<1>g. PICK gf, gaa, gia, gaf, gff, gsh, gbu \in Nat :
        /\ gf = pg["free"] /\ gaa = pg["active_anon"] /\ gia = pg["inactive_anon"] /\ gaf = pg["active_file"]
        /\ gff = pg["inactive_file"] /\ gsh = pg["shmem"] /\ gbu = pg["buffers"]
  BY Zenon, <1>1
<1>p. PICK pf, paa, pia, paf, pff, psh, pbu \in Nat :
        /\ pf = p["free"] /\ paa = p["active_anon"] /\ pia = p["inactive_anon"] /\ paf = p["active_file"]
        /\ pff = p["inactive_file"] /\ psh = p["shmem"] /\ pbu = p["buffers"]
  BY Zenon, <1>1
<1>m. PICK mf, maa, mia, maf, mff, msh, mbu \in Nat :
        /\ mf = m["free"] /\ maa = m["active_anon"] /\ mia = m["inactive_anon"] /\ maf = m["active_file"]
        /\ mff = m["inactive_file"] /\ msh = m["shmem"] /\ mbu = m["buffers"]
  BY Zenon, <1>1
<1>q. /\ qg["free"] = gf + pf - mf /\ qg["active_anon"] = gaa + paa - maa /\ qg["inactive_anon"] = gia + pia - mia
      /\ qg["active_file"] = gaf + paf - maf /\ qg["inactive_file"] = gff + pff - mff
      /\ qg["shmem"] = gsh + psh - msh /\ qg["buffers"] = gbu + pbu - mbu
  BY <1>2, <1>g, <1>p, <1>m
<1>s. pf + paa + pia + paf + pff + psh + pbu = 1 /\ mf + maa + mia + maf + mff + msh + mbu = 1
  BY <1>p, <1>m DEF AllPages
<1>c. /\ Seen(c, 1, pg) = IF x > 1 THEN r1 ELSE gf
      /\ Seen(c, 2, pg) = IF x > 2 THEN r2 ELSE gbu
      /\ Seen(c, 3, pg) = IF x > 3 THEN r3 ELSE gaf + gff + gsh + gbu
      /\ Seen(c, 4, pg) = IF x > 4 THEN r4 ELSE gsh
      /\ Seen(c, 5, pg) = IF x > 5 THEN r5 ELSE gaf
      /\ Seen(c, 6, pg) = IF x > 6 THEN r6 ELSE gaa
      /\ Seen(c, 7, pg) = IF x > 7 THEN r7 ELSE gff + gbu
      /\ Seen(c, 8, pg) = IF x > 8 THEN r8 ELSE gia + gsh
  BY <1>g, <1>r, <1>n, SeenIs
<1>z. /\ d.next = x /\ r1 = d.read["freeram"] /\ r2 = d.read["bufferram"] /\ r3 = d.read["NR_FILE_PAGES"]
      /\ r4 = d.read["NR_SHMEM"] /\ r5 = d.read["NR_ACTIVE_FILE"] /\ r6 = d.read["NR_ACTIVE_ANON"]
      /\ r7 = d.read["NR_INACTIVE_FILE"] /\ r8 = d.read["NR_INACTIVE_ANON"]
  BY <1>r, <1>n
<1>d. /\ Seen(d, 1, qg) = IF x > 1 THEN r1 ELSE gf + pf - mf
      /\ Seen(d, 2, qg) = IF x > 2 THEN r2 ELSE gbu + pbu - mbu
      /\ Seen(d, 4, qg) = IF x > 4 THEN r4 ELSE gsh + psh - msh
  BY <1>q, <1>z, SeenIs
<1>e. /\ Seen(d, 3, qg) = IF x > 3 THEN r3 ELSE (gaf + paf - maf) + (gff + pff - mff)
                                           + (gsh + psh - msh) + (gbu + pbu - mbu)
  BY <1>q, <1>z, SeenIs
<1>f. /\ Seen(d, 5, qg) = IF x > 5 THEN r5 ELSE gaf + paf - maf
      /\ Seen(d, 6, qg) = IF x > 6 THEN r6 ELSE gaa + paa - maa
  BY <1>q, <1>z, SeenIs
<1>h. /\ Seen(d, 7, qg) = IF x > 7 THEN r7 ELSE (gff + pff - mff) + (gbu + pbu - mbu)
      /\ Seen(d, 8, qg) = IF x > 8 THEN r8 ELSE (gia + pia - mia) + (gsh + psh - msh)
  BY <1>q, <1>z, SeenIs
<1>4. Close(Seen(d, 3, qg) - Seen(d, 4, qg) - Seen(d, 2, qg) - (qg["active_file"] + qg["inactive_file"]), n + 1)
  <2>1. Close(Seen(c, 3, pg) - Seen(c, 4, pg) - Seen(c, 2, pg) - (pg["active_file"] + pg["inactive_file"]), n)
    BY <1>n DEF SeenNear
  <2>2. Close((IF x > 3 THEN r3 ELSE gaf + gff + gsh + gbu)
              - (IF x > 4 THEN r4 ELSE gsh)
              - (IF x > 2 THEN r2 ELSE gbu)
              - (gaf + gff), n)
    BY <1>c, <1>g, <2>1
  <2>3. Close((IF x > 3 THEN r3 ELSE (gaf + paf - maf) + (gff + pff - mff) + (gsh + psh - msh) + (gbu + pbu - mbu))
              - (IF x > 4 THEN r4 ELSE gsh + psh - msh)
              - (IF x > 2 THEN r2 ELSE gbu + pbu - mbu)
              - ((gaf + paf - maf) + (gff + pff - mff)), n + 1)
    BY <1>s, <2>2 DEF Close
  <2> QED BY Zenon, <1>d, <1>e, <1>f, <1>h, <1>q, <2>3
<1>5. Close(Seen(d, 5, qg) + Seen(d, 6, qg) - (qg["active_file"] + qg["active_anon"]), n + 1)
  <2>1. Close(Seen(c, 5, pg) + Seen(c, 6, pg) - (pg["active_file"] + pg["active_anon"]), n)
    BY <1>n DEF SeenNear
  <2>2. Close((IF x > 5 THEN r5 ELSE gaf)
              + (IF x > 6 THEN r6 ELSE gaa)
              - (gaf + gaa), n)
    BY <1>c, <1>g, <2>1
  <2>3. Close((IF x > 5 THEN r5 ELSE gaf + paf - maf)
              + (IF x > 6 THEN r6 ELSE gaa + paa - maa)
              - ((gaf + paf - maf) + (gaa + paa - maa)), n + 1)
    BY <1>s, <2>2 DEF Close
  <2> QED BY Zenon, <1>d, <1>e, <1>f, <1>h, <1>q, <2>3
<1>6. Close(Seen(d, 1, qg) + Seen(d, 5, qg) + Seen(d, 6, qg) + Seen(d, 7, qg) + Seen(d, 8, qg) - tr, n + 1)
  <2>1. Close(Seen(c, 1, pg) + Seen(c, 5, pg) + Seen(c, 6, pg) + Seen(c, 7, pg) + Seen(c, 8, pg) - tr, n)
    BY <1>n DEF SeenNear
  <2>2. Close((IF x > 1 THEN r1 ELSE gf)
              + (IF x > 5 THEN r5 ELSE gaf)
              + (IF x > 6 THEN r6 ELSE gaa)
              + (IF x > 7 THEN r7 ELSE gff + gbu)
              + (IF x > 8 THEN r8 ELSE gia + gsh)
              - (tr), n)
    BY <1>c, <1>g, <2>1
  <2>3. Close((IF x > 1 THEN r1 ELSE gf + pf - mf)
              + (IF x > 5 THEN r5 ELSE gaf + paf - maf)
              + (IF x > 6 THEN r6 ELSE gaa + paa - maa)
              + (IF x > 7 THEN r7 ELSE (gff + pff - mff) + (gbu + pbu - mbu))
              + (IF x > 8 THEN r8 ELSE (gia + pia - mia) + (gsh + psh - msh))
              - (tr), n + 1)
    BY <1>s, <2>2 DEF Close
  <2> QED BY <1>d, <1>e, <1>f, <1>h, <1>q, <2>3
<1> QED BY <1>n, <1>4, <1>5, <1>6 DEF SeenNear

-----------------------------------------------------------------------------
\* The fields of a call that a move, a read or an answer leaves.
LEMMA MovedAsk ==
  ASSUME NEW c, IsAsk(c), NEW n \in Nat, NEW d, d = [c EXCEPT !.during = n]
  PROVE  /\ IsAsk(d) /\ d.during = n
         /\ d.at = c.at /\ d.kind = c.kind /\ d.next = c.next /\ d.read = c.read /\ d.answer = c.answer
<1>1. /\ DOMAIN d = AskFields /\ d = [f \in AskFields |-> d[f]] /\ d.during = n
      /\ d.at = c.at /\ d.kind = c.kind /\ d.next = c.next /\ d.read = c.read /\ d.answer = c.answer
  BY Zenon DEF IsAsk, AskFields
<1> QED BY <1>1 DEF IsAsk

Calls(f) == f = [a \in Asker |-> f[a]]

\* The call of a has read v from counter k.
ReadOf(f, a, k, v, n, t) == [f EXCEPT ![a].read[k] = v, ![a].next = n, ![a].at = t]

AfterRead(f, g, a, k, v, n, t) ==
  /\ Calls(g) /\ \A b \in Asker : b # a => g[b] = f[b]
  /\ DOMAIN g[a] = AskFields /\ g[a] = [x \in AskFields |-> g[a][x]]
  /\ g[a].at = t /\ g[a].next = n /\ g[a].read = [f[a].read EXCEPT ![k] = v]
  /\ g[a].kind = f[a].kind /\ g[a].during = f[a].during /\ g[a].answer = f[a].answer

LEMMA ReadAsk ==
  \A f, v, n, t : \A a \in Asker : \A k \in Counters :
    Calls(f) /\ IsAsk(f[a]) => AfterRead(f, ReadOf(f, a, k, v, n, t), a, k, v, n, t)
<1> SUFFICES ASSUME NEW f, NEW v, NEW n, NEW t, NEW a \in Asker, NEW k \in Counters, Calls(f), IsAsk(f[a])
             PROVE  AfterRead(f, ReadOf(f, a, k, v, n, t), a, k, v, n, t)
  OBVIOUS
<1>g. PICK g : g = ReadOf(f, a, k, v, n, t)
  OBVIOUS
<1>2. g = [f EXCEPT ![a].read[k] = v, ![a].next = n, ![a].at = t]
  BY <1>g DEF ReadOf
<1>1. DOMAIN f[a] = AskFields /\ f[a] = [x \in AskFields |-> f[a][x]]
  BY DEF IsAsk
<1>3. AfterRead(f, g, a, k, v, n, t)
  BY Zenon, <1>1, <1>2 DEF AskFields, AfterRead, Calls
<1> QED BY <1>g, <1>3

\* The call of a has returned v.
AnswerOf(f, a, v) == [f EXCEPT ![a].at = "done", ![a].answer = v]

AfterAnswer(f, g, a, v) ==
  /\ Calls(g) /\ \A b \in Asker : b # a => g[b] = f[b]
  /\ DOMAIN g[a] = AskFields /\ g[a] = [x \in AskFields |-> g[a][x]]
  /\ g[a].at = "done" /\ g[a].answer = v
  /\ g[a].next = f[a].next /\ g[a].read = f[a].read
  /\ g[a].kind = f[a].kind /\ g[a].during = f[a].during

LEMMA AnsweredAsk ==
  \A f, v : \A a \in Asker : Calls(f) /\ IsAsk(f[a]) => AfterAnswer(f, AnswerOf(f, a, v), a, v)
<1> SUFFICES ASSUME NEW f, NEW v, NEW a \in Asker, Calls(f), IsAsk(f[a])
             PROVE  AfterAnswer(f, AnswerOf(f, a, v), a, v)
  OBVIOUS
<1>g. PICK g : g = AnswerOf(f, a, v)
  OBVIOUS
<1>2. g = [f EXCEPT ![a].at = "done", ![a].answer = v]
  BY <1>g DEF AnswerOf
<1>1. DOMAIN f[a] = AskFields /\ f[a] = [x \in AskFields |-> f[a][x]]
  BY DEF IsAsk
<1>3. AfterAnswer(f, g, a, v)
  BY Zenon, <1>1, <1>2 DEF AskFields, AfterAnswer, Calls
<1> QED BY <1>g, <1>3

-----------------------------------------------------------------------------
AsksInv == Calls(ask) /\ \A a \in Asker : AskOK(ask[a], page, totalram, totalswap)

LEMMA ReadsLen == \A kind \in Kind : Len(Reads(kind)) \in 2..8
  /\ \A i \in 1..Len(Reads(kind)) : Reads(kind)[i] \in Counters
<1>1. \A i \in 1..8 : Order[i] \in Counters
  BY DEF Order, Counters
<1>2. \A kind \in {"snapshot", "entry"} :
        Len(Reads(kind)) \in 2..8 /\ \A i \in 1..Len(Reads(kind)) : Reads(kind)[i] \in Counters
  BY <1>1, SnapshotReads
<1>3. \A kind \in {"sysinfo", "compat"} :
        Len(Reads(kind)) \in 2..8 /\ \A i \in 1..Len(Reads(kind)) : Reads(kind)[i] \in Counters
  <2>1. \A i \in 1..3 : i = 1 \/ i = 2 \/ i = 3
    OBVIOUS
  <2> QED BY <2>1, SysinfoReads DEF Counters
<1>4. Len(Reads("statistics")) \in 2..8 /\ \A i \in 1..Len(Reads("statistics")) :
      Reads("statistics")[i] \in Counters
  <2>1. \A i \in 1..2 : i = 1 \/ i = 2
    OBVIOUS
  <2> QED BY <2>1, StatisticsReads DEF Counters
<1> QED BY <1>2, <1>3, <1>4 DEF Kind

LEMMA MovePreserves ==
  ASSUME PagesInv, AsksInv, NEW from \in Use, NEW to \in Use, PageMoves(from, to)
  PROVE  PagesInv' /\ AsksInv'
<1>1. /\ \A x \in Use : page'[x] = page[x] + One(to)[x] - One(from)[x] /\ page'[x] \in Nat
      /\ page' \in [Use -> Nat]
  BY MovedPages
<1>2. One(to) \in [Use -> Nat] /\ One(from) \in [Use -> Nat]
  BY DEF One
<1>3. UNCHANGED <<totalram, totalswap>> /\ moves' = moves + 1
      /\ (freeswap' = freeswap \/ (freeswap > 0 /\ freeswap' = freeswap - 1))
  BY DEF PageMoves
<1>p. PICK p, m \in [Use -> Nat] : p = One(to) /\ m = One(from)
  BY <1>2
<1>s. AllPages(p) = 1 /\ AllPages(m) = 1
  BY <1>p, OneSum
<1>q. \A u \in Use : page'[u] = page[u] + p[u] - m[u]
  BY <1>1, <1>p
<1>4. AllPages(page') = totalram
  <2>1. page \in [Use -> Nat] /\ AllPages(page) = totalram
    BY DEF PagesInv
  <2>2. PICK pg, qg : pg = page /\ qg = page'
    OBVIOUS
  <2>3. AllPages(qg) = AllPages(pg)
    BY <1>1, <1>s, <1>q, <2>1, <2>2, MoveSum
  <2> QED BY <2>1, <2>2, <2>3
<1>5. PagesInv'
  BY <1>1, <1>3, <1>4 DEF PagesInv
<1>6. ask' = [a \in Asker |-> [ask[a] EXCEPT !.during = IF ask[a].at = "idle" THEN 0 ELSE @ + 1]]
  BY DEF PageMoves
<1>7. Calls(ask')
  BY <1>6 DEF Calls
<1>8. ASSUME NEW a \in Asker PROVE AskOK(ask'[a], page', totalram, totalswap)
  <2>1. PICK c : c = ask[a]
    OBVIOUS
  <2>2. PICK n : n = IF c.at = "idle" THEN 0 ELSE c.during + 1
    OBVIOUS
  <2>3. PICK d : d = ask'[a] /\ d = [c EXCEPT !.during = n]
    BY <1>6, <1>8, <2>1, <2>2
  <2>4. AskOK(c, page, totalram, totalswap)
    BY <2>1 DEF AsksInv
  <2>5. IsAsk(c) /\ n \in Nat
    BY <2>2, <2>4 DEF AskOK, IsAsk
  <2>6. /\ IsAsk(d) /\ d.during = n
        /\ d.at = c.at /\ d.kind = c.kind /\ d.next = c.next /\ d.read = c.read /\ d.answer = c.answer
    BY <2>3, <2>5, MovedAsk
  <2>7. ReadBound(d, totalram, totalswap)
    BY <2>4, <2>6 DEF AskOK, ReadBound
  <2>8. ASSUME d.at # "idle", d.kind \in {"snapshot", "entry"} PROVE SeenNear(d, page', totalram)
    <3>1. SeenNear(c, page, totalram)
      BY <2>4, <2>6, <2>8 DEF AskOK
    <3>2. c.next \in 1..9
      <4>1. Len(Reads(c.kind)) = 8
        BY <2>6, <2>8, SnapshotReads
      <4>2. c.at = "read" \/ c.at \in {"answer", "done"}
        BY <2>5, <2>6, <2>8 DEF IsAsk
      <4>3. c.next \in 1..Len(Reads(c.kind)) \/ c.next = Len(Reads(c.kind)) + 1
        BY <2>5, <4>2 DEF IsAsk
      <4> QED BY <4>1, <4>3
    <3>3. c.read \in [Counters -> Nat] /\ c.during \in Nat /\ d.during = c.during + 1
      BY <2>2, <2>5, <2>6, <2>8 DEF IsAsk
    <3>4. page \in [Use -> Nat] /\ totalram \in Nat
      BY DEF PagesInv
    <3>5. PICK pg, qg, tr : pg = page /\ qg = page' /\ tr = totalram
      OBVIOUS
    <3>6. Change(pg, qg, p, m)
      BY <1>1, <1>p, <1>q, <1>s, <3>4, <3>5 DEF Change
    <3>7. Later(c, d)
      BY <2>6, <3>2, <3>3 DEF Later
    <3>8. SeenNear(d, qg, tr)
      BY Zenon, <3>1, <3>4, <3>5, <3>6, <3>7, MoveNear
    <3> QED BY <3>5, <3>8
  <2>9. AskOK(d, page', totalram, totalswap)
    BY <2>6, <2>7, <2>8 DEF AskOK
  <2> QED BY <2>3, <2>9
<1>9. AsksInv'
  BY <1>3, <1>7, <1>8 DEF AsksInv
<1> QED BY <1>5, <1>9

-----------------------------------------------------------------------------
LEMMA NoAskIs ==
  /\ IsAsk(NoAsk) /\ NoAsk.at = "idle" /\ NoAsk.next = 1 /\ NoAsk.during = 0
  /\ NoAsk.read \in [Counters -> Nat] /\ \A k \in Counters : NoAsk.read[k] = 0
<1>1. /\ NoAsk.at = "idle" /\ NoAsk.next = 1 /\ NoAsk.during = 0 /\ NoAsk.kind = "snapshot"
      /\ NoAsk.read = NoneRead /\ DOMAIN NoAsk = AskFields
  BY DEF NoAsk, AskFields
<1>2. NoneRead \in [Counters -> Nat] /\ \A k \in Counters : NoneRead[k] = 0
  BY NoneReadIs
<1>3. NoAsk = [f \in AskFields |-> NoAsk[f]]
  BY DEF NoAsk, AskFields
<1> QED BY <1>1, <1>2, <1>3 DEF IsAsk, Kind

\* Nothing has moved: what a call sees is exact.
LEMMA SeenExact ==
  ASSUME NEW c, NEW pg \in [Use -> Nat], c.next = 1, c.during = 0 PROVE SeenNear(c, pg, AllPages(pg))
<1>1. PICK gf, gaa, gia, gaf, gff, gsh, gbu \in Nat :
        /\ gf = pg["free"] /\ gaa = pg["active_anon"] /\ gia = pg["inactive_anon"] /\ gaf = pg["active_file"]
        /\ gff = pg["inactive_file"] /\ gsh = pg["shmem"] /\ gbu = pg["buffers"]
  BY Zenon DEF Use
<1>2. AllPages(pg) = gf + gaa + gia + gaf + gff + gsh + gbu
  BY <1>1 DEF AllPages
<1>3. /\ Seen(c, 1, pg) = gf /\ Seen(c, 2, pg) = gbu /\ Seen(c, 3, pg) = gaf + gff + gsh + gbu
      /\ Seen(c, 4, pg) = gsh
      /\ Seen(c, 5, pg) = gaf /\ Seen(c, 6, pg) = gaa /\ Seen(c, 7, pg) = gff + gbu /\ Seen(c, 8, pg) = gia + gsh
  BY <1>1, SeenIs
<1>4. /\ Close((gaf + gff + gsh + gbu) - gsh - gbu - (gaf + gff), 0) /\ Close(gaf + gaa - (gaf + gaa), 0)
      /\ Close(gf + gaf + gaa + (gff + gbu) + (gia + gsh) - (gf + gaa + gia + gaf + gff + gsh + gbu), 0)
  BY DEF Close
<1> HIDE DEF Close
<1> QED BY <1>1, <1>2, <1>3, <1>4 DEF SeenNear

LEMMA AskPreserves ==
  ASSUME PagesInv, AsksInv, NEW a \in Asker, NEW kind \in Kind, Asks(a, kind)
  PROVE  AsksInv'
<1>1. PICK d : d = [NoAsk EXCEPT !.at = "read", !.kind = kind]
  OBVIOUS
<1>2. /\ ask' = [ask EXCEPT ![a] = d] /\ UNCHANGED <<totalram, totalswap, page>>
  BY <1>1 DEF Asks
<1>3. /\ DOMAIN d = AskFields /\ d = [f \in AskFields |-> d[f]] /\ d.at = "read" /\ d.kind = kind /\ d.next = 1
      /\ d.during = 0 /\ d.read = NoAsk.read
  BY Zenon, <1>1, NoAskIs DEF IsAsk, AskFields
<1>4. IsAsk(d)
  <2>1. d.next \in 1..Len(Reads(d.kind))
    <3>1. PICK len : len = Len(Reads(kind))
      BY Zenon
    <3>2. len \in 2..8
      BY Zenon, <3>1, ReadsLen
    <3> QED BY <1>3, <3>1, <3>2
  <2> QED BY <1>3, <2>1, NoAskIs DEF IsAsk
<1>5. ReadBound(d, totalram, totalswap)
  BY <1>3, NoAskIs DEF ReadBound, PagesInv, Counters
<1>6. SeenNear(d, page, totalram)
  BY <1>3, SeenExact DEF PagesInv
<1>7. AskOK(d, page, totalram, totalswap)
  BY <1>4, <1>5, <1>6 DEF AskOK
<1>8. /\ Calls(ask') /\ ask'[a] = d /\ \A b \in Asker : b # a => ask'[b] = ask[b]
  BY <1>2 DEF AsksInv, Calls
<1>9. ASSUME NEW b \in Asker PROVE AskOK(ask'[b], page', totalram', totalswap')
  <2>1. CASE b = a
    BY <1>2, <1>7, <1>8, <2>1
  <2>2. CASE b # a
    BY <1>2, <1>8, <2>2 DEF AsksInv
  <2> QED BY <2>1, <2>2
<1> QED BY <1>8, <1>9 DEF AsksInv

\* A read does not change what a call sees.
SeesOne(c, d, pg, n) ==
  /\ n \in 1..8 /\ c.next = n /\ d.next = n + 1 /\ c.read \in [Counters -> Nat]
  /\ d.read = [c.read EXCEPT ![Order[n]] = CounterAt(pg, Order[n])]

LEMMA ReadSees ==
  \A c, d, pg, n : SeesOne(c, d, pg, n) => \A i \in 1..8 : Seen(d, i, pg) = Seen(c, i, pg)
<1> SUFFICES ASSUME NEW c, NEW d, NEW pg, NEW n, SeesOne(c, d, pg, n), NEW i \in 1..8
             PROVE  Seen(d, i, pg) = Seen(c, i, pg)
  OBVIOUS
<1> USE DEF SeesOne
<1>1. Order[i] \in Counters /\ Order[n] \in Counters
  BY DEF Order, Counters
<1>2. CASE i = n
  BY <1>1, <1>2 DEF Seen
<1>3. CASE i # n
  <2>1. Order[i] # Order[n]
    BY <1>3 DEF Order
  <2>2. d.read[Order[i]] = c.read[Order[i]]
    BY <1>1, <2>1
  <2>3. n > i <=> n + 1 > i
    BY <1>3
  <2> QED BY <2>2, <2>3 DEF Seen
<1> QED BY <1>2, <1>3

LEMMA ReadPreserves ==
  ASSUME PagesInv, AsksInv, NEW a \in Asker, ReadCounter(a)
  PROVE  AsksInv'
<1>1. PICK c : c = ask[a]
  OBVIOUS
<1>2. AskOK(c, page, totalram, totalswap) /\ IsAsk(c) /\ c.at = "read"
  BY <1>1 DEF AsksInv, AskOK, ReadCounter
<1>3. PICK len : len = Len(Reads(c.kind))
  BY Zenon
<1>4. c.kind \in Kind /\ len \in 2..8 /\ c.next \in 1..len /\ Reads(c.kind)[c.next] \in Counters
  BY <1>2, <1>3, ReadsLen DEF IsAsk
<1>5. PICK k \in Counters : k = Reads(c.kind)[c.next]
  BY <1>4
<1>6. PICK v, n, t : v = Counter(k) /\ n = c.next + 1 /\ t = IF c.next < len THEN "read" ELSE "answer"
  OBVIOUS
<1>7. ask' = ReadOf(ask, a, k, v, n, t) /\ UNCHANGED <<totalram, totalswap, page>>
  BY <1>1, <1>3, <1>5, <1>6 DEF ReadCounter, ReadOf
<1>8. PICK f, g : f = ask /\ g = ask'
  OBVIOUS
<1>9. PICK d : d = g[a]
  OBVIOUS
<1>10. Calls(f) /\ IsAsk(f[a]) /\ g = ReadOf(f, a, k, v, n, t)
  BY <1>1, <1>2, <1>7, <1>8 DEF AsksInv
<1>11. /\ Calls(g) /\ \A b \in Asker : b # a => g[b] = f[b]
       /\ DOMAIN d = AskFields /\ d = [x \in AskFields |-> d[x]]
       /\ d.at = t /\ d.next = n /\ d.read = [c.read EXCEPT ![k] = v]
       /\ d.kind = c.kind /\ d.during = c.during
  <2>1. AfterRead(f, g, a, k, v, n, t)
    BY Zenon, <1>10, ReadAsk
  <2> QED BY <1>1, <1>8, <1>9, <2>1 DEF AfterRead
<1>12. v \in Nat /\ (k # "freeswap" => v <= totalram) /\ (k = "freeswap" => v <= totalswap)
  BY <1>6, CounterBound
<1>13. c.read \in [Counters -> Nat] /\ d.read \in [Counters -> Nat]
  BY Zenon, <1>2, <1>11, <1>12 DEF IsAsk
<1>14. IsAsk(d)
  <2>1. t \in {"read", "answer"} /\ (t = "read" => n \in 1..len) /\ (t = "answer" => n = len + 1)
    BY <1>4, <1>6
  <2>2. d.kind \in Kind /\ d.during \in Nat
    BY <1>2, <1>11 DEF IsAsk
  <2>3. Len(Reads(d.kind)) = len
    BY <1>3, <1>11
  <2> QED BY <1>11, <1>13, <2>1, <2>2, <2>3 DEF IsAsk
<1>15. ReadBound(d, totalram, totalswap)
  <2>1. ReadBound(c, totalram, totalswap)
    BY <1>2 DEF AskOK
  <2>2. \A x \in Counters : d.read[x] = IF x = k THEN v ELSE c.read[x]
    BY <1>11, <1>13
  <2> QED BY <1>12, <2>1, <2>2 DEF ReadBound, Counters
<1>16. ASSUME d.kind \in {"snapshot", "entry"} PROVE SeenNear(d, page, totalram)
  <2>1. SeenNear(c, page, totalram)
    BY <1>2, <1>11, <1>16 DEF AskOK
  <2>2. len = 8 /\ k = Order[c.next]
    <3>1. Len(Reads(c.kind)) = 8 /\ \A i \in 1..8 : Reads(c.kind)[i] = Order[i]
      BY <1>11, <1>16, SnapshotReads
    <3>2. len = 8
      BY <1>3, <3>1
    <3> QED BY <1>4, <1>5, <3>1, <3>2
  <2>3. k # "freeswap"
    BY <1>4, <2>2 DEF Order
  <2>4. v = CounterAt(page, k)
    BY <1>5, <1>6, <2>3, CounterIs
  <2>5. c.next \in 1..8 /\ d.next = c.next + 1 /\ d.read = [c.read EXCEPT ![Order[c.next]] = CounterAt(page, Order[c.next])]
    BY <1>4, <1>6, <1>11, <2>2, <2>4
  <2>6. \A i \in 1..8 : Seen(d, i, page) = Seen(c, i, page)
    <3>1. PICK pg, x : pg = page /\ x = c.next
      OBVIOUS
    <3>2. SeesOne(c, d, pg, x)
      BY <1>13, <2>5, <3>1 DEF SeesOne
    <3>3. \A i \in 1..8 : Seen(d, i, pg) = Seen(c, i, pg)
      BY ZenonT(30), <3>2, ReadSees
    <3> QED BY <3>1, <3>3
  <2>7. /\ Seen(d, 1, page) = Seen(c, 1, page) /\ Seen(d, 2, page) = Seen(c, 2, page)
        /\ Seen(d, 3, page) = Seen(c, 3, page)
        /\ Seen(d, 4, page) = Seen(c, 4, page) /\ Seen(d, 5, page) = Seen(c, 5, page)
        /\ Seen(d, 6, page) = Seen(c, 6, page)
        /\ Seen(d, 7, page) = Seen(c, 7, page) /\ Seen(d, 8, page) = Seen(c, 8, page)
    BY <2>6
  <2> QED BY <1>11, <2>1, <2>7 DEF SeenNear
<1>17. AskOK(d, page, totalram, totalswap)
  BY <1>14, <1>15, <1>16 DEF AskOK
<1>18. ASSUME NEW b \in Asker PROVE AskOK(ask'[b], page', totalram', totalswap')
  <2>1. CASE b = a
    BY <1>7, <1>8, <1>9, <1>17, <2>1
  <2>2. CASE b # a
    BY <1>7, <1>8, <1>11, <2>2 DEF AsksInv
  <2> QED BY <2>1, <2>2
<1> QED BY <1>8, <1>11, <1>18 DEF AsksInv

-----------------------------------------------------------------------------
\* What a call of the kind answers for the counters g.
Answer(kind, g, s) ==
  CASE kind = "snapshot" -> FillMemorySnapshot(g, s)
    [] kind = "entry" -> FillMemSnapshot(g)
    [] kind = "sysinfo" -> DoSysinfo(g)
    [] kind = "compat" -> CompatSysinfo(g)
    [] kind = "statistics" -> GetMemoryInfo(g)

\* The answer of a call that has returned is made from the counters it read.
DoneInv ==
  \A a \in Asker : \A g, kind : ask[a].at = "done" /\ g = ask[a].read /\ kind = ask[a].kind =>
    \E s : ask[a].answer = Answer(kind, g, s)

InfoInv == PagesInv /\ AsksInv /\ DoneInv

LEMMA AnswerStays ==
  ASSUME UNCHANGED <<totalram, totalswap>>, NEW kind, NEW g, NEW s PROVE Answer(kind, g, s)' = Answer(kind, g, s)
<1>1. totalram' = totalram /\ totalswap' = totalswap
  OBVIOUS
<1>2. FillMemorySnapshot(g, s)' = FillMemorySnapshot(g, s) /\ FillMemSnapshot(g)' = FillMemSnapshot(g)
  BY <1>1 DEF FillMemorySnapshot, FillMemSnapshot
<1>3. DoSysinfo(g)' = DoSysinfo(g)
  BY <1>1 DEF DoSysinfo
<1>4. CompatSysinfo(g)' = CompatSysinfo(g)
  BY <1>3 DEF CompatSysinfo
<1>5. GetMemoryInfo(g)' = GetMemoryInfo(g)
  BY <1>1 DEF GetMemoryInfo
<1> QED BY <1>2, <1>3, <1>4, <1>5 DEF Answer

\* A step that leaves what has been answered.
LEMMA DoneStays ==
  ASSUME DoneInv, UNCHANGED <<totalram, totalswap>>,
         \A a \in Asker : ask'[a].at = "done" => /\ ask[a].at = "done" /\ ask'[a].read = ask[a].read
                                                 /\ ask'[a].kind = ask[a].kind /\ ask'[a].answer = ask[a].answer
  PROVE  DoneInv'
<1> SUFFICES ASSUME NEW a \in Asker, NEW g, NEW kind, ask'[a].at = "done", g = ask'[a].read, kind = ask'[a].kind
             PROVE  \E s : ask'[a].answer = Answer(kind, g, s)'
  BY DEF DoneInv
<1>1. PICK s : ask[a].answer = Answer(kind, g, s)
  BY DEF DoneInv
<1>2. Answer(kind, g, s)' = Answer(kind, g, s)
  BY AnswerStays
<1>3. ask'[a].answer = Answer(kind, g, s)'
  BY <1>1, <1>2
<1> QED BY <1>3

LEMMA AnswerPreserves ==
  ASSUME InfoInv, NEW a \in Asker, NEW stack, Answers(a, stack)
  PROVE  InfoInv'
<1>1. PICK c : c = ask[a]
  OBVIOUS
<1>2. /\ AskOK(c, page, totalram, totalswap) /\ IsAsk(c) /\ c.at = "answer"
      /\ UNCHANGED <<totalram, totalswap, page, freeswap, moves>>
  BY <1>1 DEF InfoInv, AsksInv, AskOK, Answers
<1>3. PICK r, kind : r = c.read /\ kind = c.kind
  OBVIOUS
<1>4. PICK v : v = Answer(kind, r, stack)
  OBVIOUS
<1>5. ask' = AnswerOf(ask, a, v)
  BY <1>1, <1>3, <1>4 DEF Answers, AnswerOf, Answer
<1>6. PICK f, g : f = ask /\ g = ask'
  OBVIOUS
<1>7. PICK d : d = g[a]
  OBVIOUS
<1>8. Calls(f) /\ IsAsk(f[a]) /\ g = AnswerOf(f, a, v)
  BY <1>1, <1>2, <1>5, <1>6 DEF InfoInv, AsksInv
<1>9. AfterAnswer(f, g, a, v)
  BY Zenon, <1>8, AnsweredAsk
<1>10. /\ Calls(g) /\ \A b \in Asker : b # a => g[b] = f[b]
       /\ DOMAIN d = AskFields /\ d = [x \in AskFields |-> d[x]]
       /\ d.at = "done" /\ d.answer = v
       /\ d.next = c.next /\ d.read = c.read /\ d.kind = c.kind /\ d.during = c.during
  BY <1>1, <1>6, <1>7, <1>9 DEF AfterAnswer
<1>11. IsAsk(d)
  BY <1>2, <1>10 DEF IsAsk
<1>12. AskOK(d, page, totalram, totalswap)
  BY <1>2, <1>10, <1>11 DEF AskOK, ReadBound, SeenNear, Seen
<1>13. ASSUME NEW b \in Asker PROVE AskOK(ask'[b], page', totalram', totalswap')
  <2>1. CASE b = a
    BY <1>2, <1>6, <1>7, <1>12, <2>1
  <2>2. CASE b # a
    BY <1>2, <1>6, <1>10, <2>2 DEF InfoInv, AsksInv
  <2> QED BY <2>1, <2>2
<1>14. AsksInv'
  BY <1>6, <1>10, <1>13 DEF AsksInv
<1>15. PagesInv'
  BY <1>2 DEF InfoInv, PagesInv
<1>16. DoneInv'
  <2> SUFFICES ASSUME NEW b \in Asker, NEW h, NEW k, ask'[b].at = "done", h = ask'[b].read, k = ask'[b].kind
               PROVE  \E s : ask'[b].answer = Answer(k, h, s)'
    BY DEF DoneInv
  <2>1. \A s : Answer(k, h, s)' = Answer(k, h, s)
    BY <1>2, AnswerStays
  <2>2. CASE b = a
    <3>1. ask'[b].answer = v /\ h = r /\ k = kind
      BY Zenon, <1>3, <1>6, <1>7, <1>10, <2>2
    <3>2. ask'[b].answer = Answer(k, h, stack)'
      BY <1>4, <2>1, <3>1
    <3> QED BY <3>2
  <2>3. CASE b # a
    <3>1. ask'[b] = ask[b]
      BY <1>6, <1>10, <2>3
    <3>2. PICK s : ask[b].answer = Answer(k, h, s)
      BY <3>1 DEF InfoInv, DoneInv
    <3>3. ask'[b].answer = Answer(k, h, s)'
      BY <2>1, <3>1, <3>2
    <3> QED BY <3>3
  <2> QED BY <2>2, <2>3
<1> QED BY <1>14, <1>15, <1>16 DEF InfoInv

-----------------------------------------------------------------------------
LEMMA InfoStarts == InfoInit => InfoInv
<1> SUFFICES ASSUME InfoInit PROVE InfoInv
  OBVIOUS
<1>1. PagesInv
  BY PagesInit
<1>2. ask = [a \in Asker |-> NoAsk]
  BY DEF InfoInit
<1>3. Calls(ask) /\ \A a \in Asker : ask[a] = NoAsk
  BY <1>2 DEF Calls
<1>4. AskOK(NoAsk, page, totalram, totalswap)
  BY <1>1, NoAskIs DEF AskOK, ReadBound, PagesInv, Counters
<1>5. AsksInv
  BY <1>3, <1>4 DEF AsksInv
<1>6. DoneInv
  BY <1>3, NoAskIs DEF DoneInv
<1> QED BY <1>1, <1>5, <1>6 DEF InfoInv

LEMMA InfoStep == InfoInv /\ [InfoNext]_infoVars => InfoInv'
<1> SUFFICES ASSUME InfoInv, [InfoNext]_infoVars PROVE InfoInv'
  OBVIOUS
<1>1. ASSUME NEW from \in Use, NEW to \in Use, PageMoves(from, to) PROVE InfoInv'
  <2>1. PagesInv' /\ AsksInv'
    BY <1>1, MovePreserves DEF InfoInv
  <2>2. ask' = [a \in Asker |-> [ask[a] EXCEPT !.during = IF ask[a].at = "idle" THEN 0 ELSE @ + 1]]
    BY <1>1 DEF PageMoves
  <2>3. ASSUME NEW a \in Asker
        PROVE  /\ ask'[a].at = ask[a].at /\ ask'[a].read = ask[a].read
               /\ ask'[a].kind = ask[a].kind /\ ask'[a].answer = ask[a].answer
    <3>1. DOMAIN ask[a] = AskFields
      BY Zenon DEF InfoInv, AsksInv, AskOK, IsAsk
    <3> QED BY <2>2, <2>3, <3>1 DEF AskFields
  <2>4. DoneInv'
    BY <1>1, <2>3, DoneStays DEF InfoInv, PageMoves
  <2> QED BY <2>1, <2>4 DEF InfoInv
<1>2. ASSUME NEW a \in Asker, NEW kind \in Kind, Asks(a, kind) PROVE InfoInv'
  <2>1. UNCHANGED <<totalram, totalswap, page, freeswap, moves>>
    BY <1>2 DEF Asks
  <2>2. PagesInv'
    BY <2>1 DEF InfoInv, PagesInv
  <2>3. ask' = [ask EXCEPT ![a] = [NoAsk EXCEPT !.at = "read", !.kind = kind]] /\ Calls(ask)
    BY <1>2 DEF Asks, InfoInv, AsksInv
  <2>4. ask'[a].at = "read" /\ \A b \in Asker : b # a => ask'[b] = ask[b]
    BY Zenon, <2>3, NoAskIs DEF Calls, IsAsk, AskFields
  <2>5. DoneInv'
    BY <2>1, <2>4, DoneStays DEF InfoInv
  <2> QED BY <1>2, <2>2, <2>5, AskPreserves DEF InfoInv
<1>3. ASSUME NEW a \in Asker, ReadCounter(a) PROVE InfoInv'
  <2>1. UNCHANGED <<totalram, totalswap, page, freeswap, moves>>
    BY <1>3 DEF ReadCounter
  <2>2. PagesInv'
    BY <2>1 DEF InfoInv, PagesInv
  <2>3. AsksInv'
    BY <1>3, ReadPreserves DEF InfoInv
  <2>4. ask'[a].at # "done" /\ \A b \in Asker : b # a => ask'[b] = ask[b]
    <3>1. PICK k, v, n, t : /\ ask' = ReadOf(ask, a, k, v, n, t) /\ t \in {"read", "answer"}
                            /\ k = Reads(ask[a].kind)[ask[a].next]
      BY Zenon, <1>3 DEF ReadCounter, ReadOf
    <3>2. IsAsk(ask[a]) /\ Calls(ask) /\ ask[a].at = "read"
      BY <1>3 DEF InfoInv, AsksInv, AskOK, ReadCounter
    <3>3. k \in Counters
      <4>1. ask[a].kind \in Kind /\ ask[a].next \in 1..Len(Reads(ask[a].kind))
        BY <3>2 DEF IsAsk
      <4> QED BY <3>1, <4>1, ReadsLen
    <3>4. PICK f, g : f = ask /\ g = ask'
      OBVIOUS
    <3>5. AfterRead(f, g, a, k, v, n, t)
      BY Zenon, <3>1, <3>2, <3>3, <3>4, ReadAsk
    <3> QED BY <3>1, <3>4, <3>5 DEF AfterRead
  <2>5. DoneInv'
    BY <2>1, <2>4, DoneStays DEF InfoInv
  <2> QED BY <2>2, <2>3, <2>5 DEF InfoInv
<1>4. CASE UNCHANGED infoVars
  <2>1. UNCHANGED <<totalram, totalswap, page, freeswap, moves, ask>>
    BY <1>4 DEF infoVars
  <2>2. PagesInv' /\ AsksInv'
    BY <2>1 DEF InfoInv, PagesInv, AsksInv
  <2>3. DoneInv'
    BY <2>1, DoneStays DEF InfoInv
  <2> QED BY <2>2, <2>3 DEF InfoInv
<1> QED BY <1>1, <1>2, <1>3, <1>4, AnswerPreserves DEF InfoNext

\* The invariant of the calls that report memory.
THEOREM InfoInvariant == InfoSpec => []InfoInv
BY InfoStarts, InfoStep, PTL DEF InfoSpec

-----------------------------------------------------------------------------
\* All counters are read: what the call sees is what it has read.
LEMMA DoneNear ==
  ASSUME InfoInv, NEW a \in Asker, ask[a].at = "done", ask[a].kind \in {"snapshot", "entry"}
  PROVE  LET g == ask[a].read IN
         /\ g \in [Counters -> Nat] /\ ask[a].during \in Nat
         /\ Close(g["NR_FILE_PAGES"] - g["NR_SHMEM"] - g["bufferram"] - (page["active_file"] + page["inactive_file"]),
                  ask[a].during)
         /\ Close(g["NR_ACTIVE_FILE"] + g["NR_ACTIVE_ANON"] - (page["active_file"] + page["active_anon"]), ask[a].during)
         /\ Close(g["freeram"] + g["NR_ACTIVE_FILE"] + g["NR_ACTIVE_ANON"] + g["NR_INACTIVE_FILE"]
                    + g["NR_INACTIVE_ANON"] - totalram, ask[a].during)
<1>1. PICK c : c = ask[a]
  OBVIOUS
<1>2. AskOK(c, page, totalram, totalswap) /\ c.at = "done" /\ c.kind \in {"snapshot", "entry"}
  BY <1>1 DEF InfoInv, AsksInv
<1>3. SeenNear(c, page, totalram) /\ c.read \in [Counters -> Nat] /\ c.during \in Nat
  BY <1>2 DEF AskOK, IsAsk
<1>4. c.next = 9
  <2>1. c.next = Len(Reads(c.kind)) + 1
    BY <1>2 DEF AskOK, IsAsk
  <2>2. Len(Reads(c.kind)) = 8
    BY <1>2, SnapshotReads
  <2> QED BY <2>1, <2>2
<1>5. /\ Seen(c, 1, page) = c.read["freeram"] /\ Seen(c, 2, page) = c.read["bufferram"]
      /\ Seen(c, 3, page) = c.read["NR_FILE_PAGES"] /\ Seen(c, 4, page) = c.read["NR_SHMEM"]
      /\ Seen(c, 5, page) = c.read["NR_ACTIVE_FILE"] /\ Seen(c, 6, page) = c.read["NR_ACTIVE_ANON"]
      /\ Seen(c, 7, page) = c.read["NR_INACTIVE_FILE"] /\ Seen(c, 8, page) = c.read["NR_INACTIVE_ANON"]
  BY <1>4, SeenIs
<1> QED BY <1>1, <1>3, <1>5 DEF SeenNear

-----------------------------------------------------------------------------
LEMMA SnapshotIsNear ==
  ASSUME InfoInv, NEW a \in Asker, ask[a].at = "done", ask[a].kind = "snapshot"
  PROVE  LET s == ask[a].answer
             n == ask[a].during IN
         /\ Near(s.cache_ram, page["active_file"] + page["inactive_file"], n)
         /\ Near(s.active_ram, page["active_file"] + page["active_anon"], n)
         /\ Near(s.free_ram + s.active_ram + s.inactive_ram, totalram, n)
<1>1. PICK g, n, L : g = ask[a].read /\ n = ask[a].during /\ L = LongRange
  OBVIOUS
<1>2. LongRange \in Nat /\ L # 0 /\ totalram \in Nat
  BY <1>1 DEF InfoInv, PagesInv
<1>3. /\ g \in [Counters -> Nat] /\ n \in Nat
      /\ Close(g["NR_FILE_PAGES"] - g["NR_SHMEM"] - g["bufferram"] - (page["active_file"] + page["inactive_file"]), n)
      /\ Close(g["NR_ACTIVE_FILE"] + g["NR_ACTIVE_ANON"] - (page["active_file"] + page["active_anon"]), n)
      /\ Close(g["freeram"] + g["NR_ACTIVE_FILE"] + g["NR_ACTIVE_ANON"] + g["NR_INACTIVE_FILE"]
                 + g["NR_INACTIVE_ANON"] - totalram, n)
  BY <1>1, DoneNear
<1>4. PICK s : ask[a].answer = Answer("snapshot", g, s)
  BY <1>1 DEF InfoInv, DoneInv
<1>5. PICK v : v = ask[a].answer
  OBVIOUS
<1>6. /\ v.free_ram = g["freeram"] /\ v.cache_ram = CacheRam(g)
      /\ v.active_ram = (g["NR_ACTIVE_FILE"] + g["NR_ACTIVE_ANON"]) % L
      /\ v.inactive_ram = (g["NR_INACTIVE_FILE"] + g["NR_INACTIVE_ANON"]) % L
  BY <1>1, <1>4, <1>5 DEF Answer, FillMemorySnapshot
<1>7. PICK fr, bu, fp, sh, af, aa, if, ia \in Nat :
        /\ fr = g["freeram"] /\ bu = g["bufferram"] /\ fp = g["NR_FILE_PAGES"] /\ sh = g["NR_SHMEM"]
        /\ af = g["NR_ACTIVE_FILE"] /\ aa = g["NR_ACTIVE_ANON"]
        /\ if = g["NR_INACTIVE_FILE"] /\ ia = g["NR_INACTIVE_ANON"]
  BY Zenon, <1>3 DEF Counters
<1>8. PICK pf, pff, pa \in Nat : pf = page["active_file"] /\ pff = page["inactive_file"] /\ pa = page["active_anon"]
  BY DEF InfoInv, PagesInv, Use
<1>9. PICK c, w, x, y \in Int : c = fp - sh - bu /\ w = pf + pff /\ x = af + aa /\ y = if + ia
  OBVIOUS
<1>10. v.free_ram = fr /\ v.cache_ram = c % L /\ v.active_ram = x % L /\ v.inactive_ram = y % L
  BY <1>1, <1>6, <1>7, <1>9 DEF CacheRam
<1>11. PICK q1 \in Int, r1 \in 0..L-1 : c = q1 * L + r1 /\ r1 = c % L
  BY Zenon, <1>1, <1>2, DivideInt
<1>12. PICK q2 \in Int, r2 \in 0..L-1 : x = q2 * L + r2 /\ r2 = x % L
  BY Zenon, <1>1, <1>2, DivideInt
<1>13. PICK q3 \in Int, r3 \in 0..L-1 : y = q3 * L + r3 /\ r3 = y % L
  BY Zenon, <1>1, <1>2, DivideInt
<1>14. L \in Nat
  BY <1>1, <1>2
<1>15. Near(v.cache_ram, w, n)
  <2>1. c - w <= n /\ w - c <= n
    BY <1>3, <1>7, <1>8, <1>9 DEF Close
  <2>2. PICK k \in Int : k = -q1
    OBVIOUS
  <2>3. r1 = c + k * L
    <3>1. k * L = -(q1 * L) /\ q1 * L \in Int
      BY <1>14, <2>2
    <3> QED BY <1>11, <3>1
  <2>4. Near(c + k * LongRange, w, n)
    BY <1>1, <1>2, <1>3, <2>1, NearNumbers
  <2> QED BY <1>1, <1>10, <1>11, <2>3, <2>4
<1>16. Near(v.active_ram, pf + pa, n)
  <2>0. PICK z \in Int : z = pf + pa
    OBVIOUS
  <2>1. x - z <= n /\ z - x <= n
    BY <1>3, <1>7, <1>8, <1>9, <2>0 DEF Close
  <2>2. PICK k \in Int : k = -q2
    OBVIOUS
  <2>3. r2 = x + k * L
    <3>1. k * L = -(q2 * L) /\ q2 * L \in Int
      BY <1>14, <2>2
    <3> QED BY <1>12, <3>1
  <2>4. Near(x + k * LongRange, z, n)
    BY <1>1, <1>2, <1>3, <2>1, NearNumbers
  <2> QED BY <1>1, <1>10, <1>12, <2>0, <2>3, <2>4
<1>17. Near(v.free_ram + v.active_ram + v.inactive_ram, totalram, n)
  <2>0. PICK z, t \in Int : z = fr + x + y /\ t = totalram
    BY <1>2
  <2>1. z - t <= n /\ t - z <= n
    BY <1>2, <1>3, <1>7, <1>9, <2>0 DEF Close
  <2>2. PICK k \in Int : k = -(q2 + q3)
    OBVIOUS
  <2>3. fr + r2 + r3 = z + k * L
    <3>1. k * L = -(q2 * L) - (q3 * L) /\ q2 * L \in Int /\ q3 * L \in Int
      BY <1>14, <2>2
    <3>2. PICK m, o \in Int : m = q2 * L /\ o = q3 * L
      BY <3>1
    <3>3. x = m + r2 /\ y = o + r3 /\ k * L = -m - o
      BY <1>12, <1>13, <3>1, <3>2
    <3> QED BY <2>0, <3>3
  <2>4. Near(z + k * LongRange, t, n)
    BY <1>1, <1>2, <1>3, <2>1, NearNumbers
  <2> QED BY <1>1, <1>10, <1>12, <1>13, <2>0, <2>3, <2>4
<1> QED BY <1>1, <1>5, <1>8, <1>9, <1>15, <1>16, <1>17

\* Nothing moved and the memory fits into an unsigned long in bytes.
LEMMA EntryIsExact ==
  ASSUME InfoInv, NEW a \in Asker, ask[a].at = "done", ask[a].kind = "entry",
         ask[a].during = 0, totalram * PageBytes < LongRange
  PROVE  ask[a].answer.cache_ram = ((page["active_file"] + page["inactive_file"]) * PageBytes) \div Mega
<1>1. PICK g, L : g = ask[a].read /\ L = LongRange
  OBVIOUS
<1>2. L \in Nat /\ L # 0 /\ totalram \in Nat /\ totalram < L
  BY <1>1 DEF InfoInv, PagesInv
<1>3. /\ g \in [Counters -> Nat]
      /\ Close(g["NR_FILE_PAGES"] - g["NR_SHMEM"] - g["bufferram"] - (page["active_file"] + page["inactive_file"]), 0)
  BY <1>1, DoneNear
<1>4. PICK s : ask[a].answer = Answer("entry", g, s)
  BY <1>1 DEF InfoInv, DoneInv
<1>5. ask[a].answer.cache_ram = PrintMemoryLine(CacheRam(g))
  <2>1. PICK f : f = FillMemorySnapshot(g, <<0, 0>>)
    OBVIOUS
  <2>2. "cache_ram" \in DOMAIN f /\ f["cache_ram"] = CacheRam(g)
    BY <2>1 DEF FillMemorySnapshot
  <2>3. ask[a].answer = [k \in DOMAIN f \ {"swap_total", "swap_free"} |-> PrintMemoryLine(f[k])]
    BY <1>4, <2>1 DEF Answer, FillMemSnapshot
  <2> QED BY <2>2, <2>3
<1>6. PICK fp, sh, bu \in Nat : fp = g["NR_FILE_PAGES"] /\ sh = g["NR_SHMEM"] /\ bu = g["bufferram"]
  BY <1>3 DEF Counters
<1>7. PICK c \in Nat : c = page["active_file"] + page["inactive_file"] /\ c <= totalram
  <2>1. PICK gf, gaa, gia, gaf, gff, gsh, gbu \in Nat :
          /\ gf = page["free"] /\ gaa = page["active_anon"] /\ gia = page["inactive_anon"]
          /\ gaf = page["active_file"]
          /\ gff = page["inactive_file"] /\ gsh = page["shmem"] /\ gbu = page["buffers"]
    BY Zenon DEF InfoInv, PagesInv, Use
  <2>2. gf + gaa + gia + gaf + gff + gsh + gbu = totalram
    BY <2>1 DEF InfoInv, PagesInv, AllPages
  <2> QED BY <2>1, <2>2
<1>8. fp - sh - bu = c
  BY <1>3, <1>6, <1>7 DEF Close
<1>9. CacheRam(g) = c
  <2>1. c \in 0..L-1
    BY <1>2, <1>7
  <2>2. c % L = c
    BY <1>2, <2>1
  <2> QED BY <1>1, <1>6, <1>8, <2>2 DEF CacheRam
<1>10. PICK p \in Nat : p = PageBytes
  BY InfoAssumption, PowerPositive DEF PageBytes
<1>11. c * p <= totalram * p /\ c * p \in Nat /\ totalram * p \in Nat
  BY <1>2, <1>7
<1>12. (c * p) % L = c * p
  <2>1. PICK x \in Nat : x = c * p
    BY <1>11
  <2>2. x < L
    BY <1>1, <1>2, <1>10, <1>11, <2>1
  <2>3. x % L = x
    BY <1>2, <2>2
  <2> QED BY <2>1, <2>3
<1> QED BY <1>1, <1>5, <1>7, <1>9, <1>10, <1>12 DEF PrintMemoryLine

\* The figures of capture_memory_snapshot and its entry are off by at most one
\* page for every page that moved while fill_memory_snapshot() was reading the
\* counters, and exact when none did, for every size of memory.
THEOREM SnapshotsAreNear == InfoSpec => []SnapshotNear
<1>1. InfoInv => SnapshotNear
  <2> SUFFICES ASSUME InfoInv, NEW a \in Asker, ask[a].at = "done"
               PROVE  LET s == ask[a].answer
                          n == ask[a].during
                          cached == page["active_file"] + page["inactive_file"] IN
                      /\ ask[a].kind = "snapshot" =>
                           /\ Near(s.cache_ram, cached, n)
                           /\ Near(s.active_ram, page["active_file"] + page["active_anon"], n)
                           /\ Near(s.free_ram + s.active_ram + s.inactive_ram, totalram, n)
                      /\ ask[a].kind = "entry" /\ n = 0 /\ totalram * PageBytes < LongRange =>
                           s.cache_ram = (cached * PageBytes) \div Mega
    BY DEF SnapshotNear
  <2> QED BY SnapshotIsNear, EntryIsExact
<1> QED BY <1>1, InfoInvariant, PTL

-----------------------------------------------------------------------------
\* The sums of the loop of do_sysinfo(): total doubled i times.
Doubled(total, f) ==
  f = [i \in 0..PageShift |-> IF i = 0 THEN total ELSE (f[i - 1] * 2) % LongRange]

\* There is such a function.
LEMMA DoubledExists ==
  ASSUME NEW total PROVE \E f : Doubled(total, f)
<1> DEFINE D(n, f) == f = [i \in 0..n |-> IF i = 0 THEN total ELSE (f[i - 1] * 2) % LongRange]
           bad == {n \in Nat : ~ \E f : D(n, f)}
<1>1. bad = {}
  <2> SUFFICES ASSUME bad # {} PROVE FALSE
    OBVIOUS
  <2>1. PICK n \in bad : \A m \in bad : n <= m
    <3>1. bad \in SUBSET Nat
      OBVIOUS
    <3> HIDE DEF bad
    <3> QED BY <3>1, Least
  <2>2. CASE n = 0
    <3>1. PICK f : f = [i \in 0..0 |-> total]
      BY Zenon
    <3>2. D(0, f)
      BY <3>1
    <3> QED BY <2>1, <2>2, <3>2
  <2>3. CASE n # 0
    <3>1. n - 1 \in Nat /\ n - 1 \notin bad
      <4>1. n \in Nat
        BY <2>1
      <4> HIDE DEF bad
      <4> QED BY <2>1, <2>3, <4>1
    <3>2. PICK f : D(n - 1, f)
      BY <3>1
    <3>3. PICK h : h = [i \in 0..n |-> IF i = n THEN (f[n - 1] * 2) % LongRange ELSE f[i]]
      BY Zenon
    <3>4. h[n] = (f[n - 1] * 2) % LongRange /\ \A i \in 0..n-1 : h[i] = f[i]
      BY <3>1, <3>3
    <3>5. \A i \in 0..n-1 : f[i] = IF i = 0 THEN total ELSE (f[i - 1] * 2) % LongRange
      BY <3>1, <3>2
    <3>6. ASSUME NEW i \in 0..n PROVE h[i] = IF i = 0 THEN total ELSE (h[i - 1] * 2) % LongRange
      <4>1. CASE i = n
        <5>1. h[n - 1] = f[n - 1]
          BY <3>1, <3>4
        <5> QED BY <2>3, <3>4, <4>1, <5>1
      <4>2. CASE i = 0
        BY <2>3, <3>1, <3>4, <3>5, <4>2
      <4>3. CASE i # n /\ i # 0
        <5>1. i \in 0..n-1 /\ i - 1 \in 0..n-1
          BY <3>1, <4>3
        <5>2. h[i] = f[i] /\ h[i - 1] = f[i - 1]
          BY <3>4, <5>1
        <5> QED BY <3>5, <4>3, <5>1, <5>2
      <4> QED BY <4>1, <4>2, <4>3
    <3>7. D(n, h)
      BY Zenon, <3>3, <3>6
    <3> QED BY <2>1, <3>7
  <2> QED BY <2>2, <2>3
<1>2. PageShift \in Nat
  BY InfoAssumption
<1>3. \E f : D(PageShift, f)
  BY Zenon, <1>1, <1>2
<1> QED BY Zenon, <1>3 DEF Doubled

LEMMA OverflowsIs ==
  ASSUME NEW total PROVE \E f : Doubled(total, f) /\ (Overflows(total) <=> \E i \in 1..PageShift : f[i] < f[i - 1])
<1>1. PICK f : f = CHOOSE h : h = [i \in 0..PageShift |-> IF i = 0 THEN total ELSE (h[i - 1] * 2) % LongRange]
  OBVIOUS
<1>2. Doubled(total, f)
  BY Zenon, <1>1, DoubledExists DEF Doubled
<1>3. Overflows(total) <=> \E i \in 1..PageShift : f[i] < f[i - 1]
  BY Zenon, <1>1 DEF Overflows
<1> QED BY <1>2, <1>3

\* When no doubling makes the sum smaller, the total in bytes is in range.
LEMMA NoOverflow ==
  ASSUME LongRange \in Nat, LongRange # 0, NEW total \in 0..LongRange-1, ~ Overflows(total)
  PROVE  total * PageBytes < LongRange
<1>1. PICK f : Doubled(total, f) /\ ~ \E i \in 1..PageShift : f[i] < f[i - 1]
  BY OverflowsIs
<1>2. PageShift \in Nat
  BY InfoAssumption
<1>3. f[0] = total /\ \A i \in 1..PageShift : f[i] = (f[i - 1] * 2) % LongRange
  BY <1>1, <1>2 DEF Doubled
<1> DEFINE bad == {n \in Nat : n <= PageShift /\ ~ (f[n] = total * 2^n /\ f[n] \in 0..LongRange-1)}
<1>4. bad = {}
  <2> SUFFICES ASSUME bad # {} PROVE FALSE
    OBVIOUS
  <2>1. PICK n \in bad : \A m \in bad : n <= m
    <3>1. bad \in SUBSET Nat
      OBVIOUS
    <3> HIDE DEF bad
    <3> QED BY <3>1, Least
  <2>2. n \in Nat /\ n <= PageShift
    BY <2>1
  <2>3. n # 0
    <3>1. 2^0 = 1
      OBVIOUS
    <3>2. total * 1 = total
      OBVIOUS
    <3>3. f[0] = total * 2^0
      BY Zenon, <1>3, <3>1, <3>2
    <3> QED BY Zenon, <1>3, <2>1, <3>3
  <2>4. PICK k \in Nat : n = k + 1
    BY <2>2, <2>3
  <2>5. k \notin bad /\ k <= PageShift
    BY <1>2, <2>1, <2>2, <2>4
  <2>6. f[k] = total * 2^k /\ f[k] \in 0..LongRange-1
    BY <2>5
  <2>7. PICK x \in 0..LongRange-1 : x = f[k]
    BY <2>6
  <2>8. n \in 1..PageShift /\ n - 1 = k
    BY <1>2, <2>2, <2>4
  <2>9. f[n] = (x * 2) % LongRange /\ ~ (f[n] < x)
    BY <1>1, <1>3, <2>7, <2>8
  <2>10. x * 2 < LongRange
    <3> SUFFICES ASSUME x * 2 >= LongRange PROVE FALSE
      OBVIOUS
    <3>1. x * 2 \in LongRange..2*LongRange-1
      OBVIOUS
    <3>2. PICK y \in LongRange..2*LongRange-1 : y = x * 2
      BY <3>1
    <3>3. y % LongRange = y - LongRange
      BY <3>2
    <3>4. y - LongRange < x
      BY <3>2
    <3> QED BY <2>9, <3>2, <3>3, <3>4
  <2>11. f[n] = x * 2
    <3>1. PICK y \in 0..LongRange-1 : y = x * 2
      BY <2>10
    <3>2. y % LongRange = y
      BY <3>1
    <3> QED BY <2>9, <3>1, <3>2
  <2>12. x * 2 = total * 2^n
    <3>1. PICK p \in Nat : p = 2^k /\ 2^n = 2 * p
      BY <2>4, PowerDoubles
    <3>2. x = total * p
      BY <2>6, <2>7, <3>1
    <3>3. (total * p) * 2 = total * (2 * p)
      OBVIOUS
    <3> QED BY <3>1, <3>2, <3>3
  <2> QED BY <2>1, <2>10, <2>11, <2>12
<1>5. PageShift \notin bad
  BY <1>4
<1>6. f[PageShift] = total * 2^PageShift /\ f[PageShift] \in 0..LongRange-1
  BY <1>2, <1>5
<1> QED BY <1>6 DEF PageBytes

-----------------------------------------------------------------------------
\* A number below the range stays as it is.
LEMMA InRange == ASSUME NEW m \in Nat, NEW x \in Nat, x < m PROVE x % m = x
  OBVIOUS

\* Amounts x of pages that memory and swap space together bound.
LEMMA ScaledIs ==
  ASSUME LongRange \in Nat, NEW x \in Nat, NEW t \in Nat, x <= t, NEW by \in Nat, t * by < LongRange
  PROVE  (x * by) % LongRange = x * by
<1>1. x * by <= t * by /\ x * by \in Nat /\ t * by \in Nat
  OBVIOUS
<1>2. PICK y \in Nat : y = x * by /\ y < LongRange
  BY <1>1
<1> QED BY <1>2, InRange

\* What DoSysinfo(g) reports, for counters within memory and swap space.
Exact(s, g) ==
  /\ s.mem_unit \in {1, PageBytes}
  /\ DOMAIN s = {"totalram", "freeram", "bufferram", "totalswap", "freeswap", "mem_unit"}
  /\ \E by \in {1, PageBytes} :
       /\ by * s.mem_unit = PageBytes
       /\ s.totalram = totalram * by /\ s.totalswap = totalswap * by
       /\ s.freeram = g["freeram"] * by /\ s.freeswap = g["freeswap"] * by

LEMMA SysinfoIs ==
  ASSUME InfoInv, NEW g \in [Counters -> Nat], g["freeram"] <= totalram, g["freeswap"] <= totalswap
  PROVE  Exact(DoSysinfo(g), g)
<1>1. PICK L, tr, ts, fr, fs \in Nat :
        L = LongRange /\ tr = totalram /\ ts = totalswap /\ fr = g["freeram"] /\ fs = g["freeswap"]
  BY DEF InfoInv, PagesInv, Counters
<1>2. LongRange \in Nat /\ LongRange # 0 /\ tr < LongRange /\ ts < LongRange /\ fr <= tr /\ fs <= ts
  BY <1>1 DEF InfoInv, PagesInv
<1>3. PICK p \in Nat \ {0} : p = PageBytes
  BY InfoAssumption, PowerPositive DEF PageBytes
<1>4. PICK mt : mt = (tr + ts) % LongRange
  OBVIOUS
<1>5. PICK keep \in BOOLEAN : keep <=> mt < tr \/ mt < ts \/ Overflows(mt)
  BY Zenon
<1>6. PICK by : by = IF keep THEN 1 ELSE p
  OBVIOUS
<1>7. PICK s : s = DoSysinfo(g)
  OBVIOUS
<1>8. s = [totalram |-> (totalram * by) % LongRange, freeram |-> (g["freeram"] * by) % LongRange,
           bufferram |-> (g["bufferram"] * by) % LongRange, totalswap |-> (totalswap * by) % LongRange,
           freeswap |-> (g["freeswap"] * by) % LongRange, mem_unit |-> IF keep THEN p ELSE 1]
  BY Zenon, <1>1, <1>3, <1>4, <1>5, <1>6, <1>7 DEF DoSysinfo
<1>9. /\ s.totalram = (tr * by) % LongRange /\ s.totalswap = (ts * by) % LongRange
      /\ s.freeram = (fr * by) % LongRange /\ s.freeswap = (fs * by) % LongRange
      /\ s.mem_unit = IF keep THEN p ELSE 1
  BY <1>1, <1>8
<1>10. DOMAIN s = {"totalram", "freeram", "bufferram", "totalswap", "freeswap", "mem_unit"}
  BY <1>8
<1>11. by \in Nat /\ tr * by < LongRange /\ ts * by < LongRange
  <2>1. CASE keep
    BY <1>2, <1>6, <2>1
  <2>2. CASE ~ keep
    <3>1. mt >= tr /\ mt >= ts /\ ~ Overflows(mt) /\ mt \in Nat /\ mt < LongRange
      <4>1. mt \in 0..LongRange-1
        BY <1>2, <1>4
      <4>2. ~ (mt < tr) /\ ~ (mt < ts) /\ ~ Overflows(mt)
        BY Zenon, <1>5, <2>2
      <4> QED BY <1>2, <4>1, <4>2
    <3>2. mt * p < LongRange
      BY <1>2, <1>3, <3>1, NoOverflow
    <3>3. tr * p <= mt * p /\ ts * p <= mt * p /\ mt * p \in Nat /\ tr * p \in Nat /\ ts * p \in Nat
      BY <3>1
    <3> QED BY <1>2, <1>6, <2>2, <3>2, <3>3
  <2> QED BY <2>1, <2>2
<1>12. (tr * by) % LongRange = tr * by /\ (fr * by) % LongRange = fr * by
  BY <1>2, <1>11, ScaledIs
<1>13. (ts * by) % LongRange = ts * by /\ (fs * by) % LongRange = fs * by
  BY <1>2, <1>11, ScaledIs
<1>14. by \in {1, PageBytes} /\ s.mem_unit \in {1, PageBytes} /\ by * s.mem_unit = PageBytes
  BY <1>3, <1>6, <1>9
<1>15. Exact(s, g)
  BY <1>1, <1>9, <1>10, <1>12, <1>13, <1>14 DEF Exact
<1> QED BY <1>7, <1>15

\* The products of the amounts and the unit.
LEMMA UnitIs == ASSUME NEW x \in Nat, NEW by \in Nat, NEW u \in Nat PROVE (x * by) * u = x * (by * u)
  OBVIOUS

LEMMA DownIs == ASSUME NEW x \in Nat, NEW p \in Nat \ {0}
  PROVE (x * p) \div p = x /\ x \div 1 = x /\ p \div 1 = p /\ p \div p = 1
<1>1. (x * p) \div p = x /\ x \div 1 = x /\ p \div 1 = p
  OBVIOUS
<1>2. p \div p = 1
  <2>1. (1 * p) \div p = 1
    OBVIOUS
  <2>2. 1 * p = p
    OBVIOUS
  <2> QED BY <2>1, <2>2
<1> QED BY <1>1, <1>2

-----------------------------------------------------------------------------
\* The 32-bit variant with amount x within total t, of by units a page.
LEMMA CompatAmount ==
  ASSUME NEW W \in Nat, NEW x \in Nat, NEW t \in Nat, x <= t, t < W, NEW p \in Nat \ {0}, NEW by, NEW down,
         \/ by = p /\ down = p
         \/ by = 1 /\ down = 1
         \/ by = p /\ down = 1 /\ t * p < W
  PROVE  \E k \in Nat : ((x * by) \div down) % W = k /\ k * down = x * by
<1>1. CASE by = p /\ down = p
  <2>1. (x * p) \div p = x /\ x % W = x
    BY DownIs, InRange
  <2> QED BY <1>1, <2>1
<1>2. CASE by = 1 /\ down = 1
  <2>1. (x * 1) = x /\ x \div 1 = x /\ x % W = x
    BY DownIs, InRange
  <2> QED BY <1>2, <2>1
<1>3. CASE by = p /\ down = 1 /\ t * p < W
  <2>1. x * p <= t * p /\ x * p \in Nat /\ t * p \in Nat
    OBVIOUS
  <2>2. PICK y \in Nat : y = x * p
    BY <2>1
  <2>3. y < W
    BY <1>3, <2>1, <2>2
  <2>4. y \div 1 = y /\ y % W = y
    BY <2>3, DownIs, InRange
  <2> QED BY <1>3, <2>2, <2>4
<1> QED BY <1>1, <1>2, <1>3

LEMMA CompatIs ==
  ASSUME InfoInv, NEW g \in [Counters -> Nat], g["freeram"] <= totalram, g["freeswap"] <= totalswap,
         totalram < CompatWord, totalswap < CompatWord, NEW v, v = CompatSysinfo(g)
  PROVE  /\ v.totalram * v.mem_unit = totalram * PageBytes /\ v.totalswap * v.mem_unit = totalswap * PageBytes
         /\ v.freeram * v.mem_unit = g["freeram"] * PageBytes /\ v.freeswap * v.mem_unit = g["freeswap"] * PageBytes
<1>1. PICK W, tr, ts, fr, fs \in Nat :
        W = CompatWord /\ tr = totalram /\ ts = totalswap /\ fr = g["freeram"] /\ fs = g["freeswap"]
  BY InfoAssumption DEF InfoInv, PagesInv, Counters
<1>2. tr < W /\ ts < W /\ fr <= tr /\ fs <= ts
  BY <1>1
<1>3. PICK p \in Nat \ {0} : p = PageBytes
  BY InfoAssumption, PowerPositive DEF PageBytes
<1>4. PICK s : s = DoSysinfo(g)
  OBVIOUS
<1>5. Exact(s, g)
  BY <1>4, SysinfoIs
<1>6. PICK u : u = s.mem_unit
  OBVIOUS
<1>7. PICK by \in {1, p} : /\ by * u = p
                           /\ s.totalram = tr * by /\ s.totalswap = ts * by /\ s.freeram = fr * by
                           /\ s.freeswap = fs * by
  BY <1>1, <1>3, <1>5, <1>6 DEF Exact
<1>8. u \in {1, p} /\ DOMAIN s = {"totalram", "freeram", "bufferram", "totalswap", "freeswap", "mem_unit"}
  BY <1>3, <1>5, <1>6 DEF Exact
<1>9. PICK down : down = IF s.totalram >= CompatWord \/ s.totalswap >= CompatWord THEN PageBytes \div s.mem_unit
      ELSE 1
  OBVIOUS
<1>10. v = [k \in DOMAIN s |-> IF k = "mem_unit" THEN s.mem_unit * down ELSE (s[k] \div down) % CompatWord]
  BY <1>4, <1>9 DEF CompatSysinfo
<1>11. /\ v.totalram = ((tr * by) \div down) % W /\ v.totalswap = ((ts * by) \div down) % W
       /\ v.freeram = ((fr * by) \div down) % W /\ v.freeswap = ((fs * by) \div down) % W
       /\ v.mem_unit = u * down
  BY <1>1, <1>6, <1>7, <1>8, <1>10
<1>12. \/ by = p /\ down = p
       \/ by = 1 /\ down = 1
       \/ by = p /\ down = 1 /\ tr * p < W /\ ts * p < W
  <2>1. CASE by = 1
    <3>1. s.totalram = tr /\ s.totalswap = ts
      BY <1>7, <2>1
    <3>2. ~ (s.totalram >= CompatWord) /\ ~ (s.totalswap >= CompatWord)
      BY <1>1, <1>2, <3>1
    <3> QED BY <1>9, <2>1, <3>2
  <2>2. CASE by = p
    <3>1. u = 1
      <4>1. CASE u = p
        <5>1. p * p = p
          BY <1>7, <2>2, <4>1
        <5>2. p = 1
          BY <5>1
        <5> QED BY <4>1, <5>2
      <4> QED BY <1>8, <4>1
    <3>2. PICK x, y \in Nat : x = tr * p /\ y = ts * p /\ x = s.totalram /\ y = s.totalswap
      BY <1>7, <2>2
    <3>3. CASE x >= W \/ y >= W
      <4>1. down = p \div 1
        BY <1>1, <1>3, <1>6, <1>9, <3>1, <3>2, <3>3
      <4> QED BY <2>2, <4>1, DownIs
    <3>4. CASE x < W /\ y < W
      <4>1. ~ (s.totalram >= CompatWord) /\ ~ (s.totalswap >= CompatWord)
        BY <1>1, <3>2, <3>4
      <4> QED BY <1>9, <2>2, <3>2, <3>4, <4>1
    <3> QED BY <3>3, <3>4
  <2> QED BY <2>1, <2>2
<1>13. by \in Nat /\ down \in Nat /\ u \in Nat
  BY <1>8, <1>12
<1>14. ASSUME NEW x \in Nat, NEW k \in Nat, k * down = x * by PROVE k * (u * down) = x * p
  <2>1. k * (u * down) = (k * down) * u
    BY <1>13
  <2>2. (x * by) * u = x * (by * u)
    BY <1>13
  <2> QED BY <1>7, <1>14, <2>1, <2>2
<1>c. ASSUME NEW x \in Nat, NEW t \in {tr, ts}, x <= t
      PROVE  \E k \in Nat : ((x * by) \div down) % W = k /\ k * down = x * by
  <2>1. t \in Nat /\ t < W
    BY <1>2
  <2>2. \/ by = p /\ down = p
        \/ by = 1 /\ down = 1
        \/ by = p /\ down = 1 /\ t * p < W
    BY <1>12
  <2> QED BY <1>c, <2>1, <2>2, CompatAmount
<1>15. v.totalram * v.mem_unit = tr * p
  <2>1. PICK k \in Nat : ((tr * by) \div down) % W = k /\ k * down = tr * by
    BY <1>2, <1>c
  <2> QED BY <1>11, <1>14, <2>1
<1>16. v.totalswap * v.mem_unit = ts * p
  <2>1. PICK k \in Nat : ((ts * by) \div down) % W = k /\ k * down = ts * by
    BY <1>2, <1>c
  <2> QED BY <1>11, <1>14, <2>1
<1>17. v.freeram * v.mem_unit = fr * p
  <2>1. PICK k \in Nat : ((fr * by) \div down) % W = k /\ k * down = fr * by
    BY <1>2, <1>c
  <2> QED BY <1>11, <1>14, <2>1
<1>18. v.freeswap * v.mem_unit = fs * p
  <2>1. PICK k \in Nat : ((fs * by) \div down) % W = k /\ k * down = fs * by
    BY <1>2, <1>c
  <2> QED BY <1>11, <1>14, <2>1
<1> QED BY <1>1, <1>3, <1>15, <1>16, <1>17, <1>18

\* do_sysinfo() reports memory and swap space exactly in the unit it names,
\* whatever their sizes: its overflow test, a sum that becomes smaller while it
\* is doubled, is right for every page size.  So does the 32-bit variant while
\* both have less than 2^32 pages.
THEOREM SysinfoIsExact == InfoSpec => []SysinfoExact
<1>1. ASSUME InfoInv, NEW a \in Asker, ask[a].at = "done", ask[a].kind \in {"sysinfo", "compat"},
             ask[a].kind = "sysinfo" \/ (totalram < CompatWord /\ totalswap < CompatWord)
      PROVE  LET s == ask[a].answer
                 g == ask[a].read IN
             /\ s.totalram * s.mem_unit = totalram * PageBytes
             /\ s.totalswap * s.mem_unit = totalswap * PageBytes
             /\ s.freeram * s.mem_unit = g["freeram"] * PageBytes
             /\ s.freeswap * s.mem_unit = g["freeswap"] * PageBytes
  <2>1. PICK g, v, kind : g = ask[a].read /\ v = ask[a].answer /\ kind = ask[a].kind
    OBVIOUS
  <2>2. AskOK(ask[a], page, totalram, totalswap)
    BY <1>1 DEF InfoInv, AsksInv
  <2>3. g \in [Counters -> Nat] /\ g["freeram"] <= totalram /\ g["freeswap"] <= totalswap
    BY Zenon, <2>1, <2>2 DEF AskOK, IsAsk, ReadBound, Counters
  <2>4. PICK s : v = Answer(kind, g, s)
    BY <1>1, <2>1 DEF InfoInv, DoneInv
  <2>5. CASE kind = "sysinfo"
    <3>1. v = DoSysinfo(g)
      BY <2>4, <2>5 DEF Answer
    <3>2. Exact(v, g)
      BY <1>1, <2>3, <3>1, SysinfoIs
    <3>3. PICK tr, ts, fr, fs \in Nat : tr = totalram /\ ts = totalswap /\ fr = g["freeram"] /\ fs = g["freeswap"]
      BY <1>1, <2>3 DEF InfoInv, PagesInv, Counters
    <3>4. PICK p \in Nat \ {0} : p = PageBytes
      BY InfoAssumption, PowerPositive DEF PageBytes
    <3>5. PICK u \in Nat : u = v.mem_unit
      BY <3>2, <3>4 DEF Exact
    <3>6. PICK by \in {1, p} : /\ by * u = p
                               /\ v.totalram = tr * by /\ v.totalswap = ts * by
                               /\ v.freeram = fr * by /\ v.freeswap = fs * by
      BY <3>2, <3>3, <3>4, <3>5 DEF Exact
    <3>7. \A x \in Nat : (x * by) * u = x * p
      BY <3>6, UnitIs
    <3> QED BY <2>1, <3>3, <3>4, <3>5, <3>6, <3>7
  <2>6. CASE kind = "compat"
    <3>1. v = CompatSysinfo(g)
      BY <2>4, <2>6 DEF Answer
    <3>2. totalram < CompatWord /\ totalswap < CompatWord
      BY <1>1, <2>1, <2>6
    <3> QED BY <1>1, <2>1, <2>3, <3>1, <3>2, CompatIs
  <2> QED BY <1>1, <2>1, <2>5, <2>6
<1>2. InfoInv => SysinfoExact
  BY <1>1 DEF SysinfoExact
<1> QED BY <1>2, InfoInvariant, PTL
=============================================================================
