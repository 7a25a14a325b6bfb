--------------------------- MODULE WorkGraph_proofs ---------------------------
(***************************************************************************)
(* Proofs about the dispatcher of work graphs (WorkGraph) and about the    *)
(* allocation of the records that its nodes produce (NodeRecords).         *)
(*                                                                         *)
(* WorkGraph: whatever the size of rows, workgroups, windows, grids and    *)
(* columns, the dispatcher calls the node for nothing that was not asked   *)
(* for, and never twice for the same.                                      *)
(*                                                                         *)
(* The argument.  What a call is for depends on the unit that made it and  *)
(* on the iteration alone (CallInv), so that units may run in any order.   *)
(* Units have different numbers (SameNumber), a number gives its records   *)
(* (RecordsTell), the iterations of a column are different modulo its size *)
(* and the bits of an iteration give it back (GridTells).                  *)
(*                                                                         *)
(* NodeRecords: whatever the number of waves, lanes, groups, threads and   *)
(* calls, allocations share no memory, all are listed and counted, and one *)
(* group is the last.  The argument: the threads of a group are in step,   *)
(* as each has joined two barriers for every allocation behind it          *)
(* (InStep), so that a thread that passes the first barrier of a call      *)
(* finds the first thread still in that call (Meet) and reads its offset.  *)
(* An allocation in progress has payload memory below the counter that     *)
(* neither another allocation nor a given record overlaps (Regions), and a *)
(* list entry that nobody else writes and that covers its records when     *)
(* they are given (Slots).  The totals sum what those have asked for that  *)
(* have passed the counter (Totals), the cookie counts the groups that     *)
(* have not finished (Cookie).                                             *)
(***************************************************************************)
EXTENDS WorkGraph, NodeRecords, FiniteSetTheorems, NaturalsInduction, WellFoundedInduction, TLAPS

-----------------------------------------------------------------------------
(* Powers of two.                                                          *)

LEMMA Least ==
  ASSUME NEW T, T \subseteq Nat, T # {}
  PROVE  \E x \in T : \A y \in T : x <= y
<1>1. PICK x \in T : \A y \in T : ~ (<<y, x>> \in OpToRel(<, Nat))
  BY NatLessThanWellFounded, WFMin, Zenon
<1>2. ASSUME NEW y \in T, y < x PROVE FALSE
  <2>1. <<y, x>> \in Nat \X Nat /\ <<y, x>>[1] < <<y, x>>[2]
    BY <1>2
  <2>2. <<y, x>> \in OpToRel(<, Nat)
    BY <2>1, Zenon DEF OpToRel
  <2> QED BY <1>1, <2>2, Zenon
<1> QED BY <1>2

\* Induction over a set.
LEMMA SetInduction ==
  ASSUME NEW P, P \subseteq Nat, 0 \in P, \A n \in P : n + 1 \in P
  PROVE  P = Nat
<1> DEFINE T == Nat \ P
<1>1. SUFFICES ASSUME T # {} PROVE FALSE
  OBVIOUS
<1>2. PICK x \in T : \A y \in T : x <= y
  BY <1>1, Least
<1>3. x - 1 \in Nat /\ x - 1 \notin T
  BY <1>2
<1>4. x - 1 + 1 \in P
  BY <1>3
<1> QED BY <1>2, <1>4

\* The powers up to 2^n.
Powers(n, f) == f[0] = 1 /\ \A k \in 1 .. n : f[k] = 2 * f[k - 1]

LEMMA PowersExist == \A n \in Nat : \E f \in [0 .. n -> Nat] : Powers(n, f)
<1> DEFINE P == {n \in Nat : \E f \in [0 .. n -> Nat] : Powers(n, f)}
<1>1. 0 \in P
  <2>1. [k \in 0 .. 0 |-> 1] \in [0 .. 0 -> Nat] /\ Powers(0, [k \in 0 .. 0 |-> 1])
    BY DEF Powers
  <2> QED BY <2>1
<1>2. ASSUME NEW n \in P PROVE n + 1 \in P
  <2>1. PICK f \in [0 .. n -> Nat] : Powers(n, f)
    OBVIOUS
  <2> DEFINE g == [k \in 0 .. n + 1 |-> IF k = n + 1 THEN 2 * f[n] ELSE f[k]]
  <2>2. n \in Nat /\ f[n] \in Nat
    OBVIOUS
  <2>3. g \in [0 .. n + 1 -> Nat]
    BY <2>2
  <2>4. Powers(n + 1, g)
    BY <2>1, <2>2 DEF Powers
  <2> HIDE DEF g
  <2>5. n + 1 \in Nat
    BY <2>2
  <2> QED BY <2>3, <2>4, <2>5, Zenon
<1>3. P = Nat
  <2> HIDE DEF P
  <2>1. P \subseteq Nat
    BY DEF P
  <2> QED BY <1>1, <1>2, <2>1, SetInduction
<1> QED BY <1>3

LEMMA PowersAgree ==
  ASSUME NEW m \in Nat, NEW n \in Nat, NEW f \in [0 .. m -> Nat], NEW g \in [0 .. n -> Nat],
         Powers(m, f), Powers(n, g), NEW k \in Nat, k <= m, k <= n
  PROVE  f[k] = g[k]
<1> DEFINE P == {i \in Nat : i <= m /\ i <= n => f[i] = g[i]}
<1>1. 0 \in P
  BY DEF Powers
<1>2. ASSUME NEW i \in P PROVE i + 1 \in P
  <2> SUFFICES ASSUME i + 1 <= m, i + 1 <= n PROVE f[i + 1] = g[i + 1]
    OBVIOUS
  <2>1. i \in Nat /\ f[i] = g[i] /\ i + 1 \in 1 .. m /\ i + 1 \in 1 .. n
    OBVIOUS
  <2>2. f[i + 1] = 2 * f[i + 1 - 1] /\ g[i + 1] = 2 * g[i + 1 - 1]
    BY <2>1 DEF Powers
  <2>3. i + 1 - 1 = i
    BY <2>1
  <2> QED BY <2>1, <2>2, <2>3
<1>3. P = Nat
  <2> HIDE DEF P
  <2>1. P \subseteq Nat
    BY DEF P
  <2> QED BY <1>1, <1>2, <2>1, SetInduction
<1> QED BY <1>3

\* The function that Pow2 defines.
LEMMA Pow2Equation == Pow2 = [n \in Nat |-> IF n = 0 THEN 1 ELSE 2 * Pow2[n - 1]]
<1> DEFINE T(n) == CHOOSE f \in [0 .. n -> Nat] : Powers(n, f)
           F == [n \in Nat |-> T(n)[n]]
<1>1. ASSUME NEW n \in Nat PROVE T(n) \in [0 .. n -> Nat] /\ Powers(n, T(n))
  BY PowersExist
<1>2. ASSUME NEW n \in Nat PROVE F[n] = T(n)[n]
  OBVIOUS
<1> HIDE DEF T, F
<1>3. F[0] = 1
  BY <1>1, <1>2 DEF Powers
<1>4. ASSUME NEW n \in Nat, n # 0 PROVE F[n] = 2 * F[n - 1]
  <2>1. n - 1 \in Nat /\ n \in 1 .. n
    BY <1>4
  <2>2. F[n] = T(n)[n] /\ F[n - 1] = T(n - 1)[n - 1]
    BY <1>2, <2>1
  <2>3. T(n)[n] = 2 * T(n)[n - 1]
    BY <1>1, <2>1 DEF Powers
  <2>4. T(n)[n - 1] = T(n - 1)[n - 1]
    <3>1. T(n) \in [0 .. n -> Nat] /\ Powers(n, T(n))
      BY <1>1
    <3>2. T(n - 1) \in [0 .. n - 1 -> Nat] /\ Powers(n - 1, T(n - 1))
      BY <1>1, <2>1
    <3>3. n - 1 <= n /\ n - 1 <= n - 1
      OBVIOUS
    <3> QED BY <2>1, <3>1, <3>2, <3>3, PowersAgree, Zenon
  <2> QED BY <2>2, <2>3, <2>4
<1>5. F = [n \in Nat |-> F[n]]
  BY DEF F
<1>6. F = [n \in Nat |-> IF n = 0 THEN 1 ELSE 2 * F[n - 1]]
  BY <1>3, <1>4, <1>5
<1>7. Pow2 = CHOOSE f : f = [n \in Nat |-> IF n = 0 THEN 1 ELSE 2 * f[n - 1]]
  BY DEF Pow2
<1> HIDE DEF Pow2
<1> QED BY <1>6, <1>7, Zenon

LEMMA Pow2Facts ==
  /\ Pow2[0] = 1
  /\ \A n \in Nat : Pow2[n + 1] = 2 * Pow2[n] /\ Pow2[n] \in Nat \ {0}
<1>1. Pow2[0] = 1 /\ \A n \in Nat : Pow2[n + 1] = 2 * Pow2[n]
  <2> HIDE DEF Pow2
  <2>1. ASSUME NEW n \in Nat PROVE Pow2[n + 1] = 2 * Pow2[n]
    <3>1. n + 1 \in Nat /\ n + 1 # 0 /\ n + 1 - 1 = n
      OBVIOUS
    <3> QED BY <3>1, Pow2Equation
  <2>2. Pow2[0] = 1
    BY Pow2Equation
  <2> QED BY <2>1, <2>2
<1> DEFINE P == {n \in Nat : Pow2[n] \in Nat \ {0}}
<1>2. P = Nat
  <2>1. 0 \in P
    BY <1>1
  <2>2. \A n \in P : n + 1 \in P
    BY <1>1
  <2>3. P \subseteq Nat
    OBVIOUS
  <2> HIDE DEF P
  <2> QED BY <2>1, <2>2, <2>3, SetInduction
<1> QED BY <1>1, <1>2

\* Shifts add up.
LEMMA Pow2Sum ==
  ASSUME NEW a \in Nat, NEW b \in Nat
  PROVE  Pow2[a + b] = Pow2[a] * Pow2[b]
<1> DEFINE P == {n \in Nat : Pow2[a + n] = Pow2[a] * Pow2[n]}
<1>1. 0 \in P
  BY Pow2Facts
<1>2. ASSUME NEW n \in P PROVE n + 1 \in P
  <2>1. n \in Nat /\ a + n \in Nat /\ a + (n + 1) = (a + n) + 1 /\ Pow2[a + n] = Pow2[a] * Pow2[n]
    OBVIOUS
  <2>2. Pow2[a + (n + 1)] = 2 * (Pow2[a] * Pow2[n]) /\ Pow2[n + 1] = 2 * Pow2[n]
    BY <2>1, Pow2Facts
  <2>3. Pow2[a] \in Nat /\ Pow2[n] \in Nat
    BY <2>1, Pow2Facts
  <2>4. 2 * (Pow2[a] * Pow2[n]) = Pow2[a] * (2 * Pow2[n])
    BY <2>3
  <2> QED BY <2>1, <2>2, <2>4
<1>3. P = Nat
  <2>1. P \subseteq Nat
    OBVIOUS
  <2> HIDE DEF P
  <2> QED BY <1>1, <1>2, <2>1, SetInduction
<1> QED BY <1>3

-----------------------------------------------------------------------------
(* Quotients and remainders.                                               *)

\* A number in a mixed radix has one reading.
LEMMA Unique ==
  ASSUME NEW q \in Nat, NEW s \in Nat, NEW b \in Nat, NEW r \in 0 .. b - 1, NEW t \in 0 .. b - 1,
         q * b + r = s * b + t
  PROVE  q = s /\ r = t
OBVIOUS

LEMMA Quotient ==
  ASSUME NEW a \in Nat, NEW b \in Nat \ {0}
  PROVE  /\ a \div b \in Nat /\ a % b \in 0 .. b - 1
         /\ a = b * (a \div b) + (a % b)
OBVIOUS

LEMMA Remainder ==
  ASSUME NEW b \in Nat \ {0}, NEW a \in 0 .. b - 1
  PROVE  a % b = a /\ a \div b = 0
OBVIOUS

LEMMA DivLess ==
  ASSUME NEW a \in Nat, NEW b \in Nat \ {0}, NEW c \in Nat, a < c * b
  PROVE  a \div b < c
<1> DEFINE q == a \div b
<1>1. q \in Nat /\ b * q <= a
  BY Quotient
<1> HIDE DEF q
<1>2. ASSUME q >= c PROVE FALSE
  <2>1. c * b <= q * b
    BY <1>1, <1>2
  <2> QED BY <1>1, <2>1
<1> QED BY <1>1, <1>2 DEF q

LEMMA DivDiv ==
  ASSUME NEW a \in Nat, NEW b \in Nat \ {0}, NEW c \in Nat \ {0}
  PROVE  a \div (b * c) = (a \div b) \div c
<1> DEFINE d == a \div b
           q == d \div c
           r == d % c
           s == a % b
<1>1. d \in Nat /\ s \in 0 .. b - 1 /\ a = b * d + s
  BY Quotient
<1>2. q \in Nat /\ r \in 0 .. c - 1 /\ d = c * q + r
  BY <1>1, Quotient
<1>3. b * c \in Nat \ {0}
  OBVIOUS
<1>4. a \div (b * c) \in Nat /\ a % (b * c) \in 0 .. (b * c) - 1
      /\ a = (b * c) * (a \div (b * c)) + (a % (b * c))
  BY <1>3, Quotient
<1> HIDE DEF d, q, r, s
<1>5. a = q * (b * c) + (b * r + s)
  <2>1. b * d = b * (c * q) + b * r
    BY <1>1, <1>2
  <2>2. b * (c * q) = q * (b * c)
    BY <1>2
  <2> QED BY <1>1, <1>2, <2>1, <2>2
<1>6. b * r + s \in 0 .. (b * c) - 1
  <2>1. r + 1 <= c /\ b * (r + 1) <= b * c
    BY <1>2
  <2>2. b * (r + 1) = b * r + b /\ b * r >= 0
    BY <1>2
  <2> QED BY <1>1, <1>2, <2>1, <2>2
<1>7. a \div (b * c) = q
  <2> DEFINE m == b * c
             x == a \div m
             y == a % m
             w == b * r + s
  <2>1. x * m + y = q * m + w /\ x \in Nat /\ y \in 0 .. m - 1 /\ w \in 0 .. m - 1 /\ m \in Nat
    BY <1>3, <1>4, <1>5, <1>6
  <2> HIDE DEF m, x, y, w
  <2>2. x = q
    BY <2>1, <1>2, Unique
  <2> QED BY <2>2 DEF x, m
<1> QED BY <1>7 DEF q, d

-----------------------------------------------------------------------------
(* Words and jobs.                                                         *)

LEMMA WordFacts ==
  /\ WordRange \in Nat /\ WordRange >= 2
  /\ MaxGrid \in Nat \ {0} /\ MaxGrid < WordRange
  /\ MaxRecords \in Nat /\ MaxRecords < WordRange
  /\ RowLength \in Nat \ {0} /\ ThreadGroup \in Nat \ {0} /\ CoalesceStride \in Nat \ {0}
  /\ WordBits \in Nat
<1> DEFINE cube == MaxGrid * MaxGrid * MaxGrid
<1>1. MaxGrid \in Nat \ {0} /\ MaxRecords \in Nat /\ RowLength \in Nat \ {0} /\ ThreadGroup \in Nat \ {0}
      /\ CoalesceStride \in Nat \ {0} /\ WordBits \in Nat
  BY WorkGraphAssumption
<1>2. WordRange \in Nat /\ cube < WordRange /\ MaxRecords < WordRange
  BY WorkGraphAssumption, Pow2Facts DEF WordRange
<1>3. cube \in Nat /\ cube >= MaxGrid
  <2>1. MaxGrid * MaxGrid >= MaxGrid /\ MaxGrid * MaxGrid \in Nat
    BY <1>1
  <2>2. MaxGrid * MaxGrid * MaxGrid >= MaxGrid * MaxGrid
    BY <1>1, <2>1
  <2> QED BY <1>1, <2>1, <2>2
<1> HIDE DEF cube
<1> QED BY <1>1, <1>2, <1>3

LEMMA SubExact ==
  ASSUME NEW a \in Nat, NEW b \in Nat, b <= a, a - b < WordRange
  PROVE  Sub(a, b) = a - b
<1> DEFINE d == a - b
           y == (d + WordRange) % WordRange
           x == (d + WordRange) \div WordRange
<1>1. WordRange \in Nat \ {0} /\ d \in 0 .. WordRange - 1 /\ d + WordRange \in Nat
  BY WordFacts
<1>2. x \in Nat /\ y \in 0 .. WordRange - 1 /\ x * WordRange + y = 1 * WordRange + d
  BY <1>1, Quotient
<1> HIDE DEF x, y
<1>3. y = d
  BY <1>1, <1>2, Unique
<1> QED BY <1>3 DEF Sub, y

\* One less than zero is a word with its top bit set.
LEMMA SubZero == Sub(0, 1) = WordRange - 1
<1>1. WordRange \in Nat \ {0} /\ WordRange - 1 \in 0 .. WordRange - 1
  BY WordFacts
<1>2. (WordRange - 1) % WordRange = WordRange - 1
  BY <1>1, Remainder
<1>3. 0 - 1 + WordRange = WordRange - 1
  BY <1>1
<1> QED BY <1>2, <1>3 DEF Sub

\* The bits of a dimension hold every index below its size.
LEMMA BitCountFacts ==
  ASSUME NEW size \in 1 .. MaxGrid
  PROVE  BitCount(size) \in Nat /\ size <= Pow2[BitCount(size)]
<1> DEFINE m == size - 1
           Fits(n) == Pow2[n] <= m /\ m < Pow2[n + 1]
           n == CHOOSE k \in 0 .. WordBits - 1 : Fits(k)
<1>1. m \in Nat /\ m < WordRange /\ Sub(size, 1) = m
  BY WordFacts, SubExact
<1>2. CASE m = 0
  BY <1>1, <1>2, Pow2Facts DEF BitCount
<1>3. CASE m # 0
  <2> DEFINE T == {k \in Nat : m < Pow2[k]}
  <2>1. WordBits \in T
    BY <1>1, WordFacts DEF WordRange
  <2>2. PICK x \in T : \A y \in T : x <= y
    BY <2>1, Least
  <2>3. x \in Nat /\ x <= WordBits /\ m < Pow2[x]
    BY <2>1, <2>2
  <2>4. x # 0
    BY <1>1, <1>3, <2>3, Pow2Facts
  <2>5. x - 1 \in 0 .. WordBits - 1 /\ x - 1 + 1 = x /\ x - 1 \notin T
    BY <2>2, <2>3, <2>4, WordFacts
  <2>6. Pow2[x - 1] <= m
    BY <1>1, <2>5, Pow2Facts
  <2>7. Fits(x - 1)
    BY <2>3, <2>5, <2>6
  <2>8. n \in 0 .. WordBits - 1 /\ Fits(n)
    <3> HIDE DEF Fits
    <3> QED BY <2>5, <2>7
  <2>9. BitCount(size) = 1 + n
    BY <1>1, <1>3 DEF BitCount
  <2> HIDE DEF n
  <2>10. 1 + n = n + 1 /\ n + 1 \in Nat /\ n \in Nat
    BY <2>8
  <2>11. m < Pow2[n + 1] /\ Pow2[n + 1] \in Nat
    BY <2>8, <2>10, Pow2Facts
  <2>12. size <= Pow2[n + 1]
    BY <1>1, <2>11
  <2> QED BY <2>9, <2>10, <2>12
<1> QED BY <1>2, <1>3

\* The fields of a job.
LEMMA JobFields ==
  ASSUME NEW launches, NEW entries, NEW indirects, NEW statics, NEW maxgrids, NEW dims, NEW grids,
         NEW records, NEW depths,
         job \in Jobs(launches, entries, indirects, statics, maxgrids, dims, grids, records, depths)
  PROVE  /\ job.launch \in launches /\ job.entry \in entries /\ job.static \in statics
         /\ job.maxgrid \in maxgrids /\ job.dims \in dims /\ job.grid \in grids
         /\ job.records \in records /\ job.depth \in depths
         /\ job.first \in {0, 1} /\ job.base = "payloads" /\ job.stride = 4
BY DEF Jobs

\* What every launched job has in common.
LEMMA JobFacts ==
  ASSUME job \in LaunchedJobs
  PROVE  /\ job.launch \in {"thread", "coalescing", "broadcasting"}
         /\ job.static \in BOOLEAN /\ job.maxgrid \in BOOLEAN /\ job.entry \in BOOLEAN
         /\ job.dims \in 0 .. 3 /\ job.first \in Nat /\ job.records \in Nat /\ job.depth \in Nat \ {0}
         /\ job.base = "payloads" /\ job.stride = 4
         /\ job.static => job.launch = "broadcasting" /\ ~job.maxgrid
         /\ (job.launch = "broadcasting" => job.static) => job.depth = 1
         /\ ~job.static => job.records <= MaxRecords /\ job.grid \in [1 .. 3 -> 0 .. MaxGrid]
         /\ job.grid \in [1 .. 3 -> Nat]
         /\ ~InPayload => \A i \in 1 .. 3 : job.grid[i] >= 1
<1>0. MaxRecords \in Nat \ {0} /\ MaxDepth \in Nat \ {0} /\ MaxGrid \in Nat \ {0}
  BY WorkGraphAssumption
<1>1. CASE job \in Jobs({"thread", "coalescing"}, BOOLEAN, BOOLEAN, {FALSE}, {FALSE}, {0}, OneGrid, 0 .. MaxRecords, {1})
  <2>1. /\ job.launch \in {"thread", "coalescing"} /\ job.entry \in BOOLEAN /\ job.static \in {FALSE}
        /\ job.maxgrid \in {FALSE} /\ job.dims \in {0} /\ job.grid \in OneGrid
        /\ job.records \in 0 .. MaxRecords /\ job.depth \in {1}
        /\ job.first \in {0, 1} /\ job.base = "payloads" /\ job.stride = 4
    BY <1>1, JobFields, Zenon
  <2>2. job.grid \in [1 .. 3 -> 0 .. MaxGrid] /\ job.grid \in [1 .. 3 -> Nat]
    BY <1>0, <2>1 DEF OneGrid
  <2>3. ~InPayload => \A i \in 1 .. 3 : job.grid[i] >= 1
    BY <1>0, <2>1 DEF OneGrid, InPayload
  <2>4. job.dims \in 0 .. 3 /\ job.first \in Nat /\ job.records \in Nat /\ job.depth \in Nat \ {0}
    BY <1>0, <2>1
  <2>5. job.records <= MaxRecords
    BY <1>0, <2>1
  <2>6. ~job.static /\ job.depth = 1
    BY <2>1, Zenon
  <2>7. job.launch \in {"thread", "coalescing", "broadcasting"} /\ job.static \in BOOLEAN
        /\ job.maxgrid \in BOOLEAN /\ job.entry \in BOOLEAN
    BY <2>1, Zenon
  <2> QED BY <2>1, <2>2, <2>3, <2>4, <2>5, <2>6, <2>7, Zenon
<1>2. CASE job \in Jobs({"broadcasting"}, BOOLEAN, {FALSE}, {TRUE}, {FALSE}, {0}, {[i \in 1 .. 3 |-> IF i = 1 THEN 2 ELSE 1]}, {1, 2}, {1})
  <2>1. /\ job.launch \in {"broadcasting"} /\ job.entry \in BOOLEAN /\ job.static \in {TRUE}
        /\ job.maxgrid \in {FALSE} /\ job.dims \in {0} /\ job.grid \in {[i \in 1 .. 3 |-> IF i = 1 THEN 2 ELSE 1]}
        /\ job.records \in {1, 2} /\ job.depth \in {1}
        /\ job.first \in {0, 1} /\ job.base = "payloads" /\ job.stride = 4
    BY <1>2, JobFields, Zenon
  <2>2. job.grid \in [1 .. 3 -> Nat]
    BY <1>0, <2>1
  <2>3. ~InPayload => \A i \in 1 .. 3 : job.grid[i] >= 1
    BY <1>0, <2>1 DEF InPayload
  <2>4. job.dims \in 0 .. 3 /\ job.first \in Nat /\ job.records \in Nat /\ job.depth \in Nat \ {0}
    BY <1>0, <2>1
  <2>6. job.static /\ job.launch = "broadcasting" /\ ~job.maxgrid /\ job.depth = 1
    BY <2>1, Zenon
  <2>7. job.launch \in {"thread", "coalescing", "broadcasting"} /\ job.static \in BOOLEAN
        /\ job.maxgrid \in BOOLEAN /\ job.entry \in BOOLEAN
    BY <2>1, Zenon
  <2> QED BY <2>1, <2>2, <2>3, <2>4, <2>6, <2>7, Zenon
<1>3. CASE job \in Jobs({"broadcasting"}, BOOLEAN, {FALSE}, {FALSE}, BOOLEAN, 0 .. 3, OneGrid, 0 .. MaxRecords, {1})
  <2>1. /\ job.launch \in {"broadcasting"} /\ job.entry \in BOOLEAN /\ job.static \in {FALSE}
        /\ job.maxgrid \in BOOLEAN /\ job.dims \in 0 .. 3 /\ job.grid \in OneGrid
        /\ job.records \in 0 .. MaxRecords /\ job.depth \in {1}
        /\ job.first \in {0, 1} /\ job.base = "payloads" /\ job.stride = 4
    BY <1>3, JobFields, Zenon
  <2>2. job.grid \in [1 .. 3 -> 0 .. MaxGrid] /\ job.grid \in [1 .. 3 -> Nat]
    BY <1>0, <2>1 DEF OneGrid
  <2>3. ~InPayload => \A i \in 1 .. 3 : job.grid[i] >= 1
    BY <1>0, <2>1 DEF OneGrid, InPayload
  <2>4. job.dims \in 0 .. 3 /\ job.first \in Nat /\ job.records \in Nat /\ job.depth \in Nat \ {0}
    BY <1>0, <2>1
  <2>5. job.records <= MaxRecords
    BY <1>0, <2>1
  <2>6. ~job.static /\ job.depth = 1
    BY <2>1, Zenon
  <2>7. job.launch \in {"thread", "coalescing", "broadcasting"} /\ job.static \in BOOLEAN
        /\ job.maxgrid \in BOOLEAN /\ job.entry \in BOOLEAN
    BY <2>1, Zenon
  <2> QED BY <2>1, <2>2, <2>3, <2>4, <2>5, <2>6, <2>7, Zenon
<1>4. CASE job \in Jobs({"broadcasting"}, {TRUE}, {FALSE}, {FALSE}, {TRUE}, 1 .. 3, Grids, {1}, 1 .. MaxDepth)
  <2>1. /\ job.launch \in {"broadcasting"} /\ job.entry \in {TRUE} /\ job.static \in {FALSE}
        /\ job.maxgrid \in {TRUE} /\ job.dims \in 1 .. 3 /\ job.grid \in Grids
        /\ job.records \in {1} /\ job.depth \in 1 .. MaxDepth
        /\ job.first \in {0, 1} /\ job.base = "payloads" /\ job.stride = 4
    BY <1>4, JobFields, Zenon
  <2>2. job.grid \in [1 .. 3 -> 0 .. MaxGrid] /\ job.grid \in [1 .. 3 -> Nat]
    BY <1>0, <2>1 DEF Grids
  <2>3. ~InPayload => \A i \in 1 .. 3 : job.grid[i] >= 1
    <3>1. job.dims > 0
      BY <2>1
    <3>2. job.maxgrid
      BY <2>1, Zenon
    <3> QED BY <3>1, <3>2, Zenon DEF InPayload
  <2>4. job.dims \in 0 .. 3 /\ job.first \in Nat /\ job.records \in Nat /\ job.depth \in Nat \ {0}
    BY <1>0, <2>1
  <2>5. job.records <= MaxRecords
    BY <1>0, <2>1
  <2>6. ~job.static /\ job.launch = "broadcasting"
    BY <2>1, Zenon
  <2>7. job.launch \in {"thread", "coalescing", "broadcasting"} /\ job.static \in BOOLEAN
        /\ job.maxgrid \in BOOLEAN /\ job.entry \in BOOLEAN
    BY <2>1, Zenon
  <2> QED BY <2>1, <2>2, <2>3, <2>4, <2>5, <2>6, <2>7, Zenon
<1>5. CASE job \in Jobs({"broadcasting"}, {TRUE}, {FALSE}, {FALSE}, BOOLEAN, {0}, FullGrids, {1}, 1 .. MaxDepth)
  <2>1. /\ job.launch \in {"broadcasting"} /\ job.entry \in {TRUE} /\ job.static \in {FALSE}
        /\ job.maxgrid \in BOOLEAN /\ job.dims \in {0} /\ job.grid \in FullGrids
        /\ job.records \in {1} /\ job.depth \in 1 .. MaxDepth
        /\ job.first \in {0, 1} /\ job.base = "payloads" /\ job.stride = 4
    BY <1>5, JobFields, Zenon
  <2>2. job.grid \in [1 .. 3 -> 0 .. MaxGrid] /\ job.grid \in [1 .. 3 -> Nat]
    BY <1>0, <2>1 DEF FullGrids
  <2>3. ~InPayload => \A i \in 1 .. 3 : job.grid[i] >= 1
    BY <1>0, <2>1 DEF FullGrids, InPayload
  <2>4. job.dims \in 0 .. 3 /\ job.first \in Nat /\ job.records \in Nat /\ job.depth \in Nat \ {0}
    BY <1>0, <2>1
  <2>5. job.records <= MaxRecords
    BY <1>0, <2>1
  <2>6. ~job.static /\ job.launch = "broadcasting"
    BY <2>1, Zenon
  <2>7. job.launch \in {"thread", "coalescing", "broadcasting"} /\ job.static \in BOOLEAN
        /\ job.maxgrid \in BOOLEAN /\ job.entry \in BOOLEAN
    BY <2>1, Zenon
  <2> QED BY <2>1, <2>2, <2>3, <2>4, <2>5, <2>6, <2>7, Zenon
<1> QED BY <1>1, <1>2, <1>3, <1>4, <1>5, Zenon DEF LaunchedJobs

-----------------------------------------------------------------------------
(* Launched workgroups are numbered: by rows, then the ones that are left. *)

WholeRows == Workgroups \div RowLength

LEMMA WorkgroupFacts ==
  ASSUME job \in LaunchedJobs, ~job.static
  PROVE  /\ Stride(job.launch) \in Nat \ {0} /\ Workgroups \in Nat /\ WholeRows \in Nat
         /\ Workgroups = WholeRows * RowLength + (Workgroups % RowLength)
         /\ Workgroups % RowLength \in 0 .. RowLength - 1
         /\ \A n \in 0 .. Workgroups - 1 : n * Stride(job.launch) < job.records
         /\ job.launch = "broadcasting" => Workgroups = job.records
<1> DEFINE S == Stride(job.launch)
           W == Workgroups
<1>1. S \in Nat \ {0}
  BY JobFacts, WordFacts DEF Stride
<1>2. job.records \in Nat /\ job.records + S - 1 \in Nat
  BY <1>1, JobFacts
<1>3. W = (job.records + S - 1) \div S
  BY DEF Workgroups
<1>4. job.launch = "broadcasting" => W = job.records
  <2> SUFFICES ASSUME job.launch = "broadcasting" PROVE W = job.records
    OBVIOUS
  <2>1. S = 1
    BY DEF Stride
  <2> QED BY <1>2, <1>3, <2>1
<1> HIDE DEF S, W
<1>5. W \in Nat /\ S * W <= job.records + S - 1
  <2> DEFINE t == job.records + S - 1
  <2>1. t \in Nat /\ W = t \div S
    BY <1>2, <1>3
  <2> HIDE DEF t
  <2>2. t \div S \in Nat /\ t = S * (t \div S) + (t % S) /\ t % S \in 0 .. S - 1
    BY <1>1, <2>1, Quotient
  <2>3. W \in Nat /\ S * W <= t
    BY <1>1, <2>1, <2>2
  <2> QED BY <2>3 DEF t
<1>6. ASSUME NEW n \in 0 .. W - 1 PROVE n * S < job.records
  <2>1. n + 1 <= W /\ S * (n + 1) <= S * W
    BY <1>1, <1>5
  <2>2. S * (n + 1) = n * S + S
    BY <1>1
  <2> QED BY <1>1, <1>2, <1>5, <2>1, <2>2
<1>7. W \div RowLength \in Nat /\ W % RowLength \in 0 .. RowLength - 1
      /\ W = RowLength * (W \div RowLength) + (W % RowLength)
  BY <1>5, WordFacts, Quotient
<1>8. RowLength * (W \div RowLength) = (W \div RowLength) * RowLength
  BY <1>7, WordFacts
<1> QED BY <1>1, <1>4, <1>5, <1>6, <1>7, <1>8 DEF S, W, WholeRows

LEMMA RowFacts ==
  ASSUME NEW g \in Rows
  PROVE  /\ g = [offset |-> job.first, x |-> g.x, y |-> g.y, z |-> g.z]
         /\ g.offset = job.first /\ g.x \in 0 .. RowLength - 1 /\ g.y \in 0 .. WholeRows - 1
         /\ g.z \in 0 .. job.depth - 1
BY DEF Rows, WholeRows

LEMMA RestFacts ==
  ASSUME NEW g \in Rest
  PROVE  /\ g = [offset |-> job.first + WholeRows * RowLength * Stride(job.launch),
                 x |-> g.x, y |-> 0, z |-> g.z]
         /\ g.offset = job.first + WholeRows * RowLength * Stride(job.launch)
         /\ g.x \in 0 .. (Workgroups % RowLength) - 1 /\ g.y = 0
         /\ g.z \in 0 .. job.depth - 1
BY DEF Rest, WholeRows

Number(g) == IF g \in Rows THEN g.y * RowLength + g.x ELSE WholeRows * RowLength + g.x

\* The number of a workgroup is what its coordinates stand for.
LEMMA NumberFacts ==
  ASSUME job \in LaunchedJobs, ~job.static, NEW g \in Rows \cup Rest
  PROVE  /\ Number(g) \in 0 .. Workgroups - 1 /\ g.z \in 0 .. job.depth - 1
         /\ g.offset \in Nat /\ g.x \in Nat /\ g.y \in Nat
         /\ g.offset + (g.y * RowLength + g.x) * Stride(job.launch)
              = job.first + Number(g) * Stride(job.launch)
<1> DEFINE R == RowLength
           Q == WholeRows
           W == Workgroups
           S == Stride(job.launch)
           T == W % R
<1>1. R \in Nat \ {0} /\ S \in Nat \ {0} /\ W \in Nat /\ Q \in Nat /\ T \in 0 .. R - 1
      /\ W = Q * R + T /\ job.first \in Nat
  BY WorkgroupFacts, WordFacts, JobFacts
<1>2. CASE g \in Rows
  <2>1. g.offset = job.first /\ g.x \in 0 .. R - 1 /\ g.y \in 0 .. Q - 1 /\ g.z \in 0 .. job.depth - 1
    BY <1>2, RowFacts
  <2>2. Number(g) = g.y * R + g.x
    BY <1>2 DEF Number
  <2> HIDE DEF R, Q, W, S, T
  <2>3. g.y * R + g.x < Q * R /\ g.y * R + g.x \in Nat
    <3>1. g.y + 1 <= Q /\ (g.y + 1) * R <= Q * R
      BY <1>1, <2>1
    <3>2. (g.y + 1) * R = g.y * R + R /\ g.y * R \in Nat
      BY <1>1, <2>1
    <3> QED BY <1>1, <2>1, <3>1, <3>2
  <2>4. Q * R \in Nat
    BY <1>1
  <2>5. Number(g) \in 0 .. W - 1
    BY <1>1, <2>2, <2>3, <2>4
  <2> QED BY <1>1, <2>1, <2>2, <2>5 DEF R, Q, W, S
<1>3. CASE g \notin Rows
  <2>1. g \in Rest
    BY <1>3
  <2>2. g.offset = job.first + Q * R * S /\ g.x \in 0 .. T - 1 /\ g.y = 0 /\ g.z \in 0 .. job.depth - 1
    BY <2>1, RestFacts
  <2>3. Number(g) = Q * R + g.x
    BY <1>3 DEF Number
  <2> HIDE DEF R, Q, W, S, T
  <2>4. Q * R \in Nat /\ Q * R * S \in Nat
    BY <1>1
  <2>5. Number(g) \in 0 .. W - 1
    BY <1>1, <2>2, <2>3, <2>4
  <2>6. g.offset \in Nat /\ g.x \in Nat /\ g.y \in Nat
    BY <1>1, <2>2, <2>4
  <2>7. g.offset + (g.y * R + g.x) * S = job.first + Q * R * S + g.x * S
    BY <1>1, <2>2, <2>6
  <2>8. (Q * R + g.x) * S = Q * R * S + g.x * S
    BY <1>1, <2>4, <2>6
  <2> QED BY <1>1, <2>2, <2>3, <2>4, <2>5, <2>6, <2>7, <2>8 DEF R, Q, W, S
<1> QED BY <1>2, <1>3

\* Workgroups with the same number are in one column.
LEMMA NumberTells ==
  ASSUME job \in LaunchedJobs, ~job.static, NEW g \in Rows \cup Rest, NEW h \in Rows \cup Rest,
         Number(g) = Number(h), g.z = h.z
  PROVE  g = h
<1> DEFINE R == RowLength
           Q == WholeRows
<1>1. R \in Nat \ {0} /\ Q \in Nat /\ Workgroups % R \in 0 .. R - 1
  BY WorkgroupFacts, WordFacts
\* A workgroup of a whole row comes before the ones that are left.
<1>2. ASSUME NEW a \in Rows, NEW b \in Rest, b \notin Rows PROVE Number(a) < Number(b)
  <2>1. a.x \in 0 .. R - 1 /\ a.y \in 0 .. Q - 1 /\ b.x \in Nat
    BY <1>1, RowFacts, RestFacts
  <2>2. Number(a) = a.y * R + a.x /\ Number(b) = Q * R + b.x
    BY <1>2 DEF Number
  <2> HIDE DEF R, Q
  <2>3. a.y + 1 <= Q /\ (a.y + 1) * R <= Q * R
    BY <1>1, <2>1
  <2>4. (a.y + 1) * R = a.y * R + R /\ a.y * R \in Nat /\ Q * R \in Nat
    BY <1>1, <2>1
  <2> QED BY <1>1, <2>1, <2>2, <2>3, <2>4
<1>3. Number(g) \in Nat /\ Number(h) \in Nat
  BY NumberFacts
<1>4. CASE g \in Rows /\ h \in Rows
  <2>1. g.x \in 0 .. R - 1 /\ g.y \in Nat /\ h.x \in 0 .. R - 1 /\ h.y \in Nat
    BY <1>1, <1>4, RowFacts
  <2>2. g.y * R + g.x = h.y * R + h.x
    BY <1>4 DEF Number
  <2>3. g.y = h.y /\ g.x = h.x
    <3> DEFINE a == g.y
               b == g.x
               c == h.y
               d == h.x
    <3>1. a \in Nat /\ c \in Nat /\ R \in Nat /\ b \in 0 .. R - 1 /\ d \in 0 .. R - 1 /\ a * R + b = c * R + d
      BY <1>1, <2>1, <2>2
    <3> HIDE DEF R, a, b, c, d
    <3>2. a = c /\ b = d
      BY <3>1, Unique
    <3> QED BY <3>2 DEF a, b, c, d
  <2>4. /\ g = [offset |-> job.first, x |-> g.x, y |-> g.y, z |-> g.z]
        /\ h = [offset |-> job.first, x |-> h.x, y |-> h.y, z |-> h.z]
    BY <1>4, RowFacts
  <2> QED BY <2>3, <2>4, Zenon
<1>5. CASE g \notin Rows /\ h \notin Rows
  <2>1. g \in Rest /\ h \in Rest
    BY <1>5
  <2>2. g.x \in Nat /\ h.x \in Nat
    BY <1>1, <2>1, RestFacts
  <2>3. Q * R + g.x = Q * R + h.x
    BY <1>5 DEF Number
  <2>4. g.x = h.x
    <3> HIDE DEF R, Q
    <3> QED BY <1>1, <2>2, <2>3
  <2>5. /\ g = [offset |-> job.first + WholeRows * RowLength * Stride(job.launch),
                x |-> g.x, y |-> 0, z |-> g.z]
        /\ h = [offset |-> job.first + WholeRows * RowLength * Stride(job.launch),
                x |-> h.x, y |-> 0, z |-> h.z]
    BY <2>1, RestFacts
  <2> QED BY <2>4, <2>5, Zenon
<1>6. CASE g \in Rows /\ h \notin Rows
  <2>1. Number(g) < Number(h)
    BY <1>2, <1>6
  <2> QED BY <1>3, <2>1
<1>7. CASE g \notin Rows /\ h \in Rows
  <2>1. Number(h) < Number(g)
    BY <1>2, <1>7
  <2> QED BY <1>3, <2>1
<1> QED BY <1>4, <1>5, <1>6, <1>7

-----------------------------------------------------------------------------
(* Records.                                                                *)

\* Two records are never at one place, and a payload is looked up where the
\* driver put it.
LEMMA ResolveFacts ==
  ASSUME job \in LaunchedJobs
  PROVE  /\ \A i : Resolve(i) = Address(i)
         /\ \A i, j \in Nat : Resolve(i) = Resolve(j) => i = j
<1>1. job.base = "payloads" /\ job.stride = 4
  BY JobFacts
<1>2. Base = job.base
  BY DEF Base, Pushed
<1>3. \A i : Resolve(i) = Address(i)
  BY <1>2 DEF Resolve, Address
<1>4. ASSUME NEW i \in Nat, NEW j \in Nat, Resolve(i) = Resolve(j) PROVE i = j
  <2>1. CASE job.entry
    <3>1. Resolve(i) = <<Base, i * job.stride>> /\ Resolve(j) = <<Base, j * job.stride>>
      BY <2>1 DEF Resolve
    <3>2. i * job.stride = j * job.stride
      <4>1. Resolve(i)[2] = i * job.stride /\ Resolve(j)[2] = j * job.stride
        BY <3>1
      <4> QED BY <1>4, <4>1, Zenon
    <3> QED BY <1>1, <3>2
  <2>2. CASE ~job.entry
    <3>1. Resolve(i) = <<Base, "offset", i>> /\ Resolve(j) = <<Base, "offset", j>>
      BY <2>2 DEF Resolve
    <3>2. Resolve(i)[3] = i /\ Resolve(j)[3] = j
      BY <3>1
    <3> QED BY <1>4, <3>2, Zenon
  <2> QED BY <2>1, <2>2
<1> QED BY <1>3, <1>4

\* The index of a unit: windows of records in the order of the numbers.
LEMMA IndexFacts ==
  ASSUME job \in LaunchedJobs, ~job.static, NEW u \in Launched
  PROVE  /\ u = <<u[1], u[2]>> /\ u[1] \in Rows \cup Rest
         /\ u[2] \in 0 .. Stride(job.launch) - 1
         /\ LinearIndex(u) = job.first + Number(u[1]) * Stride(job.launch) + u[2]
<1> DEFINE g == u[1]
           w == g.y * RowLength + g.x
<1>1. u \in (Rows \cup Rest) \X (IF job.launch = "thread" THEN 0 .. ThreadGroup - 1 ELSE {0})
  BY DEF Launched
<1>2. u = <<u[1], u[2]>> /\ g \in Rows \cup Rest
      /\ u[2] \in (IF job.launch = "thread" THEN 0 .. ThreadGroup - 1 ELSE {0})
  BY <1>1
<1>3. /\ g.offset \in Nat /\ g.x \in Nat /\ g.y \in Nat
      /\ g.offset + w * Stride(job.launch) = job.first + Number(g) * Stride(job.launch)
  BY <1>2, NumberFacts
<1>4. w \in Nat
  <2>1. g.y * RowLength \in Nat
    BY <1>3, WordFacts
  <2> QED BY <1>3, <2>1
<1>5. job.launch \in {"thread", "coalescing", "broadcasting"}
  BY JobFacts
<1> DEFINE S == Stride(job.launch)
<1>6. S \in Nat \ {0} /\ u[2] \in 0 .. S - 1
      /\ LinearIndex(u) = (w * S + u[2]) + g.offset
  <2>1. CASE job.launch = "thread"
    <3>1. S = ThreadGroup
      BY <2>1 DEF Stride
    <3>2. LinearIndex(u) = w * ThreadGroup + u[2] + g.offset
      BY <2>1 DEF LinearIndex
    <3> HIDE DEF w, g, S
    <3> QED BY <1>2, <2>1, <3>1, <3>2, WordFacts
  <2>2. CASE job.launch = "coalescing"
    <3>1. S = CoalesceStride /\ u[2] = 0
      BY <1>2, <2>2 DEF Stride
    <3>2. LinearIndex(u) = w * CoalesceStride + g.offset
      BY <2>2 DEF LinearIndex
    <3> HIDE DEF w, S
    <3>3. w * CoalesceStride \in Nat
      BY <1>4, WordFacts
    <3> QED BY <3>1, <3>2, <3>3, WordFacts
  <2>3. CASE job.launch = "broadcasting"
    <3>1. S = 1 /\ u[2] = 0
      BY <1>2, <2>3 DEF Stride
    <3>2. LinearIndex(u) = w + g.offset
      BY <2>3 DEF LinearIndex
    <3> HIDE DEF w, S
    <3> QED BY <1>4, <3>1, <3>2
  <2> QED BY <1>5, <2>1, <2>2, <2>3
<1>7. Number(g) \in Nat /\ job.first \in Nat
  BY <1>2, NumberFacts, JobFacts
<1> HIDE DEF w, S
<1>8. w * S \in Nat /\ Number(g) * S \in Nat /\ u[2] \in Nat
  BY <1>4, <1>6, <1>7
<1>9. g.offset + w * S = job.first + Number(g) * S
  BY <1>3 DEF S, w
<1>10. LinearIndex(u) = job.first + Number(g) * S + u[2]
  <2> DEFINE a == w * S
             b == Number(g) * S
  <2> HIDE DEF a, b, g
  <2>1. a \in Nat /\ b \in Nat /\ g.offset + a = job.first + b /\ LinearIndex(u) = (a + u[2]) + g.offset
    BY <1>6, <1>8, <1>9 DEF a, b, g
  <2>2. LinearIndex(u) = job.first + b + u[2]
    BY <1>3, <1>7, <1>8, <2>1 DEF g
  <2> QED BY <2>2 DEF b, g
<1> QED BY <1>2, <1>6, <1>10 DEF S

\* Two units with one index are in one column.
LEMMA IndexTells ==
  ASSUME job \in LaunchedJobs, ~job.static, NEW u \in Launched, NEW v \in Launched,
         LinearIndex(u) = LinearIndex(v), u[1].z = v[1].z
  PROVE  u = v
<1> DEFINE S == Stride(job.launch)
           m == Number(u[1])
           n == Number(v[1])
<1>1. S \in Nat \ {0} /\ job.first \in Nat
  BY WorkgroupFacts, JobFacts
<1>2. /\ u = <<u[1], u[2]>> /\ u[1] \in Rows \cup Rest /\ u[2] \in 0 .. S - 1
      /\ LinearIndex(u) = job.first + m * S + u[2]
  BY IndexFacts
<1>3. /\ v = <<v[1], v[2]>> /\ v[1] \in Rows \cup Rest /\ v[2] \in 0 .. S - 1
      /\ LinearIndex(v) = job.first + n * S + v[2]
  BY IndexFacts
<1>4. m \in Nat /\ n \in Nat
  BY <1>2, <1>3, NumberFacts
<1> DEFINE b == u[2]
           d == v[2]
<1>5. m * S + b = n * S + d /\ b \in 0 .. S - 1 /\ d \in 0 .. S - 1
  <2> DEFINE e == m * S
             f == n * S
  <2>1. b \in 0 .. S - 1 /\ d \in 0 .. S - 1 /\ job.first + e + b = job.first + f + d
    BY <1>2, <1>3
  <2> HIDE DEF S, m, n, b, d
  <2>2. e \in Nat /\ f \in Nat
    BY <1>1, <1>4
  <2> HIDE DEF e, f
  <2>3. e + b = f + d
    BY <1>1, <2>1, <2>2
  <2> QED BY <2>1, <2>3 DEF e, f
<1>6. m = n /\ b = d
  <2> HIDE DEF S, m, n, b, d
  <2> QED BY <1>1, <1>4, <1>5, Unique
<1>7. u[1] = v[1]
  BY <1>2, <1>3, <1>6, NumberTells
<1> QED BY <1>2, <1>3, <1>6, <1>7, Zenon

-----------------------------------------------------------------------------
(* What a unit calls the node for.                                         *)

Amplified == job.launch = "broadcasting" /\ ~job.static

RecordsOf(u) ==
  IF job.launch = "coalescing"
  THEN [k \in 1 .. CoalesceCount(LinearIndex(u)) |-> Resolve(LinearIndex(u) + k - 1)]
  ELSE <<Resolve(LinearIndex(u))>>

WorkgroupOf(u, amp) ==
  CASE Amplified -> WorkgroupId(amp)
    [] job.launch = "broadcasting" /\ job.static -> <<u[1].x, u[1].y, u[1].z>>
    [] job.launch # "broadcasting" -> NoGrid

\* The iterations of a unit.
InColumn(u, amp) == \E k \in Nat : amp = k * job.depth + u[1].z

Makes(u, amp) ==
  /\ u \in Launched /\ amp \in Nat
  /\ job.launch = "thread" => LinearIndex(u) < End
  /\ IF Amplified THEN InColumn(u, amp) /\ amp < Rate /\ InGrid(WorkgroupId(amp)) ELSE amp = 0

\* The units of a launch of one record's grid.
LEMMA StaticFacts ==
  ASSUME job \in LaunchedJobs, job.static, NEW u \in Launched
  PROVE  /\ u = <<u[1], 0>> /\ LinearIndex(u) = u[1].offset /\ u[1].offset \in Records
         /\ u[1] = [offset |-> u[1].offset, x |-> u[1].x, y |-> u[1].y, z |-> u[1].z]
         /\ u[1].x \in 0 .. job.grid[1] - 1 /\ u[1].y \in 0 .. job.grid[2] - 1
         /\ u[1].z \in 0 .. job.grid[3] - 1
<1>1. job.launch = "broadcasting" /\ job.first \in Nat /\ job.records \in Nat
  BY JobFacts
<1>2. u \in Static \X {0}
  BY <1>1 DEF Launched
<1>3. PICK r \in 0 .. job.records - 1, x \in 0 .. job.grid[1] - 1, y \in 0 .. job.grid[2] - 1,
           z \in 0 .. job.grid[3] - 1 : u[1] = [offset |-> job.first + r, x |-> x, y |-> y, z |-> z]
  BY <1>2 DEF Static
<1>4. u[1].offset = job.first + r /\ u[1].x = x /\ u[1].y = y /\ u[1].z = z
  BY <1>3
<1>5. u[1].offset \in Records
  BY <1>1, <1>4 DEF Records, End
<1>6. u = <<u[1], 0>>
  BY <1>2
<1>7. LinearIndex(u) = u[1].offset
  BY <1>1 DEF LinearIndex
<1> QED BY <1>3, <1>4, <1>5, <1>6, <1>7

\* A call is about records of the input.
LEMMA IndexInRange ==
  ASSUME job \in LaunchedJobs, NEW u, NEW amp, Makes(u, amp)
  PROVE  LinearIndex(u) \in Records /\ LinearIndex(u) \in Nat
<1>1. u \in Launched /\ job.first \in Nat /\ job.records \in Nat
  BY JobFacts DEF Makes
<1>2. CASE job.static
  <2>1. LinearIndex(u) \in Records
    BY <1>1, <1>2, StaticFacts
  <2> QED BY <1>1, <2>1 DEF Records, End
<1>3. CASE ~job.static
  <2> DEFINE S == Stride(job.launch)
             n == Number(u[1])
             i == LinearIndex(u)
  <2>1. u[1] \in Rows \cup Rest /\ u[2] \in 0 .. S - 1 /\ i = job.first + n * S + u[2] /\ S \in Nat \ {0}
    BY <1>1, <1>3, IndexFacts, WorkgroupFacts
  <2>2. n \in 0 .. Workgroups - 1 /\ n \in Nat
    BY <1>3, <2>1, NumberFacts
  <2>3. n * S < job.records
    BY <1>3, <2>2, WorkgroupFacts
  <2>4. n * S \in Nat
    <3> HIDE DEF n, S
    <3> QED BY <2>1, <2>2
  <2>5. i < job.first + job.records
    <3>1. CASE job.launch = "thread"
      BY <3>1 DEF Makes, End
    <3>2. CASE job.launch # "thread"
      <4>1. u[2] = 0
        <5>1. u \in (Rows \cup Rest) \X {0}
          BY <1>1, <1>3, <3>2 DEF Launched
        <5> QED BY <5>1
      <4> HIDE DEF n, S, i
      <4> QED BY <1>1, <2>1, <2>3, <2>4, <4>1
    <3> QED BY <3>1, <3>2
  <2> HIDE DEF n, S, i
  <2>6. i \in Nat /\ i \in job.first .. job.first + job.records - 1
    BY <1>1, <2>1, <2>4, <2>5
  <2>7. i \in Records
    BY <1>1, <2>6 DEF Records, End
  <2> QED BY <2>6, <2>7 DEF i
<1> QED BY <1>2, <1>3

\* How many records a window has.
LEMMA CountFacts ==
  ASSUME job \in LaunchedJobs, ~job.static, NEW i \in Records
  PROVE  /\ Sub(End, i) = End - i
         /\ CoalesceCount(i) = (IF End - i < CoalesceStride THEN End - i ELSE CoalesceStride)
         /\ CoalesceCount(i) \in Nat \ {0}
<1>1. job.first \in Nat /\ job.records \in Nat /\ job.records < WordRange
  BY JobFacts, WordFacts
<1>2. End \in Nat /\ i \in Nat /\ i < End /\ End - i < WordRange
  BY <1>1, WordFacts DEF Records, End
<1>3. Sub(End, i) = End - i
  BY <1>2, SubExact
<1> QED BY <1>2, <1>3, WordFacts DEF CoalesceCount

\* The records of a call tell its index.
LEMMA RecordsTell ==
  ASSUME job \in LaunchedJobs, NEW u, NEW a, Makes(u, a), NEW v, NEW b, Makes(v, b),
         RecordsOf(u) = RecordsOf(v)
  PROVE  LinearIndex(u) = LinearIndex(v)
<1> DEFINE i == LinearIndex(u)
           j == LinearIndex(v)
<1>1. i \in Records /\ j \in Records /\ i \in Nat /\ j \in Nat
  BY IndexInRange
<1>2. Resolve(i) = Resolve(j)
  <2>1. CASE job.launch = "coalescing"
    <3>1. ~job.static
      BY <2>1, JobFacts
    <3>2. 1 \in 1 .. CoalesceCount(i) /\ 1 \in 1 .. CoalesceCount(j)
      BY <1>1, <3>1, CountFacts
    <3> HIDE DEF i, j
    <3>3. /\ RecordsOf(u) = [k \in 1 .. CoalesceCount(i) |-> Resolve(i + k - 1)]
          /\ RecordsOf(v) = [k \in 1 .. CoalesceCount(j) |-> Resolve(j + k - 1)]
      BY <2>1 DEF RecordsOf, i, j
    <3>4. RecordsOf(u)[1] = Resolve(i + 1 - 1) /\ RecordsOf(v)[1] = Resolve(j + 1 - 1)
      BY <3>2, <3>3, Zenon
    <3>5. i + 1 - 1 = i /\ j + 1 - 1 = j
      BY <1>1
    <3> QED BY <3>4, <3>5, Zenon
  <2>2. CASE job.launch # "coalescing"
    <3>1. <<Resolve(i)>> = <<Resolve(j)>>
      BY <2>2, Zenon DEF RecordsOf
    <3> QED BY <3>1
  <2> QED BY <2>1, <2>2
<1> QED BY <1>1, <1>2, ResolveFacts

-----------------------------------------------------------------------------
(* Grids.                                                                  *)

LEMMA Triple ==
  ASSUME NEW f, f = [i \in 1 .. 3 |-> f[i]]
  PROVE  f = <<f[1], f[2], f[3]>>
<1> DEFINE t == <<f[1], f[2], f[3]>>
<1>1. t = [i \in 1 .. 3 |-> t[i]]
  OBVIOUS
<1>2. \A i \in 1 .. 3 : t[i] = f[i]
  OBVIOUS
<1> HIDE DEF t
<1>3. f = t
  BY <1>1, <1>2, Zenon
<1> QED BY <1>3 DEF t

\* If there are iterations, then no dimension of the grid is empty.
LEMMA SizeFacts ==
  ASSUME job \in LaunchedJobs, Amplified, InPayload, NEW amp \in Nat, amp < Rate
  PROVE  /\ job.dims \in 1 .. 3
         /\ \A i \in 1 .. 3 : Size(i) \in 1 .. MaxGrid /\ Sub(Size(i), 1) = Size(i) - 1
<1>1. job.dims \in 1 .. 3 /\ job.grid \in [1 .. 3 -> 0 .. MaxGrid]
  BY JobFacts DEF InPayload, Amplified
<1>2. ~ \E i \in 1 .. job.dims : Sub(job.grid[i], 1) >= WordRange \div 2
  <2> SUFFICES ASSUME \E i \in 1 .. job.dims : Sub(job.grid[i], 1) >= WordRange \div 2 PROVE FALSE
    OBVIOUS
  <2>1. Rate = 0
    BY DEF Rate
  <2> QED BY <2>1
<1>3. ASSUME NEW i \in 1 .. 3 PROVE Size(i) \in 1 .. MaxGrid
  <2>1. CASE i <= job.dims
    <3>1. i \in 1 .. job.dims /\ Size(i) = job.grid[i] /\ job.grid[i] \in 0 .. MaxGrid
      BY <1>1, <2>1 DEF Size
    <3>2. job.grid[i] # 0
      <4> SUFFICES ASSUME job.grid[i] = 0 PROVE FALSE
        OBVIOUS
      <4>1. Sub(job.grid[i], 1) = WordRange - 1
        BY SubZero
      <4>2. WordRange - 1 >= WordRange \div 2
        BY WordFacts
      <4> QED BY <1>2, <3>1, <4>1, <4>2
    <3> QED BY <3>1, <3>2
  <2>2. CASE ~ (i <= job.dims)
    BY <2>2, WordFacts DEF Size
  <2> QED BY <2>1, <2>2
<1>4. ASSUME NEW i \in 1 .. 3 PROVE Sub(Size(i), 1) = Size(i) - 1
  BY <1>3, WordFacts, SubExact
<1> QED BY <1>1, <1>3, <1>4

\* What a dimension is shifted by holds the dimensions below it.
Held(i) == Pow2[BitCount(Size(i))]

LEMMA ShiftFacts ==
  ASSUME \A i \in 1 .. 3 : Size(i) \in 1 .. MaxGrid
  PROVE  /\ \A i \in 1 .. 3 : Held(i) \in Nat \ {0} /\ Size(i) <= Held(i)
         /\ Pow2[BitOffset(1)] = 1 /\ Pow2[BitOffset(2)] = Held(1)
         /\ Pow2[BitOffset(3)] = Held(1) * Held(2)
<1>1. ASSUME NEW i \in 1 .. 3 PROVE BitCount(Size(i)) \in Nat /\ Size(i) <= Held(i) /\ Held(i) \in Nat \ {0}
  BY <1>1, BitCountFacts, Pow2Facts DEF Held
<1>2. BitOffset(1) = 0 /\ BitOffset(2) = BitCount(Size(1))
      /\ BitOffset(3) = BitCount(Size(1)) + BitCount(Size(2))
  BY DEF BitOffset
<1>3. Pow2[BitOffset(3)] = Held(1) * Held(2)
  <2> DEFINE a == BitCount(Size(1))
             b == BitCount(Size(2))
  <2>1. a \in Nat /\ b \in Nat
    BY <1>1
  <2> HIDE DEF a, b
  <2>2. Pow2[a + b] = Pow2[a] * Pow2[b]
    BY <2>1, Pow2Sum
  <2> QED BY <1>2, <2>2, Zenon DEF Held, a, b
<1> QED BY <1>1, <1>2, <1>3, Pow2Facts DEF Held

\* The size of a dimension in the number of an iteration.
Radix(i) == IF InPayload THEN Held(i) ELSE job.grid[i]

\* The workgroup of an iteration gives the iteration back.
LEMMA GridTells ==
  ASSUME job \in LaunchedJobs, Amplified, NEW amp \in Nat, amp < Rate
  PROVE  amp = WorkgroupId(amp)[1] + Radix(1) * (WorkgroupId(amp)[2] + Radix(2) * WorkgroupId(amp)[3])
<1> DEFINE w == WorkgroupId(amp)
<1>1. CASE InPayload
  <2> DEFINE P1 == Held(1)
             P2 == Held(2)
             P3 == Held(3)
             q == amp \div P1
             r == q \div P2
             n == job.grid[job.dims]
             size == n * Pow2[BitOffset(job.dims)]
  <2>1. job.dims \in 1 .. 3 /\ \A i \in 1 .. 3 : Size(i) \in 1 .. MaxGrid
    BY <1>1, SizeFacts
  <2>2. /\ P1 \in Nat \ {0} /\ P2 \in Nat \ {0} /\ P3 \in Nat \ {0}
        /\ Size(1) <= P1 /\ Size(2) <= P2 /\ Size(3) <= P3
    BY <2>1, ShiftFacts
  <2>3. n = Size(job.dims) /\ n \in Nat
    BY <2>1 DEF Size
  <2>4. amp < size /\ size \in Nat
    <3>1. Pow2[BitOffset(job.dims)] \in Nat
      <4>1. P1 * P2 \in Nat
        BY <2>2
      <4> QED BY <2>1, <2>2, <4>1, ShiftFacts
    <3>2. size \in Nat
      <4> HIDE DEF n
      <4> QED BY <2>3, <3>1
    <3>3. Rate = 0 \/ Rate = size % WordRange
      BY <1>1 DEF Rate, UpperDimension
    <3> HIDE DEF size
    <3>4. size % WordRange <= size
      <4> DEFINE x == WordRange
      <4>1. x \in Nat \ {0}
        BY WordFacts
      <4> HIDE DEF x
      <4>2. size = x * (size \div x) + (size % x) /\ size \div x \in Nat /\ size % x \in Nat
        BY <3>2, <4>1, Quotient
      <4>3. x * (size \div x) \in Nat
        BY <4>1, <4>2
      <4>4. size % x <= size
        BY <3>2, <4>2, <4>3
      <4> QED BY <4>4 DEF x
    <3>5. size % WordRange \in Nat
      BY <3>2, WordFacts, Quotient
    <3> QED BY <3>2, <3>3, <3>4, <3>5
  <2>5. q \in Nat /\ amp % P1 \in 0 .. P1 - 1 /\ amp = P1 * q + (amp % P1)
    BY <2>2, Quotient
  <2>6. r \in Nat /\ q % P2 \in 0 .. P2 - 1 /\ q = P2 * r + (q % P2)
    BY <2>2, <2>5, Quotient
  <2>7. amp \div (P1 * P2) = r
    BY <2>2, DivDiv
  <2>8. \A i \in 1 .. 3 : w[i] = IF i > job.dims THEN 0
                                 ELSE (amp \div Pow2[BitOffset(i)]) % Held(i)
    BY <1>1 DEF WorkgroupId, Held
  <2>9. Radix(1) = P1 /\ Radix(2) = P2
    BY <1>1 DEF Radix
  <2>10. amp \div 1 = amp
    OBVIOUS
  <2>11. CASE job.dims = 1
    <3>1. w[1] = amp % P1 /\ w[2] = 0 /\ w[3] = 0
      BY <2>1, <2>8, <2>10, <2>11, ShiftFacts
    <3>2. amp < P1
      BY <2>1, <2>2, <2>3, <2>4, <2>11, ShiftFacts
    <3>3. amp % P1 = amp
      BY <2>2, <3>2, Remainder
    <3> HIDE DEF P1, P2, w
    <3>4. amp = w[1] + P1 * (w[2] + P2 * w[3])
      BY <2>2, <3>1, <3>3
    <3> QED BY <2>9, <3>4 DEF P1, P2, w
  <2>12. CASE job.dims = 2
    <3>1. w[1] = amp % P1 /\ w[2] = q % P2 /\ w[3] = 0
      BY <2>1, <2>8, <2>10, <2>12, ShiftFacts
    <3>2. amp < n * P1 /\ n <= P2
      BY <2>1, <2>2, <2>3, <2>4, <2>12, ShiftFacts
    <3>3. q < n
      BY <2>2, <2>3, <3>2, DivLess
    <3>4. q % P2 = q
      BY <2>2, <2>3, <2>5, <3>2, <3>3, Remainder
    <3> HIDE DEF P1, P2, w, q
    <3>5. w[2] + P2 * w[3] = q
      BY <2>2, <2>5, <3>1, <3>4
    <3>6. amp = w[1] + P1 * q
      BY <2>2, <2>5, <3>1
    <3> QED BY <2>9, <3>5, <3>6 DEF P1, P2, w
  <2>13. CASE job.dims = 3
    <3>1. w[1] = amp % P1 /\ w[2] = q % P2 /\ w[3] = r % P3
      BY <2>1, <2>7, <2>8, <2>10, <2>13, ShiftFacts
    <3>2. amp < n * (P1 * P2) /\ n <= P3
      BY <2>1, <2>2, <2>3, <2>4, <2>13, ShiftFacts
    <3>3. r < n
      BY <2>2, <2>3, <2>7, <3>2, DivLess
    <3>4. r % P3 = r
      BY <2>2, <2>3, <2>6, <3>2, <3>3, Remainder
    <3> HIDE DEF P1, P2, w, q, r
    <3>5. w[2] + P2 * w[3] = q
      BY <2>2, <2>5, <2>6, <3>1, <3>4
    <3>6. amp = w[1] + P1 * q
      BY <2>2, <2>5, <3>1
    <3> QED BY <2>9, <3>5, <3>6 DEF P1, P2, w
  <2> QED BY <2>1, <2>11, <2>12, <2>13
<1>2. CASE ~InPayload
  <2> DEFINE P1 == job.grid[1]
             P2 == job.grid[2]
             q == amp \div P1
  <2>1. P1 \in Nat \ {0} /\ P2 \in Nat \ {0}
    BY <1>2, JobFacts
  <2>2. w[1] = amp % P1 /\ w[2] = q % P2 /\ w[3] = q \div P2
    BY <1>2 DEF WorkgroupId
  <2> HIDE DEF P1, P2, w
  <2>3. q \in Nat /\ amp % P1 \in 0 .. P1 - 1 /\ amp = P1 * q + (amp % P1)
    BY <2>1, Quotient
  <2> HIDE DEF q
  <2>4. q \div P2 \in Nat /\ q % P2 \in 0 .. P2 - 1 /\ q = P2 * (q \div P2) + (q % P2)
    BY <2>1, <2>3, Quotient
  <2>5. Radix(1) = P1 /\ Radix(2) = P2
    BY <1>2 DEF Radix, P1, P2
  <2>6. w[2] + P2 * w[3] = q
    BY <2>1, <2>2, <2>3, <2>4
  <2>7. amp = w[1] + P1 * q
    BY <2>1, <2>2, <2>3
  <2> QED BY <2>5, <2>6, <2>7 DEF P1, P2, w
<1> QED BY <1>1, <1>2

\* Iterations run for workgroups of the grid.
LEMMA GridAsked ==
  ASSUME job \in LaunchedJobs, Amplified, NEW amp \in Nat, amp < Rate, InGrid(WorkgroupId(amp))
  PROVE  WorkgroupId(amp) \in GridOf
<1> DEFINE w == WorkgroupId(amp)
           n == IF InPayload THEN [i \in 1 .. 3 |-> Size(i)] ELSE job.grid
<1>1. SUFFICES w = <<w[1], w[2], w[3]>> /\ w[1] \in 0 .. n[1] - 1 /\ w[2] \in 0 .. n[2] - 1
               /\ w[3] \in 0 .. n[3] - 1
  <2> HIDE DEF w
  <2> QED BY DEF GridOf, w
<1>2. CASE InPayload
  <2>1. job.dims \in 1 .. 3 /\ \A i \in 1 .. 3 : Size(i) \in 1 .. MaxGrid /\ Sub(Size(i), 1) = Size(i) - 1
    BY <1>2, SizeFacts
  <2> DEFINE part(i) == IF i > job.dims THEN 0 ELSE (amp \div Pow2[BitOffset(i)]) % Held(i)
  <2>2. w = [i \in 1 .. 3 |-> part(i)]
    BY <1>2 DEF WorkgroupId, Held
  <2>3. ASSUME NEW i \in 1 .. 3 PROVE part(i) \in Nat
    <3>1. Pow2[BitOffset(i)] \in Nat \ {0} /\ Held(i) \in Nat \ {0}
      <4>1. Held(1) \in Nat \ {0} /\ Held(2) \in Nat \ {0} /\ Held(i) \in Nat \ {0}
        BY <2>1, ShiftFacts
      <4>2. Held(1) * Held(2) \in Nat \ {0}
        BY <4>1
      <4>3. i = 1 \/ i = 2 \/ i = 3
        OBVIOUS
      <4> QED BY <2>1, <4>1, <4>2, <4>3, ShiftFacts
    <3> DEFINE q == amp \div Pow2[BitOffset(i)]
    <3>2. q \in Nat
      BY <3>1, Quotient
    <3> HIDE DEF q
    <3>3. q % Held(i) \in 0 .. Held(i) - 1
      BY <3>1, <3>2, Quotient
    <3>4. q % Held(i) \in Nat
      BY <3>1, <3>3
    <3> QED BY <3>4 DEF q
  <2> HIDE DEF part
  <2>4. w = [i \in 1 .. 3 |-> w[i]] /\ \A i \in 1 .. 3 : w[i] = part(i)
    <3> HIDE DEF w
    <3> QED BY <2>2, Zenon
  <2>5. w = <<w[1], w[2], w[3]>>
    <3> HIDE DEF w
    <3> QED BY <2>4, Triple
  <2>6. ASSUME NEW i \in 1 .. 3 PROVE w[i] \in 0 .. n[i] - 1
    <3>1. w[i] \in Nat
      BY <2>3, <2>4
    <3>2. w[i] <= Sub(Size(i), 1)
      BY <1>2 DEF InGrid
    <3>3. n[i] = Size(i)
      BY <1>2
    <3> HIDE DEF w, n
    <3> QED BY <2>1, <3>1, <3>2, <3>3
  <2> HIDE DEF w, n
  <2> QED BY <2>5, <2>6
<1>3. CASE ~InPayload
  <2> DEFINE g == job.grid
             P1 == g[1]
             P2 == g[2]
             P3 == g[3]
             q == amp \div P1
  <2>1. P1 \in Nat \ {0} /\ P2 \in Nat \ {0} /\ P3 \in Nat \ {0}
    BY <1>3, JobFacts
  <2>2. w = <<amp % P1, q % P2, q \div P2>>
    BY <1>3 DEF WorkgroupId
  <2>3. amp < P1 * P2 * P3
    BY <1>3 DEF Rate
  <2>4. n = g
    BY <1>3
  <2> HIDE DEF n, g, P1, P2, P3
  <2>5. amp % P1 \in 0 .. P1 - 1 /\ q \in Nat
    BY <2>1, Quotient
  <2>6. q < P2 * P3
    <3>1. P2 * P3 \in Nat /\ P1 * P2 * P3 = (P2 * P3) * P1
      BY <2>1
    <3> DEFINE m == P2 * P3
    <3>2. m \in Nat /\ amp < m * P1
      BY <2>3, <3>1
    <3> HIDE DEF m
    <3>3. q < m
      BY <2>1, <3>2, DivLess
    <3> QED BY <3>3 DEF m
  <2> HIDE DEF q
  <2>7. q % P2 \in 0 .. P2 - 1 /\ q \div P2 \in Nat
    BY <2>1, <2>5, Quotient
  <2>8. q \div P2 < P3
    <3>1. q < P3 * P2
      BY <2>1, <2>6
    <3> QED BY <2>1, <2>5, <3>1, DivLess
  <2>9. w[1] = amp % P1 /\ w[2] = q % P2 /\ w[3] = q \div P2 /\ w = <<w[1], w[2], w[3]>>
    <3> HIDE DEF w
    <3> QED BY <2>2
  <2>10. q \div P2 \in 0 .. P3 - 1
    BY <2>1, <2>7, <2>8
  <2> HIDE DEF w
  <2>11. w[1] \in 0 .. P1 - 1 /\ w[2] \in 0 .. P2 - 1 /\ w[3] \in 0 .. P3 - 1
    BY <2>5, <2>7, <2>9, <2>10
  <2> QED BY <2>4, <2>9, <2>11 DEF P1, P2, P3
<1> QED BY <1>2, <1>3

-----------------------------------------------------------------------------
(* Calls.                                                                  *)

\* What a unit calls the node for was asked for.
LEMMA CallAsked ==
  ASSUME job \in LaunchedJobs, NEW u, NEW amp, Makes(u, amp)
  PROVE  <<RecordsOf(u), WorkgroupOf(u, amp)>> \in Asked
<1> DEFINE i == LinearIndex(u)
<1>1. i \in Records /\ i \in Nat /\ Resolve(i) = Address(i) /\ u \in Launched
  BY IndexInRange, ResolveFacts DEF Makes
<1>2. CASE job.launch = "thread"
  <2>1. RecordsOf(u) = <<Address(i)>> /\ WorkgroupOf(u, amp) = NoGrid
    BY <1>1, <1>2 DEF RecordsOf, WorkgroupOf, Amplified
  <2> HIDE DEF i
  <2>2. <<RecordsOf(u), WorkgroupOf(u, amp)>> \in {<<Address(r)>> : r \in Records} \X {NoGrid}
    BY <1>1, <2>1
  <2> QED BY <1>2, <2>2 DEF Asked
<1>3. CASE job.launch = "coalescing"
  <2>1. ~job.static
    BY <1>3, JobFacts
  <2>2. WorkgroupOf(u, amp) = NoGrid
    BY <1>3 DEF WorkgroupOf, Amplified
  <2> DEFINE n == Number(u[1])
             C == CoalesceStride
  <2>3. C \in Nat \ {0} /\ n \in Nat /\ i = job.first + n * C
    <3>1. u[1] \in Rows \cup Rest /\ i = job.first + n * Stride(job.launch) + u[2]
      BY <1>1, <2>1, IndexFacts
    <3>2. u[2] = 0
      <4>1. u \in (Rows \cup Rest) \X {0}
        BY <1>1, <1>3, <2>1 DEF Launched
      <4> QED BY <4>1
    <3>3. Stride(job.launch) = C
      BY <1>3 DEF Stride
    <3>4. n \in Nat /\ job.first \in Nat /\ C \in Nat \ {0}
      BY <2>1, <3>1, NumberFacts, JobFacts, WordFacts
    <3> HIDE DEF n, C
    <3>5. n * C \in Nat
      BY <3>4
    <3> QED BY <3>1, <3>2, <3>3, <3>4, <3>5
  <2>4. (i - job.first) % C = 0
    <3> HIDE DEF n, C
    <3> DEFINE a == n * C
    <3>1. a \in Nat /\ i - job.first = a
      BY <2>3, JobFacts
    <3>2. a % C \in 0 .. C - 1 /\ a = C * (a \div C) + (a % C) /\ a \div C \in Nat
      <4> HIDE DEF a
      <4> QED BY <2>3, <3>1, Quotient
    <3> DEFINE q == a \div C
               r == a % C
               o == 0
    <3>3. q \in Nat /\ r \in 0 .. C - 1 /\ o \in 0 .. C - 1
      BY <2>3, <3>2
    <3>4. q * C + r = n * C + o
      BY <2>3, <3>1, <3>2
    <3>5. C \in Nat /\ n \in Nat
      BY <2>3
    <3> HIDE DEF q, r, o, a
    <3>6. r = o
      BY <3>3, <3>4, <3>5, Unique
    <3> QED BY <3>1, <3>6 DEF r, o
  <2>5. RecordsOf(u) = [k \in 1 .. (IF End - i < C THEN End - i ELSE C) |-> Address(i + k - 1)]
    <3>1. RecordsOf(u) = [k \in 1 .. CoalesceCount(i) |-> Resolve(i + k - 1)]
      BY <1>3 DEF RecordsOf
    <3>2. CoalesceCount(i) = (IF End - i < C THEN End - i ELSE C)
      BY <1>1, <2>1, CountFacts
    <3>3. \A k : Resolve(i + k - 1) = Address(i + k - 1)
      BY ResolveFacts
    <3> HIDE DEF i, C
    <3> QED BY <3>1, <3>2, <3>3, Zenon
  <2>6. RecordsOf(u) \in Windows
    <3>1. i \in {s \in Records : (s - job.first) % C = 0}
      BY <1>1, <2>4
    <3> HIDE DEF i
    <3> QED BY <2>5, <3>1, Zenon DEF Windows
  <2>7. <<RecordsOf(u), WorkgroupOf(u, amp)>> \in Windows \X {NoGrid}
    BY <2>2, <2>6
  <2>8. Asked = Windows \X {NoGrid}
    BY <1>3 DEF Asked
  <2> QED BY <2>7, <2>8
<1>4. CASE job.launch = "broadcasting"
  <2>1. RecordsOf(u) = <<Address(i)>>
    BY <1>1, <1>4 DEF RecordsOf
  <2>2. WorkgroupOf(u, amp) \in GridOf
    <3>1. CASE job.static
      <4>1. WorkgroupOf(u, amp) = <<u[1].x, u[1].y, u[1].z>>
        BY <1>4, <3>1 DEF WorkgroupOf, Amplified
      <4>2. ~InPayload
        BY <3>1, JobFacts, Zenon DEF InPayload
      <4>3. u[1].x \in 0 .. job.grid[1] - 1 /\ u[1].y \in 0 .. job.grid[2] - 1
            /\ u[1].z \in 0 .. job.grid[3] - 1
        BY <1>1, <3>1, StaticFacts
      <4>4. GridOf = {<<x, y, z>> : x \in 0 .. job.grid[1] - 1, y \in 0 .. job.grid[2] - 1,
                                    z \in 0 .. job.grid[3] - 1}
        BY <4>2 DEF GridOf
      <4> QED BY <4>1, <4>3, <4>4
    <3>2. CASE ~job.static
      <4>1. Amplified
        BY <1>4, <3>2 DEF Amplified
      <4>2. WorkgroupOf(u, amp) = WorkgroupId(amp)
        BY <4>1 DEF WorkgroupOf, Amplified
      <4>3. amp \in Nat /\ amp < Rate /\ InGrid(WorkgroupId(amp))
        BY <4>1 DEF Makes
      <4> QED BY <4>1, <4>2, <4>3, GridAsked
    <3> QED BY <3>1, <3>2
  <2> HIDE DEF i
  <2>3. <<RecordsOf(u), WorkgroupOf(u, amp)>> \in {<<Address(r)>> : r \in Records} \X GridOf
    BY <1>1, <2>1, <2>2
  <2>4. Asked = {<<Address(r)>> : r \in Records} \X GridOf
    BY <1>4 DEF Asked
  <2> QED BY <2>3, <2>4
<1> QED BY <1>2, <1>3, <1>4, JobFacts

\* A call tells who made it, and in which iteration.
LEMMA CallTells ==
  ASSUME job \in LaunchedJobs, NEW u, NEW a, Makes(u, a), NEW v, NEW b, Makes(v, b),
         RecordsOf(u) = RecordsOf(v), WorkgroupOf(u, a) = WorkgroupOf(v, b)
  PROVE  u = v /\ a = b
<1>1. LinearIndex(u) = LinearIndex(v) /\ u \in Launched /\ v \in Launched /\ a \in Nat /\ b \in Nat
  BY RecordsTell DEF Makes
<1>2. CASE job.static
  <2>1. job.launch = "broadcasting" /\ ~Amplified
    BY <1>2, JobFacts DEF Amplified
  <2>2. a = 0 /\ b = 0
    BY <2>1 DEF Makes
  <2>3. /\ u = <<u[1], 0>> /\ LinearIndex(u) = u[1].offset
        /\ u[1] = [offset |-> u[1].offset, x |-> u[1].x, y |-> u[1].y, z |-> u[1].z]
    BY <1>1, <1>2, StaticFacts
  <2>4. /\ v = <<v[1], 0>> /\ LinearIndex(v) = v[1].offset
        /\ v[1] = [offset |-> v[1].offset, x |-> v[1].x, y |-> v[1].y, z |-> v[1].z]
    BY <1>1, <1>2, StaticFacts
  <2>5. <<u[1].x, u[1].y, u[1].z>> = <<v[1].x, v[1].y, v[1].z>>
    BY <1>2, <2>1, Zenon DEF WorkgroupOf
  <2>6. u[1].x = v[1].x /\ u[1].y = v[1].y /\ u[1].z = v[1].z
    BY <2>5
  <2> QED BY <1>1, <2>2, <2>3, <2>4, <2>6, Zenon
<1>3. CASE ~job.static
  <2>1. u[1].z \in 0 .. job.depth - 1 /\ v[1].z \in 0 .. job.depth - 1 /\ job.depth \in Nat \ {0}
    BY <1>1, <1>3, IndexFacts, NumberFacts, JobFacts
  <2>2. a = b /\ u[1].z = v[1].z
    <3>1. CASE Amplified
      <4>1. a < Rate /\ InColumn(u, a) /\ b < Rate /\ InColumn(v, b)
        BY <3>1 DEF Makes
      <4>2. WorkgroupId(a) = WorkgroupId(b)
        BY <3>1, Zenon DEF WorkgroupOf, Amplified
      <4>3. a = b
        BY <1>1, <3>1, <4>1, <4>2, GridTells, Zenon
      <4>4. PICK k \in Nat : a = k * job.depth + u[1].z
        BY <4>1 DEF InColumn
      <4>5. PICK l \in Nat : b = l * job.depth + v[1].z
        BY <4>1 DEF InColumn
      <4> DEFINE d == job.depth
                 y == u[1].z
                 z == v[1].z
      <4>6. k * d + y = l * d + z /\ d \in Nat /\ y \in 0 .. d - 1 /\ z \in 0 .. d - 1
        BY <2>1, <4>3, <4>4, <4>5
      <4> HIDE DEF d, y, z
      <4>7. y = z
        BY <4>6, Unique
      <4> QED BY <4>3, <4>7 DEF y, z
    <3>2. CASE ~Amplified
      <4>1. a = 0 /\ b = 0
        BY <3>2 DEF Makes
      <4>2. job.depth = 1
        BY <1>3, <3>2, JobFacts DEF Amplified
      <4> QED BY <2>1, <4>1, <4>2
    <3> QED BY <3>1, <3>2
  <2> QED BY <1>1, <1>3, <2>2, IndexTells
<1> QED BY <1>2, <1>3

-----------------------------------------------------------------------------
(* The invariant.                                                          *)

\* The iterations of all units, and the calls they may make.
Columns == {c \in Launched \X Nat : InColumn(c[1], c[2])}

CallsMade ==
  {[by |-> c, records |-> RecordsOf(c[1]), wg |-> WorkgroupOf(c[1], c[2])] :
     c \in {d \in Launched \X Nat : Makes(d[1], d[2])}}

UnitInv ==
  /\ unit \in [Launched -> [pc : {"enter", "loop", "done"}, amp : Nat]]
  /\ \A u \in Launched : unit[u].pc = "loop" => Amplified /\ <<u, unit[u].amp>> \in Columns

WGInv == job \in LaunchedJobs /\ UnitInv /\ ran \subseteq CallsMade

\* What is launched stays what it is.
LEMMA JobKept ==
  ASSUME job' = job
  PROVE  /\ LaunchedJobs' = LaunchedJobs /\ Launched' = Launched /\ Amplified' = Amplified
         /\ Columns' = Columns /\ CallsMade' = CallsMade
<1>1. LaunchedJobs' = LaunchedJobs
  BY DEF LaunchedJobs, Jobs, OneGrid, Grids, FullGrids
<1>2. Workgroups' = Workgroups /\ End' = End
  BY DEF Workgroups, Stride, End
<1>3. Rows' = Rows /\ Rest' = Rest /\ Static' = Static
  BY <1>2 DEF Rows, Rest, Static, Stride
<1>4. Launched' = Launched /\ Amplified' = Amplified
  BY <1>3 DEF Launched, Amplified
<1>5. Columns' = Columns
  BY <1>4 DEF Columns, InColumn
<1>6. CallsMade' = CallsMade
  BY <1>2, <1>4 DEF CallsMade, Makes, RecordsOf, WorkgroupOf, InColumn, Resolve, Base, Pushed, LinearIndex,
     CoalesceCount, Rate, InPayload, UpperDimension, BitOffset, Size, WorkgroupId, InGrid
<1> QED BY <1>1, <1>4, <1>5, <1>6

LEMMA InitInv == WGInit => WGInv
<1> SUFFICES ASSUME WGInit PROVE WGInv
  OBVIOUS
<1>1. [pc |-> "enter", amp |-> 0] \in [pc : {"enter", "loop", "done"}, amp : Nat]
  OBVIOUS
<1>2. unit \in [Launched -> [pc : {"enter", "loop", "done"}, amp : Nat]]
  BY <1>1 DEF WGInit
<1>3. \A u \in Launched : unit[u].pc = "enter"
  BY DEF WGInit
<1> QED BY <1>2, <1>3 DEF WGInit, WGInv, UnitInv

\* The call that is made is one of the calls of the unit.
LEMMA CallIsMade ==
  ASSUME NEW u, NEW amp, Makes(u, amp), NEW records, records = RecordsOf(u),
         NEW wg, wg = WorkgroupOf(u, amp), ran \subseteq CallsMade, Called(u, records, wg, amp)
  PROVE  ran' \subseteq CallsMade
<1>1. [by |-> <<u, amp>>, records |-> records, wg |-> wg] \in CallsMade
  <2>1. <<u, amp>> \in {d \in Launched \X Nat : Makes(d[1], d[2])}
    BY DEF Makes
  <2>2. <<u, amp>>[1] = u /\ <<u, amp>>[2] = amp
    OBVIOUS
  <2> QED BY <2>1, <2>2, Zenon DEF CallsMade
<1> QED BY <1>1 DEF Called

LEMMA NextInv ==
  ASSUME WGInv, [WGNext]_gvars
  PROVE  WGInv'
<1> USE DEF WGInv
<1>1. CASE UNCHANGED gvars
  <2>1. job' = job /\ unit' = unit /\ ran' = ran
    BY <1>1 DEF gvars
  <2>2. UnitInv'
    BY <2>1, JobKept DEF UnitInv
  <2> QED BY <2>1, <2>2, JobKept
<1>2. ASSUME NEW u \in DOMAIN unit, Step(u) PROVE WGInv'
  <2>1. u \in Launched /\ DOMAIN unit = Launched
        /\ unit \in [Launched -> [pc : {"enter", "loop", "done"}, amp : Nat]]
    BY <1>2 DEF UnitInv
  <2>2. job' = job
    BY <1>2, Zenon DEF Step, EnterThread, EnterCoalescing, EnterStatic, EnterAmplified, Amplify, LeaveLoop
\* A unit that is done, or stays in its column, leaves the others as they are.
  <2>3. ASSUME unit' = [unit EXCEPT ![u].pc = "done"] PROVE UnitInv'
    <3>1. /\ unit' \in [Launched -> [pc : {"enter", "loop", "done"}, amp : Nat]]
          /\ \A v \in Launched : unit'[v].pc = "loop" => unit[v].pc = "loop" /\ unit'[v].amp = unit[v].amp
      BY <2>1, <2>3
    <3>2. \A v \in Launched : unit'[v].pc = "loop" => Amplified /\ <<v, unit'[v].amp>> \in Columns
      BY <3>1 DEF UnitInv
    <3> QED BY <2>2, <3>1, <3>2, JobKept DEF UnitInv
  <2>4. ASSUME NEW amp \in Nat, Amplified, InColumn(u, amp),
               unit' \in [Launched -> [pc : {"enter", "loop", "done"}, amp : Nat]],
               unit'[u].amp = amp, \A v \in Launched \ {u} : unit'[v] = unit[v]
        PROVE  UnitInv'
    <3>1. <<u, amp>> \in Columns
      BY <2>1, <2>4 DEF Columns
    <3>2. \A v \in Launched : unit'[v].pc = "loop" => Amplified /\ <<v, unit'[v].amp>> \in Columns
      BY <2>4, <3>1 DEF UnitInv
    <3> QED BY <2>2, <2>4, <3>2, JobKept DEF UnitInv
  <2>5. CASE EnterThread(u)
    <3>1. PICK index \in {LinearIndex(u)} :
            IF index < End THEN Called(u, <<Resolve(index)>>, NoGrid, 0) ELSE UNCHANGED ran
      BY <2>5, Zenon DEF EnterThread
    <3>2. ran' \subseteq CallsMade
      <4>1. CASE LinearIndex(u) < End
        <5>1. Makes(u, 0)
          BY <2>1, <2>5, <4>1 DEF Makes, EnterThread, Amplified
        <5>2. <<Resolve(LinearIndex(u))>> = RecordsOf(u) /\ NoGrid = WorkgroupOf(u, 0)
          BY <2>5 DEF RecordsOf, WorkgroupOf, EnterThread, Amplified
        <5>3. Called(u, RecordsOf(u), WorkgroupOf(u, 0), 0)
          BY <3>1, <4>1, <5>2, Zenon
        <5> QED BY <5>1, <5>3, CallIsMade
      <4>2. CASE ~ (LinearIndex(u) < End)
        BY <3>1, <4>2, Zenon
      <4> QED BY <4>1, <4>2
    <3>3. UnitInv'
      BY <2>3, <2>5 DEF EnterThread
    <3> QED BY <2>2, <3>2, <3>3, JobKept
  <2>6. CASE EnterCoalescing(u)
    <3>1. Makes(u, 0)
      BY <2>1, <2>6 DEF Makes, EnterCoalescing, Amplified
    <3>2. NoGrid = WorkgroupOf(u, 0)
      BY <2>6 DEF WorkgroupOf, EnterCoalescing, Amplified
    <3>3. Called(u, RecordsOf(u), WorkgroupOf(u, 0), 0)
      BY <2>6, <3>2, Zenon DEF RecordsOf, EnterCoalescing
    <3>4. ran' \subseteq CallsMade
      BY <3>1, <3>3, CallIsMade
    <3>5. UnitInv'
      BY <2>3, <2>6 DEF EnterCoalescing
    <3> QED BY <2>2, <3>4, <3>5, JobKept
  <2>7. CASE EnterStatic(u)
    <3>1. Makes(u, 0)
      BY <2>1, <2>7 DEF Makes, EnterStatic, Amplified
    <3>2. <<u[1].x, u[1].y, u[1].z>> = WorkgroupOf(u, 0)
      BY <2>7 DEF WorkgroupOf, EnterStatic, Amplified
    <3>3. <<Resolve(LinearIndex(u))>> = RecordsOf(u)
      BY <2>7 DEF RecordsOf, EnterStatic
    <3>4. Called(u, RecordsOf(u), WorkgroupOf(u, 0), 0)
      BY <2>7, <3>2, <3>3, Zenon DEF EnterStatic
    <3>5. ran' \subseteq CallsMade
      BY <3>1, <3>4, CallIsMade
    <3>6. UnitInv'
      BY <2>3, <2>7 DEF EnterStatic
    <3> QED BY <2>2, <3>5, <3>6, JobKept
  <2>8. CASE EnterAmplified(u)
    <3>1. Amplified
      BY <2>8 DEF EnterAmplified, Amplified
    <3>2. u[1].z \in Nat /\ job.depth \in Nat
      BY <2>1, <3>1, IndexFacts, NumberFacts, JobFacts DEF Amplified
    <3>3. u[1].z = 0 * job.depth + u[1].z
      BY <3>2
    <3>4. InColumn(u, u[1].z)
      BY <3>3 DEF InColumn
    <3>5. [pc |-> "loop", amp |-> u[1].z] \in [pc : {"enter", "loop", "done"}, amp : Nat]
      BY <3>2
    <3>6. /\ unit' \in [Launched -> [pc : {"enter", "loop", "done"}, amp : Nat]]
          /\ unit'[u].amp = u[1].z /\ \A v \in Launched \ {u} : unit'[v] = unit[v]
      BY <2>1, <2>8, <3>5 DEF EnterAmplified
    <3>7. UnitInv'
      BY <2>4, <3>1, <3>2, <3>4, <3>6
    <3>8. ran' = ran
      BY <2>8 DEF EnterAmplified
    <3> QED BY <2>2, <3>7, <3>8, JobKept
  <2>9. CASE Amplify(u)
    <3> DEFINE amp == unit[u].amp
    <3>1. Amplified /\ amp \in Nat /\ InColumn(u, amp) /\ amp < Rate
      BY <2>1, <2>9 DEF Amplify, UnitInv, Columns
    <3>2. PICK wg \in {WorkgroupId(amp)} :
            IF InGrid(wg) THEN Called(u, <<Resolve(LinearIndex(u))>>, wg, amp) ELSE UNCHANGED ran
      BY <2>9, Zenon DEF Amplify
    <3>3. ran' \subseteq CallsMade
      <4>1. CASE InGrid(WorkgroupId(amp))
        <5>1. Makes(u, amp)
          <6>1. job.launch # "thread"
            BY <3>1 DEF Amplified
          <6> HIDE DEF amp
          <6> QED BY <2>1, <3>1, <4>1, <6>1, Zenon DEF Makes
        <5>2. <<Resolve(LinearIndex(u))>> = RecordsOf(u) /\ WorkgroupId(amp) = WorkgroupOf(u, amp)
          BY <3>1 DEF RecordsOf, WorkgroupOf, Amplified
        <5>3. Called(u, RecordsOf(u), WorkgroupOf(u, amp), amp)
          BY <3>2, <4>1, <5>2, Zenon
        <5> QED BY <5>1, <5>3, CallIsMade
      <4>2. CASE ~InGrid(WorkgroupId(amp))
        BY <3>2, <4>2, Zenon
      <4> QED BY <4>1, <4>2
    <3>4. amp + job.depth \in Nat /\ InColumn(u, amp + job.depth)
      <4>1. PICK k \in Nat : amp = k * job.depth + u[1].z
        BY <3>1 DEF InColumn
      <4>2. job.depth \in Nat /\ u[1].z \in Nat
        BY <2>1, <3>1, IndexFacts, NumberFacts, JobFacts DEF Amplified
      <4> DEFINE d == job.depth
                 z == u[1].z
      <4> HIDE DEF amp, d, z
      <4>3. (k + 1) * d = k * d + d /\ k * d \in Nat
        BY <4>2 DEF d
      <4>4. amp + d = (k + 1) * d + z /\ amp + d \in Nat /\ k + 1 \in Nat
        BY <4>1, <4>2, <4>3 DEF d, z
      <4> QED BY <4>4 DEF InColumn, d, z
    <3>5. /\ unit' \in [Launched -> [pc : {"enter", "loop", "done"}, amp : Nat]]
          /\ unit'[u].amp = amp + job.depth /\ \A v \in Launched \ {u} : unit'[v] = unit[v]
      BY <2>1, <2>9, <3>4 DEF Amplify, NextIteration
    <3>6. UnitInv'
      BY <2>4, <3>1, <3>4, <3>5
    <3> QED BY <2>2, <3>3, <3>6, JobKept
  <2>10. CASE LeaveLoop(u)
    <3>1. UnitInv' /\ ran' = ran
      BY <2>3, <2>10 DEF LeaveLoop
    <3> QED BY <2>2, <3>1, JobKept
  <2> QED BY <1>2, <2>5, <2>6, <2>7, <2>8, <2>9, <2>10 DEF Step
<1> QED BY <1>1, <1>2 DEF WGNext

\* The calls of the units are asked for, and no two of them are the same.
LEMMA CallsOnce == WGInv => NothingRunsTwice
<1> SUFFICES ASSUME WGInv PROVE NothingRunsTwice
  OBVIOUS
<1>1. job \in LaunchedJobs /\ ran \subseteq CallsMade
  BY DEF WGInv
<1>2. ASSUME NEW c \in ran
      PROVE  \E u, a : /\ Makes(u, a) /\ c = [by |-> <<u, a>>, records |-> RecordsOf(u), wg |-> WorkgroupOf(u, a)]
  <2>1. PICK d \in Launched \X Nat : /\ Makes(d[1], d[2])
          /\ c = [by |-> d, records |-> RecordsOf(d[1]), wg |-> WorkgroupOf(d[1], d[2])]
    BY <1>1 DEF CallsMade
  <2>2. d = <<d[1], d[2]>>
    OBVIOUS
  <2> QED BY <2>1, <2>2, Zenon
<1>3. ASSUME NEW c \in ran PROVE <<c.records, c.wg>> \in Asked
  <2>1. PICK u, a : Makes(u, a) /\ c = [by |-> <<u, a>>, records |-> RecordsOf(u), wg |-> WorkgroupOf(u, a)]
    BY <1>2
  <2>2. c.records = RecordsOf(u) /\ c.wg = WorkgroupOf(u, a)
    BY <2>1
  <2> QED BY <1>1, <2>1, <2>2, CallAsked
<1>4. ASSUME NEW c \in ran, NEW d \in ran, c.records = d.records, c.wg = d.wg PROVE c = d
  <2>1. PICK u, a : Makes(u, a) /\ c = [by |-> <<u, a>>, records |-> RecordsOf(u), wg |-> WorkgroupOf(u, a)]
    BY <1>2
  <2>2. PICK v, b : Makes(v, b) /\ d = [by |-> <<v, b>>, records |-> RecordsOf(v), wg |-> WorkgroupOf(v, b)]
    BY <1>2
  <2>3. c.records = RecordsOf(u) /\ c.wg = WorkgroupOf(u, a) /\ d.records = RecordsOf(v) /\ d.wg = WorkgroupOf(v, b)
    BY <2>1, <2>2
  <2>4. u = v /\ a = b
    BY <1>1, <1>4, <2>1, <2>2, <2>3, CallTells
  <2> QED BY <2>1, <2>2, <2>4
<1> QED BY <1>3, <1>4 DEF NothingRunsTwice

\* emit_workgraph_dispatcher: whatever the launch, the size of its rows, columns
\* and windows, and in whichever order units run, the node is called for no record
\* and no workgroup that was not asked for, and for none a second time.
THEOREM WGNothingRunsTwice == WGSpec => []NothingRunsTwice
<1>1. WGInit => WGInv
  BY InitInv
<1>2. WGInv /\ [WGNext]_gvars => WGInv'
  BY NextInv
<1>3. WGInv => NothingRunsTwice
  BY CallsOnce
<1> QED BY <1>1, <1>2, <1>3, PTL DEF WGSpec

-----------------------------------------------------------------------------
(* Allocation of node records: induction over finite sets.                 *)

\* Induction over the subsets of a finite set.
LEMMA SubsetInduction ==
  ASSUME NEW S, IsFiniteSet(S), NEW Q,
         {} \in Q, \A s \in SUBSET S : s # {} /\ (\A x \in s : s \ {x} \in Q) => s \in Q
  PROVE  SUBSET S \subseteq Q
<1> DEFINE Out == {s \in SUBSET S : s \notin Q}
           T == {Cardinality(s) : s \in Out}
<1>1. SUFFICES ASSUME Out # {} PROVE FALSE
  OBVIOUS
<1>2. T \subseteq Nat /\ T # {}
  BY <1>1, FS_Subset, FS_CardinalityType
<1>3. PICK k \in T : \A m \in T : k <= m
  <2> HIDE DEF T
  <2> QED BY <1>2, Least
<1>4. PICK s \in Out : Cardinality(s) = k
  BY <1>3
<1>5. s # {}
  BY <1>4
<1>6. PICK x \in s : s \ {x} \notin Q
  BY <1>4, <1>5
<1>7. IsFiniteSet(s) /\ s \ {x} \in Out
  BY <1>4, <1>6, FS_Subset
<1>8. Cardinality(s \ {x}) = Cardinality(s) - 1 /\ Cardinality(s) \in Nat
  BY <1>6, <1>7, FS_RemoveElement, FS_CardinalityType
<1> QED BY <1>3, <1>4, <1>7, <1>8

-----------------------------------------------------------------------------
(* Sums over finite sets.                                                  *)

Chosen(s) == CHOOSE x \in s : TRUE

\* The recursive definition of a sum.
Adds(f, S, g) ==
  g = [s \in SUBSET S |-> IF s = {} THEN 0 ELSE f[Chosen(s)] + g[s \ {Chosen(s)}]]

\* What the recursive definition says of each subset.
LEMMA AddsFacts ==
  ASSUME NEW f, NEW S, NEW g, Adds(f, S, g)
  PROVE  /\ g[{}] = 0
         /\ \A s \in SUBSET S : s # {} => Chosen(s) \in s /\ g[s] = f[Chosen(s)] + g[s \ {Chosen(s)}]
<1>1. ASSUME NEW s \in SUBSET S
      PROVE  g[s] = IF s = {} THEN 0 ELSE f[Chosen(s)] + g[s \ {Chosen(s)}]
  BY Zenon DEF Adds
<1>2. \A s : s # {} => Chosen(s) \in s
  BY Zenon DEF Chosen
<1>3. {} \in SUBSET S
  OBVIOUS
<1> QED BY <1>1, <1>2, <1>3

\* The definition has a solution.
AddsUpTo(f, S, k, g) ==
  /\ g = [s \in SUBSET S |-> g[s]]
  /\ \A s \in SUBSET S : Cardinality(s) <= k =>
        g[s] = IF s = {} THEN 0 ELSE f[Chosen(s)] + g[s \ {Chosen(s)}]

\* Solutions for the subsets of every size make one for all.
LEMMA Solved ==
  ASSUME NEW f, NEW S, IsFiniteSet(S)
  PROVE  \E g : Adds(f, S, g)
<1> DEFINE P == {k \in Nat : \E g : AddsUpTo(f, S, k, g)}
<1>0. \A s \in SUBSET S : /\ IsFiniteSet(s) /\ Cardinality(s) \in Nat
                          /\ Cardinality(s) <= Cardinality(S)
                          /\ s # {} => Chosen(s) \in s
                          /\ \A x \in s : Cardinality(s \ {x}) = Cardinality(s) - 1
                          /\ Cardinality(s) = 0 <=> s = {}
  <2> TAKE s \in SUBSET S
  <2>1. IsFiniteSet(s) /\ Cardinality(s) <= Cardinality(S)
    BY FS_Subset
  <2>2. Cardinality(s) \in Nat /\ (Cardinality(s) = 0 <=> s = {})
    BY <2>1, FS_CardinalityType, FS_EmptySet
  <2>3. \A x \in s : Cardinality(s \ {x}) = Cardinality(s) - 1
    BY <2>1, FS_RemoveElement
  <2>4. s # {} => Chosen(s) \in s
    BY Zenon DEF Chosen
  <2> QED BY <2>1, <2>2, <2>3, <2>4
<1>1. 0 \in P
  <2> DEFINE g == [s \in SUBSET S |-> 0]
  <2>1. AddsUpTo(f, S, 0, g)
    BY <1>0 DEF AddsUpTo
  <2> HIDE DEF g
  <2> QED BY <2>1
<1>2. ASSUME NEW k \in P PROVE k + 1 \in P
  <2>1. PICK g : AddsUpTo(f, S, k, g)
    BY <1>2
  <2> DEFINE h == [s \in SUBSET S |-> IF Cardinality(s) <= k THEN g[s]
                                      ELSE f[Chosen(s)] + g[s \ {Chosen(s)}]]
  <2>2. h = [s \in SUBSET S |-> h[s]]
    OBVIOUS
  <2>3. ASSUME NEW s \in SUBSET S, Cardinality(s) <= k + 1
        PROVE  h[s] = IF s = {} THEN 0 ELSE f[Chosen(s)] + h[s \ {Chosen(s)}]
    <3>1. CASE s = {}
      <4>1. Cardinality(s) <= k
        BY <1>0, <3>1
      <4> QED BY <4>1, <3>1, <2>1 DEF AddsUpTo
    <3>2. CASE s # {}
      <4>1. s \ {Chosen(s)} \in SUBSET S /\ Cardinality(s \ {Chosen(s)}) <= k
        BY <1>0, <2>3, <3>2
      <4>2. h[s \ {Chosen(s)}] = g[s \ {Chosen(s)}]
        BY <4>1
      <4>3. h[s] = f[Chosen(s)] + g[s \ {Chosen(s)}]
        <5>1. CASE Cardinality(s) <= k
          BY <5>1, <3>2, <2>1 DEF AddsUpTo
        <5>2. CASE ~ (Cardinality(s) <= k)
          BY <5>2
        <5> QED BY <5>1, <5>2
      <4> QED BY <3>2, <4>2, <4>3
    <3> QED BY <3>1, <3>2
  <2> HIDE DEF h
  <2>4. AddsUpTo(f, S, k + 1, h)
    BY <2>2, <2>3 DEF AddsUpTo
  <2> QED BY <2>4
<1>3. Nat \subseteq P
  <2> DEFINE T == Nat \ P
  <2>1. SUFFICES ASSUME T # {} PROVE FALSE
    OBVIOUS
  <2>2. PICK x \in T : \A y \in T : x <= y
    BY <2>1, Least
  <2>3. x # 0
    BY <1>1, <2>2
  <2>4. x - 1 \in P
    BY <2>2, <2>3
  <2> HIDE DEF P
  <2>5. x - 1 + 1 \in P
    BY <2>4, <1>2
  <2> QED BY <2>2, <2>5
<1>4. Cardinality(S) \in P
  BY <1>3, FS_CardinalityType
<1>5. PICK g : AddsUpTo(f, S, Cardinality(S), g)
  BY <1>4
<1>6. \A s \in SUBSET S : g[s] = IF s = {} THEN 0 ELSE f[Chosen(s)] + g[s \ {Chosen(s)}]
  BY <1>0, <1>5 DEF AddsUpTo
<1>7. g = [s \in SUBSET S |-> g[s]]
  BY <1>5 DEF AddsUpTo
<1>8. Adds(f, S, g)
  BY <1>6, <1>7, Zenon DEF Adds
<1> QED BY <1>8

\* A sum is what some solution says.
LEMMA SumSolved ==
  ASSUME NEW f, NEW S, IsFiniteSet(S)
  PROVE  \E g : Adds(f, S, g) /\ SumOver(f, S) = g[S]
<1> DEFINE h == CHOOSE g : g = [s \in SUBSET S |-> IF s = {} THEN 0
                                  ELSE f[CHOOSE x \in s : TRUE] + g[s \ {CHOOSE x \in s : TRUE}]]
<1>1. SumOver(f, S) = h[S]
  BY Zenon DEF SumOver, MapThenSumSet, MapThenFoldSet
<1>2. h = CHOOSE g : Adds(f, S, g)
  BY Zenon DEF Adds, Chosen
<1>3. Adds(f, S, h)
  <2> HIDE DEF h
  <2> QED BY <1>2, Solved, Zenon
<1> HIDE DEF h
<1> QED BY <1>1, <1>3, Zenon

\* Solutions agree where they add the same numbers.
LEMMA AddsAgree ==
  ASSUME NEW f, NEW S, NEW g, Adds(f, S, g), NEW e, NEW T, NEW h, Adds(e, T, h),
         IsFiniteSet(S), S \subseteq T, \A x \in S : f[x] = e[x]
  PROVE  \A s \in SUBSET S : g[s] = h[s]
<1> DEFINE Q == {s \in SUBSET S : g[s] = h[s]}
<1>1. {} \in Q
  BY AddsFacts
<1>2. ASSUME NEW s \in SUBSET S, s # {}, \A x \in s : s \ {x} \in Q
      PROVE  s \in Q
  <2>1. /\ Chosen(s) \in s
        /\ g[s] = f[Chosen(s)] + g[s \ {Chosen(s)}]
        /\ h[s] = e[Chosen(s)] + h[s \ {Chosen(s)}]
    BY <1>2, AddsFacts
  <2> QED BY <1>2, <2>1
<1> HIDE DEF Q
<1>3. SUBSET S \subseteq Q
  BY <1>1, <1>2, SubsetInduction
<1> QED BY <1>3 DEF Q

\* Sums of naturals are naturals.
LEMMA AddsNat ==
  ASSUME NEW f, NEW S, IsFiniteSet(S), \A x \in S : f[x] \in Nat, NEW g, Adds(f, S, g)
  PROVE  \A s \in SUBSET S : g[s] \in Nat
<1> DEFINE Q == {s \in SUBSET S : g[s] \in Nat}
<1>1. {} \in Q
  BY AddsFacts
<1>2. ASSUME NEW s \in SUBSET S, s # {}, \A x \in s : s \ {x} \in Q
      PROVE  s \in Q
  <2>1. Chosen(s) \in s /\ g[s] = f[Chosen(s)] + g[s \ {Chosen(s)}]
    BY <1>2, AddsFacts
  <2>2. f[Chosen(s)] \in Nat /\ g[s \ {Chosen(s)}] \in Nat
    BY <1>2, <2>1
  <2> QED BY <2>1, <2>2
<1> HIDE DEF Q
<1>3. SUBSET S \subseteq Q
  BY <1>1, <1>2, SubsetInduction
<1> QED BY <1>3 DEF Q

\* An element more, whichever it is.
LEMMA AddsAny ==
  ASSUME NEW f, NEW S, IsFiniteSet(S), \A x \in S : f[x] \in Nat, NEW g, Adds(f, S, g)
  PROVE  \A x \in S : g[S] = f[x] + g[S \ {x}]
<1> DEFINE Q == {s \in SUBSET S : \A x \in s : g[s] = f[x] + g[s \ {x}]}
<1>0. \A s \in SUBSET S : g[s] \in Nat
  BY AddsNat
<1>1. {} \in Q
  OBVIOUS
<1>2. ASSUME NEW s \in SUBSET S, s # {}, \A x \in s : s \ {x} \in Q
      PROVE  s \in Q
  <2>0. Chosen(s) \in s /\ g[s] = f[Chosen(s)] + g[s \ {Chosen(s)}]
    BY <1>2, AddsFacts
  <2>1. PICK c \in s : g[s] = f[c] + g[s \ {c}]
    BY <2>0, Zenon
  <2>2. ASSUME NEW x \in s, x # c
        PROVE  g[s] = f[x] + g[s \ {x}]
    <3>1. /\ g[s \ {c}] = f[x] + g[(s \ {c}) \ {x}]
          /\ g[s \ {x}] = f[c] + g[(s \ {x}) \ {c}]
      BY <1>2, <2>2
    <3>2. (s \ {c}) \ {x} = (s \ {x}) \ {c}
      OBVIOUS
    <3>3. PICK a \in Nat : a = g[(s \ {c}) \ {x}]
      <4>1. (s \ {c}) \ {x} \in SUBSET S
        OBVIOUS
      <4> QED BY <4>1, <1>0
    <3>4. f[c] \in Nat /\ f[x] \in Nat
      OBVIOUS
    <3>5. g[s \ {c}] = f[x] + a /\ g[s \ {x}] = f[c] + a
      BY <3>1, <3>2, <3>3
    <3> QED BY <2>1, <3>4, <3>5
  <2> QED BY <2>1, <2>2
<1> HIDE DEF Q
<1>3. SUBSET S \subseteq Q
  BY <1>1, <1>2, SubsetInduction
<1> QED BY <1>3 DEF Q

\* The sums of naturals over a finite set and over its subsets.
LEMMA SumFacts ==
  ASSUME NEW f, NEW S, IsFiniteSet(S), \A x \in S : f[x] \in Nat
  PROVE  /\ SumOver(f, S) \in Nat
         /\ \A x \in S : SumOver(f, S) = f[x] + SumOver(f, S \ {x})
<1>1. PICK g : Adds(f, S, g) /\ SumOver(f, S) = g[S]
  BY SumSolved
<1>0. \A x \in S : g[S] = f[x] + g[S \ {x}]
  <2>1. Adds(f, S, g)
    BY <1>1
  <2> QED BY <2>1, AddsAny
<1>2. SumOver(f, S) \in Nat
  BY <1>1, AddsNat
<1>3. ASSUME NEW x \in S
      PROVE  SumOver(f, S) = f[x] + SumOver(f, S \ {x})
  <2>1. IsFiniteSet(S \ {x})
    BY FS_RemoveElement
  <2>2. PICK h : Adds(f, S \ {x}, h) /\ SumOver(f, S \ {x}) = h[S \ {x}]
    BY <2>1, SumSolved
  <2>3. g[S \ {x}] = h[S \ {x}]
    BY <1>1, <2>1, <2>2, AddsAgree
  <2> QED BY <1>0, <1>1, <2>2, <2>3
<1> QED BY <1>2, <1>3

\* Nothing adds up to nothing.
LEMMA SumEmpty == ASSUME NEW f PROVE SumOver(f, {}) = 0
<1>1. PICK g : Adds(f, {}, g) /\ SumOver(f, {}) = g[{}]
  BY FS_EmptySet, SumSolved
<1> QED BY <1>1, AddsFacts

\* Equal summands, equal sums.
LEMMA SumSame ==
  ASSUME NEW f, NEW e, NEW S, IsFiniteSet(S), \A x \in S : f[x] = e[x]
  PROVE  SumOver(f, S) = SumOver(e, S)
<1>1. PICK g : Adds(f, S, g) /\ SumOver(f, S) = g[S]
  BY SumSolved
<1>2. PICK h : Adds(e, S, h) /\ SumOver(e, S) = h[S]
  BY SumSolved
<1> QED BY <1>1, <1>2, AddsAgree

\* The sum over two sets that have nothing in common.
LEMMA SumUnion ==
  ASSUME NEW f, NEW S, IsFiniteSet(S), \A x \in S : f[x] \in Nat, NEW A, NEW B,
         A \subseteq S, B \subseteq S, A \cap B = {}
  PROVE  SumOver(f, A \cup B) = SumOver(f, A) + SumOver(f, B)
<1> DEFINE Q == {s \in SUBSET S : s \cap A = {} => SumOver(f, A \cup s) = SumOver(f, A) + SumOver(f, s)}
<1>0. \A s \in SUBSET S : IsFiniteSet(s) /\ SumOver(f, s) \in Nat
  BY FS_Subset, SumFacts
<1>1. {} \in Q
  <2>1. A \cup {} = A
    OBVIOUS
  <2> QED BY <2>1, <1>0, SumEmpty
<1>2. ASSUME NEW s \in SUBSET S, s # {}, \A x \in s : s \ {x} \in Q, s \cap A = {}
      PROVE  SumOver(f, A \cup s) = SumOver(f, A) + SumOver(f, s)
  <2>1. PICK x \in s : TRUE
    BY <1>2
  <2>2. SumOver(f, A \cup (s \ {x})) = SumOver(f, A) + SumOver(f, s \ {x})
    BY <1>2
  <2>3. SumOver(f, s) = f[x] + SumOver(f, s \ {x})
    BY <1>0, SumFacts
  <2>4. SumOver(f, A \cup s) = f[x] + SumOver(f, (A \cup s) \ {x})
    <3>1. A \cup s \in SUBSET S /\ x \in A \cup s
      OBVIOUS
    <3>2. \A y \in A \cup s : f[y] \in Nat
      OBVIOUS
    <3> QED BY <3>1, <3>2, <1>0, SumFacts
  <2>5. (A \cup s) \ {x} = A \cup (s \ {x})
    BY <1>2
  <2>6. /\ f[x] \in Nat /\ SumOver(f, A) \in Nat /\ SumOver(f, s \ {x}) \in Nat
    <3>1. s \ {x} \in SUBSET S
      OBVIOUS
    <3> QED BY <3>1, <1>0
  <2> QED BY <2>2, <2>3, <2>4, <2>5, <2>6
<1>3. SUBSET S \subseteq Q
  <2>1. \A s \in SUBSET S : s # {} /\ (\A x \in s : s \ {x} \in Q) => s \in Q
    BY <1>2
  <2> HIDE DEF Q
  <2> QED BY <1>1, <2>1, SubsetInduction
<1>4. B \in Q
  <2> HIDE DEF Q
  <2> QED BY <1>3
<1> QED BY <1>4

\* A subset has a smaller sum.
LEMMA SumSubset ==
  ASSUME NEW f, NEW S, IsFiniteSet(S), \A x \in S : f[x] \in Nat, NEW A, A \subseteq S
  PROVE  SumOver(f, A) \in Nat /\ SumOver(f, A) <= SumOver(f, S)
<1>1. A \cup (S \ A) = S
  OBVIOUS
<1>2. IsFiniteSet(A) /\ IsFiniteSet(S \ A)
  BY FS_Subset
<1>3. SumOver(f, A) \in Nat /\ SumOver(f, S \ A) \in Nat
  BY <1>2, SumFacts
<1>4. SumOver(f, S) = SumOver(f, A) + SumOver(f, S \ A)
  <2>1. SumOver(f, A \cup (S \ A)) = SumOver(f, A) + SumOver(f, S \ A)
    BY SumUnion
  <2> QED BY <1>1, <2>1
<1> QED BY <1>3, <1>4

\* Summands that are all zero, and summands that are bounded.
LEMMA SumBounded ==
  ASSUME NEW f, NEW S, IsFiniteSet(S), NEW m \in Nat, \A x \in S : f[x] \in 0 .. m
  PROVE  SumOver(f, S) <= Cardinality(S) * m
<1> DEFINE Q == {s \in SUBSET S : SumOver(f, s) <= Cardinality(s) * m}
<1>0. \A s \in SUBSET S : IsFiniteSet(s) /\ SumOver(f, s) \in Nat /\ Cardinality(s) \in Nat
  BY FS_Subset, SumFacts, FS_CardinalityType
<1>1. {} \in Q
  BY SumEmpty, FS_EmptySet
<1>2. ASSUME NEW s \in SUBSET S, s # {}, \A x \in s : s \ {x} \in Q
      PROVE  s \in Q
  <2>1. PICK x \in s : TRUE
    BY <1>2
  <2>2. SumOver(f, s \ {x}) <= Cardinality(s \ {x}) * m
    BY <1>2
  <2>3. SumOver(f, s) = f[x] + SumOver(f, s \ {x})
    BY <1>0, SumFacts
  <2>4. PICK k \in Nat : k = Cardinality(s \ {x}) /\ Cardinality(s) = k + 1
    <3>1. Cardinality(s \ {x}) = Cardinality(s) - 1
      BY <1>0, FS_RemoveElement
    <3>2. s \ {x} \in SUBSET S
      OBVIOUS
    <3> QED BY <3>1, <3>2, <1>0
  <2>5. (k + 1) * m = k * m + m /\ k * m \in Nat
    OBVIOUS
  <2>6. SumOver(f, s \ {x}) \in Nat /\ f[x] \in 0 .. m
    <3>1. s \ {x} \in SUBSET S
      OBVIOUS
    <3> QED BY <3>1, <1>0
  <2>7. SumOver(f, s) <= (k + 1) * m
    BY <2>2, <2>3, <2>4, <2>5, <2>6
  <2> QED BY <2>4, <2>7
<1> HIDE DEF Q
<1>3. SUBSET S \subseteq Q
  BY <1>1, <1>2, SubsetInduction
<1> QED BY <1>3 DEF Q

\* Zeros add up to zero.
LEMMA SumZero ==
  ASSUME NEW f, NEW S, IsFiniteSet(S), \A x \in S : f[x] = 0
  PROVE  SumOver(f, S) = 0
<1>1. SumOver(f, S) <= Cardinality(S) * 0
  BY SumBounded
<1>2. SumOver(f, S) \in Nat /\ Cardinality(S) \in Nat
  BY SumFacts, FS_CardinalityType
<1> QED BY <1>1, <1>2

\* One summand changes.
LEMMA SumChanged ==
  ASSUME NEW f, NEW e, NEW S, IsFiniteSet(S), \A x \in S : f[x] \in Nat /\ e[x] \in Nat,
         NEW x \in S, \A y \in S \ {x} : e[y] = f[y]
  PROVE  SumOver(e, S) = SumOver(f, S) - f[x] + e[x]
<1>1. SumOver(f, S) = f[x] + SumOver(f, S \ {x}) /\ SumOver(e, S) = e[x] + SumOver(e, S \ {x})
  BY SumFacts
<1>2. IsFiniteSet(S \ {x})
  BY FS_RemoveElement
<1>3. SumOver(f, S \ {x}) = SumOver(e, S \ {x}) /\ SumOver(f, S \ {x}) \in Nat
  BY <1>2, SumSame, SumFacts
<1> QED BY <1>1, <1>3

\* Division and remainder.
LEMMA Division ==
  ASSUME NEW n \in Nat, NEW d \in Nat \ {0}, NEW r \in 0 .. d - 1
  PROVE  (n * d + r) \div d = n /\ (n * d + r) % d = r
<1> DEFINE x == n * d + r
<1>1. x \in Nat
  OBVIOUS
<1>2. PICK q \in Nat, s \in 0 .. d - 1 : x = d * q + s /\ q = x \div d /\ s = x % d
  <2> HIDE DEF x
  <2> QED BY <1>1
<1>3. ~ (q < n)
  <2> SUFFICES ASSUME q < n PROVE FALSE
    OBVIOUS
  <2>1. PICK k \in Nat : n = q + 1 + k
    BY <1>2
  <2>2. n * d = q * d + d + k * d /\ k * d \in Nat /\ d * q = q * d
    BY <2>1
  <2> QED BY <1>2, <2>2
<1>4. ~ (n < q)
  <2> SUFFICES ASSUME n < q PROVE FALSE
    OBVIOUS
  <2>1. PICK k \in Nat : q = n + 1 + k
    BY <1>2
  <2>2. d * q = n * d + d + k * d /\ k * d \in Nat
    BY <2>1
  <2> QED BY <1>2, <2>2
<1> QED BY <1>2, <1>3, <1>4

\* A list entry gives back the node and the count it was made of.
LEMMA HeaderFacts ==
  ASSUME NEW n \in Nat, NEW c \in 1 .. CountRange
  PROVE  /\ Header(n, c) \in Nat
         /\ HeaderNode(Header(n, c)) = n /\ HeaderCount(Header(n, c)) = c
<1>1. CountRange \in Nat \ {0} /\ c - 1 \in 0 .. CountRange - 1
  BY NodeRecordsAssumption
<1>2. (n * CountRange + (c - 1)) \div CountRange = n /\ (n * CountRange + (c - 1)) % CountRange = c - 1
  BY <1>1, Division
<1>3. n * CountRange + (c - 1) \in Nat
  BY <1>1
<1> QED BY <1>2, <1>3 DEF Header, HeaderNode, HeaderCount

\* Payloads are aligned.
Aligned == {k * Alignment : k \in Nat}

\* Aligning rounds up to a multiple, and multiples add up to multiples.
LEMMA AlignFacts ==
  /\ \A n \in Nat : Align(n) \in Aligned /\ n <= Align(n)
  /\ \A a, b \in Aligned : a \in Nat /\ a + b \in Aligned /\ a % Alignment = 0
  /\ 0 \in Aligned
<1>1. Alignment \in Nat \ {0}
  BY NodeRecordsAssumption
<1>2. ASSUME NEW n \in Nat PROVE Align(n) \in Aligned /\ n <= Align(n)
  <2>1. PICK q \in Nat, s \in 0 .. Alignment - 1 :
          n + Alignment - 1 = Alignment * q + s /\ q = (n + Alignment - 1) \div Alignment
    BY <1>1
  <2>2. Align(n) = q * Alignment
    BY <2>1 DEF Align
  <2> QED BY <1>1, <2>1, <2>2 DEF Aligned
<1>3. ASSUME NEW a \in Aligned, NEW b \in Aligned
      PROVE  a \in Nat /\ a + b \in Aligned /\ a % Alignment = 0
  <2>1. PICK i \in Nat : a = i * Alignment
    BY DEF Aligned
  <2>2. PICK j \in Nat : b = j * Alignment
    BY DEF Aligned
  <2>3. a + b = (i + j) * Alignment /\ i + j \in Nat
    BY <1>1, <2>1, <2>2
  <2>4. a = i * Alignment + 0 /\ 0 \in 0 .. Alignment - 1
    BY <1>1, <2>1
  <2>5. a % Alignment = 0
    BY <1>1, <2>4, Division
  <2> QED BY <1>1, <2>1, <2>3, <2>5 DEF Aligned
<1>4. 0 \in Aligned
  <2>1. 0 = 0 * Alignment
    BY <1>1
  <2> QED BY <2>1 DEF Aligned
<1> QED BY <1>2, <1>3, <1>4

\* The bytes of so many records.
LEMMA Bytes ==
  ASSUME NEW a \in Nat, NEW b \in Nat
  PROVE  /\ a * RecordSize \in Nat
         /\ a <= b => a * RecordSize <= b * RecordSize
         /\ (a + b) * RecordSize = a * RecordSize + b * RecordSize
<1>1. RecordSize \in Nat \ {0}
  BY NodeRecordsAssumption
<1>2. a <= b => a * RecordSize <= b * RecordSize
  <2> SUFFICES ASSUME a <= b PROVE a * RecordSize <= b * RecordSize
    OBVIOUS
  <2>1. PICK k \in Nat : b = a + k
    OBVIOUS
  <2>2. b * RecordSize = a * RecordSize + k * RecordSize /\ k * RecordSize \in Nat /\ a * RecordSize \in Nat
    BY <1>1, <2>1
  <2> QED BY <2>2
<1> QED BY <1>1, <1>2

-----------------------------------------------------------------------------
(* What is asked for.                                                      *)

\* What waves and groups ask for has its type.
LEMMA WantFacts ==
  ASSUME want \in Scenarios
  PROVE  /\ \A w \in Waves : /\ DOMAIN Lane(w) \subseteq WaveLane /\ IsFiniteSet(DOMAIN Lane(w))
                             /\ Lane(w) \in [DOMAIN Lane(w) -> Ask]
                             /\ want.kind[w] \in {"allocate", "increment"}
         /\ \A g \in Groups : Calls(g) \in Seq(GroupAsk)
         /\ want.finish \in BOOLEAN
<1>1. want \in Requests
  BY ScenariosAssumption
<1>2. IsFiniteSet(WaveLane)
  BY NodeRecordsAssumption, FS_Interval DEF WaveLane
<1>3. ASSUME NEW w \in Waves
      PROVE  /\ DOMAIN Lane(w) \subseteq WaveLane /\ IsFiniteSet(DOMAIN Lane(w))
             /\ Lane(w) \in [DOMAIN Lane(w) -> Ask]
             /\ want.kind[w] \in {"allocate", "increment"}
  <2>1. want.waves[w] \in LaneAsks /\ want.kind[w] \in {"allocate", "increment"}
    BY <1>1 DEF Requests
  <2>2. PICK L \in SUBSET WaveLane : Lane(w) \in [L -> Ask]
    BY <2>1 DEF LaneAsks, Lane
  <2>3. DOMAIN Lane(w) = L
    BY <2>2
  <2>4. IsFiniteSet(L)
    BY <1>2, FS_Subset
  <2> QED BY <2>1, <2>2, <2>3, <2>4
<1>4. \A g \in Groups : Calls(g) \in Seq(GroupAsk)
  BY <1>1 DEF Requests, Calls
<1> QED BY <1>1, <1>3, <1>4 DEF Requests

\* The sums over the lanes of a call.
LEMMA TotalFacts ==
  ASSUME want \in Scenarios, NEW w \in Waves, NEW S, S \subseteq DOMAIN Lane(w)
  PROVE  /\ Total(w, S) \in Nat /\ Total(w, S) <= CountRange
         /\ \A l \in S : LaneCounts(w)[l] = Lane(w)[l].count /\ Lane(w)[l].count \in Nat
         /\ IsFiniteSet(S)
<1>1. /\ DOMAIN Lane(w) \subseteq WaveLane /\ IsFiniteSet(DOMAIN Lane(w))
      /\ Lane(w) \in [DOMAIN Lane(w) -> Ask]
  BY WantFacts
<1>2. /\ WaveWidth \in Nat /\ MaxCount \in Nat /\ CountRange \in Nat /\ WaveWidth # 0
      /\ WaveWidth * MaxCount <= CountRange
  BY NodeRecordsAssumption
<1>3. IsFiniteSet(WaveLane) /\ Cardinality(WaveLane) = WaveWidth
  BY <1>2, FS_Interval DEF WaveLane
<1>4. IsFiniteSet(S) /\ Cardinality(S) <= WaveWidth /\ Cardinality(S) \in Nat
  BY <1>1, <1>3, FS_Subset, FS_CardinalityType
<1>5. \A l \in S : LaneCounts(w)[l] = Lane(w)[l].count /\ Lane(w)[l].count \in 0 .. MaxCount
  BY <1>1 DEF LaneCounts, Ask
<1>6. \A l \in S : LaneCounts(w)[l] \in 0 .. MaxCount /\ LaneCounts(w)[l] \in Nat
  BY <1>2, <1>5
<1>7. Total(w, S) \in Nat /\ Total(w, S) <= Cardinality(S) * MaxCount
  BY <1>2, <1>4, <1>6, SumFacts, SumBounded DEF Total
<1>8. Cardinality(S) * MaxCount <= WaveWidth * MaxCount
  <2> DEFINE k == WaveWidth - Cardinality(S)
  <2>1. k \in Nat /\ WaveWidth = Cardinality(S) + k
    BY <1>2, <1>4
  <2> HIDE DEF k
  <2>2. WaveWidth * MaxCount = Cardinality(S) * MaxCount + k * MaxCount /\ k * MaxCount \in Nat
        /\ Cardinality(S) * MaxCount \in Nat
    BY <1>2, <1>4, <2>1
  <2> QED BY <2>2
<1>9. Cardinality(S) * MaxCount \in Nat /\ WaveWidth * MaxCount \in Nat
  BY <1>2, <1>4
<1> QED BY <1>2, <1>4, <1>5, <1>7, <1>8, <1>9

\* Lanes take turns within the call's records, the first lane first.
LEMMA ScanFacts ==
  ASSUME want \in Scenarios, NEW w \in Waves, NEW S, S \subseteq DOMAIN Lane(w), NEW l \in S
  PROVE  /\ Scan(w, S, l) \in Nat
         /\ Scan(w, S, l) + Lane(w)[l].count <= Total(w, S)
         /\ \A k \in S : l < k => Scan(w, S, l) + Lane(w)[l].count <= Scan(w, S, k)
<1>1. S \subseteq Int
  BY WantFacts DEF WaveLane
<1>2. ASSUME NEW A, A \subseteq S, \A k \in S : k < l => k \in A, l \in A
      PROVE  Scan(w, S, l) \in Nat /\ Scan(w, S, l) + Lane(w)[l].count <= Total(w, A)
  <2> DEFINE B == {k \in S : k < l}
  <2>1. B \cup {l} \subseteq A /\ (B \cup {l}) \ {l} = B
    <3>1. l \in Int /\ ~ (l < l)
      BY <1>1
    <3>2. l \notin B
      BY <3>1
    <3>3. \A x \in B : x \in A
      BY <1>2
    <3>4. l \in A
      BY <1>2
    <3> QED BY <3>2, <3>3, <3>4
  <2>2. Total(w, B \cup {l}) = Lane(w)[l].count + Total(w, B) /\ Total(w, B) \in Nat
    <3>1. B \cup {l} \subseteq DOMAIN Lane(w) /\ B \subseteq DOMAIN Lane(w)
      OBVIOUS
    <3>2. /\ IsFiniteSet(B \cup {l})
          /\ \A x \in B \cup {l} : LaneCounts(w)[x] = Lane(w)[x].count /\ LaneCounts(w)[x] \in Nat
      BY <3>1, TotalFacts
    <3>3. SumOver(LaneCounts(w), B \cup {l}) = LaneCounts(w)[l] + SumOver(LaneCounts(w), (B \cup {l}) \ {l})
      BY <3>2, SumFacts
    <3> QED BY <2>1, <3>1, <3>2, <3>3, TotalFacts DEF Total
  <2>3. Total(w, B \cup {l}) <= Total(w, A)
    <3>1. A \subseteq DOMAIN Lane(w)
      BY <1>2
    <3>2. IsFiniteSet(A) /\ \A x \in A : LaneCounts(w)[x] \in Nat
      BY <3>1, TotalFacts
    <3> QED BY <2>1, <3>2, SumSubset DEF Total
  <2>4. Total(w, A) \in Nat /\ Lane(w)[l].count \in Nat
    BY <1>2, TotalFacts
  <2> QED BY <2>2, <2>3, <2>4 DEF Scan
<1>3. ASSUME NEW k \in S, l < k
      PROVE  Scan(w, S, l) + Lane(w)[l].count <= Scan(w, S, k)
  <2>1. {i \in S : i < k} \subseteq S /\ (\A i \in S : i < l => i < k)
    BY <1>1, <1>3
  <2>2. Scan(w, S, l) + Lane(w)[l].count <= Total(w, {i \in S : i < k})
    BY <1>2, <1>3, <2>1
  <2> QED BY <2>2 DEF Scan
<1> QED BY <1>2, <1>3

\* A wave serves one call of its waterfall at a time, a group one call after the
\* other through its first thread: who owns an allocation in progress.
Owners == Waves \cup Groups
PcOf(o) == IF o \in Waves THEN wave[o].pc ELSE thread[o][0].pc
Taking(o) == IF o \in Waves THEN wave[o].alloc ELSE thread[o][0].alloc

Serving == BodyPcs \cup {"merge"}
Meeting == {"wait", "leave"}
Finishing == {"publish", "finish", "done"}

Entry == [node : Nat, count : Nat, offset : Int, slot : Int]
ListEntry == [header : Int, payload : Int]

RecordTypes ==
  /\ want \in Scenarios
  /\ mem \in [payload : Aligned, fused : Nat, total : [Nodes -> Nat],
              list : [0 .. mem.fused - 1 -> ListEntry], cookie : Int]
  /\ wave \in [Waves -> [pc : {"loop"} \cup Serving, looping : SUBSET WaveLane,
                         call : SUBSET WaveLane, alloc : Entry]]
  /\ thread \in [Groups -> [Thread -> [pc : {"enter"} \cup Serving \cup Meeting \cup Finishing,
                            call : Nat, alloc : Entry, arrived : Nat, last : BOOLEAN]]]
  /\ shared \in [Groups -> [offset : Int, last : BOOLEAN]]

\* The elected lane allocates what the lanes of the call ask for.
WaveServes(w) ==
  /\ wave[w].looping \subseteq DOMAIN Lane(w) /\ wave[w].call \subseteq wave[w].looping
  /\ IF wave[w].pc = "loop" THEN wave[w].call = {}
     ELSE /\ want.kind[w] = "allocate"
          /\ wave[w].alloc.count = Total(w, wave[w].call) /\ wave[w].alloc.count > 0
          /\ wave[w].alloc.node \in Nodes
          /\ \A l \in wave[w].call : Lane(w)[l].node = wave[w].alloc.node

\* A call a group takes part in with all its threads.
Allocates(g, k) == k <= Len(Calls(g)) /\ Calls(g)[k].kind = "allocate" /\ Calls(g)[k].count # 0

ThreadServes(g, t) ==
  /\ thread[g][t].call \in 1 .. Len(Calls(g)) + 1
  /\ t # 0 => thread[g][t].pc \notin Serving \cup {"publish"}
  /\ thread[g][t].pc \in Serving \cup Meeting => Allocates(g, thread[g][t].call)
  /\ thread[g][t].pc \in Finishing => want.finish /\ thread[g][t].call = Len(Calls(g)) + 1
  /\ t = 0 /\ thread[g][t].pc \in Serving \cup Meeting =>
       /\ thread[g][t].alloc.node = Calls(g)[thread[g][t].call].node
       /\ thread[g][t].alloc.count = Calls(g)[thread[g][t].call].count

Serves == /\ \A w \in Waves : WaveServes(w)
          /\ \A g \in Groups : \A t \in Thread : ThreadServes(g, t)

\* Barriers: a thread has joined two for each allocation behind it.
Behind(g, k) == Cardinality({i \in 1 .. k - 1 : Allocates(g, i)})
Stage(pc) == IF pc = "leave" THEN 2 ELSE IF pc \in {"wait", "finish", "done"} THEN 1 ELSE 0

InStep(g) ==
  \A t \in Thread :
    /\ thread[g][t].arrived = 2 * Behind(g, thread[g][t].call) + Stage(thread[g][t].pc)
    /\ \A s \in Thread :
         thread[g][t].arrived >= 2 * Behind(g, thread[g][s].call)
                                 + (IF thread[g][s].pc \in {"leave", "done"} THEN 1 ELSE 0)

\* What the first thread shared.
Shares(g) ==
  /\ thread[g][0].pc \in Meeting => shared[g].offset = thread[g][0].alloc.offset
  /\ thread[g][0].pc \in {"finish", "done"} => shared[g].last = thread[g][0].last
  /\ \A t \in Thread : thread[g][t].pc = "done" =>
       thread[g][0].pc \in {"finish", "done"} /\ thread[g][t].last = shared[g].last

\* Every lane was given its records once, every group the records of each call.
Given ==
  /\ got \subseteq [who : Owners \X Nat, node : Nodes, count : 0 .. CountRange, offset : Nat]
  /\ \A r \in got :
       IF r.who[1] \in Waves THEN r.who[2] \in DOMAIN Lane(r.who[1]) \ wave[r.who[1]].looping
       ELSE LET th == thread[r.who[1]][0]
            IN  /\ r.who[2] <= th.call
                /\ r.who[2] = th.call =>
                     /\ th.pc \in Meeting
                     /\ r.node = th.alloc.node /\ r.count = th.alloc.count /\ r.offset = th.alloc.offset

\* The records of the call that a group is in.
Own(o, r) == o \in Groups /\ r.who = <<o, thread[o][0].call>>

Placed == {"fused", "total", "header", "store", "merge"} \cup Meeting
Slotted == Placed \ {"fused"}
Writing == {"total", "header", "store"}

RegionEnd(o) == Taking(o).offset + Taking(o).count * RecordSize
Apart(start, end, r) == end <= r.offset \/ RecordEnd(r) <= start \/ r.count = 0

\* Allocations in progress share no payload memory, with each other or with records.
Regions ==
  /\ \A o \in Owners : PcOf(o) \in Placed =>
       /\ Taking(o).offset \in Aligned /\ RegionEnd(o) <= mem.payload
       /\ \A p \in Owners : p # o /\ PcOf(p) \in Placed =>
            RegionEnd(o) <= Taking(p).offset \/ RegionEnd(p) <= Taking(o).offset
       /\ \A r \in got : Own(o, r) \/ Apart(Taking(o).offset, RegionEnd(o), r)
  /\ RecordsDisjoint

\* Entry i of the list covers record r.
Covers(i, r) ==
  LET e == mem.list[i]
  IN  /\ e.payload # Unset /\ e.payload % Alignment = 0
      /\ HeaderNode(e.header) = r.node
      /\ e.payload <= r.offset /\ RecordEnd(r) <= e.payload + HeaderCount(e.header) * RecordSize

\* Allocations in progress share no list entry, and write none that others read.
Slots ==
  /\ \A o \in Owners : PcOf(o) \in Slotted =>
       /\ Taking(o).slot \in 0 .. mem.fused - 1
       /\ \A p \in Owners : p # o /\ PcOf(p) \in Slotted => Taking(p).slot # Taking(o).slot
       /\ PcOf(o) \in {"store", "merge"} \cup Meeting =>
            mem.list[Taking(o).slot].header = Header(Taking(o).node, Taking(o).count)
       /\ PcOf(o) \in {"merge"} \cup Meeting => mem.list[Taking(o).slot].payload = Taking(o).offset
  /\ \A r \in got : r.count > 0 =>
       \E i \in 0 .. mem.fused - 1 :
         Covers(i, r) /\ \A o \in Owners : PcOf(o) \in Writing => Taking(o).slot # i

\* The cookie counts the groups that have not finished, and the last of them knows.
Unfinished == {g \in Groups : thread[g][0].pc \notin Finishing}
Cookie ==
  /\ mem.cookie = Cardinality(Unfinished)
  /\ \A g \in Groups \ Unfinished : thread[g][0].last =>
       Unfinished = {} /\ \A h \in Groups : thread[h][0].last => h = g
  /\ Unfinished = {} => \E g \in Groups : thread[g][0].last

\* The node totals are what those have asked for that have passed the counter.
CountsOf(asks, n) == [x \in DOMAIN asks |-> IF asks[x].node = n THEN asks[x].count ELSE 0]
Counted == {"header", "store", "merge"}
CountedLanes(w) ==
  (DOMAIN Lane(w) \ wave[w].looping) \cup (IF wave[w].pc \in Counted THEN wave[w].call ELSE {})
CountedCalls(g) ==
  {i \in 1 .. Len(Calls(g)) :
     \/ i < thread[g][0].call
     \/ i = thread[g][0].call /\ thread[g][0].pc \in Counted \cup Meeting}
WaveTotal(w, n) == SumOver(CountsOf(Lane(w), n), CountedLanes(w))
GroupTotal(g, n) == SumOver(CountsOf(Calls(g), n), CountedCalls(g))
Totals ==
  \A n \in Nodes :
    mem.total[n] = SumOver([w \in Waves |-> WaveTotal(w, n)], Waves)
                   + SumOver([g \in Groups |-> GroupTotal(g, n)], Groups)

RecordsInv ==
  /\ RecordTypes /\ Serves /\ (\A g \in Groups : InStep(g) /\ Shares(g))
  /\ Given /\ Regions /\ Slots /\ Cookie /\ Totals

\* Waves and groups own allocations, and every group has a first thread.
LEMMA OwnerFacts ==
  /\ \A w \in Waves : w \in Owners /\ w \notin Groups /\ PcOf(w) = wave[w].pc /\ Taking(w) = wave[w].alloc
  /\ \A g \in Groups : g \in Owners /\ g \notin Waves
                       /\ PcOf(g) = thread[g][0].pc /\ Taking(g) = thread[g][0].alloc
  /\ 0 \in Thread
BY NodeRecordsAssumption DEF Owners, PcOf, Taking, Thread

\* Nobody changes what is asked for.
LEMMA WantFixed ==
  ASSUME want' = want
  PROVE  /\ \A w \in Waves : Lane(w)' = Lane(w) /\ LaneCounts(w)' = LaneCounts(w)
                             /\ \A S : Total(w, S)' = Total(w, S)
         /\ \A g \in Groups : /\ Calls(g)' = Calls(g)
                              /\ \A k : (Allocates(g, k)' <=> Allocates(g, k)) /\ Behind(g, k)' = Behind(g, k)
<1>1. ASSUME NEW w \in Waves
      PROVE  Lane(w)' = Lane(w) /\ LaneCounts(w)' = LaneCounts(w) /\ \A S : Total(w, S)' = Total(w, S)
  BY DEF Lane, LaneCounts, Total
<1>2. ASSUME NEW g \in Groups
      PROVE  /\ Calls(g)' = Calls(g)
             /\ \A k : (Allocates(g, k)' <=> Allocates(g, k)) /\ Behind(g, k)' = Behind(g, k)
  BY DEF Calls, Allocates, Behind
<1> QED BY <1>1, <1>2

\* The sums over the lanes and calls that have passed the counter.
LEMMA CountsFacts ==
  ASSUME want \in Scenarios, NEW n
  PROVE  /\ \A w \in Waves : \A l \in DOMAIN Lane(w) :
              /\ CountsOf(Lane(w), n)[l] \in Nat
              /\ CountsOf(Lane(w), n)[l] = IF Lane(w)[l].node = n THEN LaneCounts(w)[l] ELSE 0
              /\ LaneCounts(w)[l] \in Nat
         /\ \A g \in Groups : \A i \in 1 .. Len(Calls(g)) :
              /\ CountsOf(Calls(g), n)[i] \in Nat
              /\ CountsOf(Calls(g), n)[i] = IF Calls(g)[i].node = n THEN Calls(g)[i].count ELSE 0
<1>1. MaxCount \in Nat
  BY NodeRecordsAssumption
<1>2. ASSUME NEW w \in Waves, NEW l \in DOMAIN Lane(w)
      PROVE  /\ CountsOf(Lane(w), n)[l] \in Nat
             /\ CountsOf(Lane(w), n)[l] = IF Lane(w)[l].node = n THEN LaneCounts(w)[l] ELSE 0
             /\ LaneCounts(w)[l] \in Nat
  BY <1>1, WantFacts DEF CountsOf, LaneCounts, Ask
<1>3. ASSUME NEW g \in Groups, NEW i \in 1 .. Len(Calls(g))
      PROVE  /\ CountsOf(Calls(g), n)[i] \in Nat
             /\ CountsOf(Calls(g), n)[i] = IF Calls(g)[i].node = n THEN Calls(g)[i].count ELSE 0
  <2>1. Calls(g) \in Seq(GroupAsk)
    BY WantFacts
  <2>2. Calls(g)[i] \in GroupAsk /\ DOMAIN Calls(g) = 1 .. Len(Calls(g))
    BY <2>1
  <2> QED BY <1>1, <2>2 DEF CountsOf, GroupAsk
<1> QED BY <1>2, <1>3

\* The calls a group makes have their types.
LEMMA CallFacts ==
  ASSUME want \in Scenarios, NEW g \in Groups
  PROVE  /\ Len(Calls(g)) \in Nat /\ DOMAIN Calls(g) = 1 .. Len(Calls(g))
         /\ \A i \in 1 .. Len(Calls(g)) :
              /\ Calls(g)[i].node \in Nodes /\ Calls(g)[i].node \in Nat
              /\ Calls(g)[i].count \in Nat /\ Calls(g)[i].count <= CountRange
              /\ Calls(g)[i].kind \in {"allocate", "increment"}
<1>1. Calls(g) \in Seq(GroupAsk)
  BY WantFacts
<1>2. MaxCount \in Nat /\ MaxCount <= CountRange
  <2>1. MaxCount \in Nat /\ WaveWidth \in Nat \ {0} /\ WaveWidth * MaxCount <= CountRange /\ CountRange \in Nat
    BY NodeRecordsAssumption
  <2> DEFINE k == WaveWidth - 1
  <2>2. k \in Nat /\ WaveWidth = 1 + k
    BY <2>1
  <2> HIDE DEF k
  <2>3. WaveWidth * MaxCount = MaxCount + k * MaxCount /\ k * MaxCount \in Nat
    BY <2>1, <2>2
  <2> QED BY <2>1, <2>3
<1>3. \A i \in 1 .. Len(Calls(g)) : Calls(g)[i] \in GroupAsk
  BY <1>1
<1>4. CountRange \in Nat /\ Nodes \subseteq Nat
  BY NodeRecordsAssumption
<1>5. Len(Calls(g)) \in Nat /\ DOMAIN Calls(g) = 1 .. Len(Calls(g))
  BY <1>1
<1>6. \A c \in GroupAsk : /\ c.node \in Nodes /\ c.node \in Nat /\ c.count \in Nat /\ c.count <= CountRange
                          /\ c.kind \in {"allocate", "increment"}
  <2> TAKE c \in GroupAsk
  <2>1. c.node \in Nodes /\ c.count \in 0 .. MaxCount /\ c.kind \in {"allocate", "increment"}
    BY DEF GroupAsk
  <2>2. c.node \in Nat
    BY <1>4, <2>1
  <2>3. c.count \in Nat
    BY <1>2, <2>1
  <2>4. c.count <= CountRange
    BY <1>2, <1>4, <2>1, <2>3
  <2> QED BY <2>1, <2>2, <2>3, <2>4, Zenon
<1> QED BY <1>3, <1>5, <1>6

-----------------------------------------------------------------------------
\* Nothing is allocated at first.
LEMMA RecordsInit == NRInit => RecordsInv
<1> SUFFICES ASSUME NRInit PROVE RecordsInv
  OBVIOUS
<1> USE DEF NRInit
<1>0. want \in Scenarios /\ 0 \in Aligned /\ Nothing \in Entry
  BY AlignFacts DEF Nothing, Entry, Unset
<1>1. RecordTypes
  <2>1. Cardinality(Groups) \in Int
    BY NodeRecordsAssumption, FS_CardinalityType
  <2>2. mem \in [payload : Aligned, fused : Nat, total : [Nodes -> Nat],
                 list : [0 .. mem.fused - 1 -> ListEntry], cookie : Int]
    BY <1>0, <2>1
  <2>3. wave \in [Waves -> [pc : {"loop"} \cup Serving, looping : SUBSET WaveLane,
                            call : SUBSET WaveLane, alloc : Entry]]
    BY <1>0, WantFacts DEF Lane
  <2>4. thread \in [Groups -> [Thread -> [pc : {"enter"} \cup Serving \cup Meeting \cup Finishing,
                               call : Nat, alloc : Entry, arrived : Nat, last : BOOLEAN]]]
    BY <1>0
  <2>5. shared \in [Groups -> [offset : Int, last : BOOLEAN]]
    BY DEF Unset
  <2> QED BY <1>0, <2>2, <2>3, <2>4, <2>5 DEF RecordTypes
<1>2. Serves
  BY <1>0, CallFacts DEF Serves, WaveServes, ThreadServes, Lane, Serving, BodyPcs, Meeting, Finishing
<1>3. ASSUME NEW g \in Groups PROVE InStep(g) /\ Shares(g)
  <2>1. \A t \in Thread : thread[g][t].pc = "enter" /\ thread[g][t].call = 1 /\ thread[g][t].arrived = 0
    OBVIOUS
  <2>2. Behind(g, 1) = 0
    <3>1. {i \in 1 .. 1 - 1 : Allocates(g, i)} = {}
      OBVIOUS
    <3> QED BY <3>1, FS_EmptySet DEF Behind
  <2>3. InStep(g)
    BY <2>1, <2>2 DEF InStep, Stage
  <2> QED BY <2>1, <2>3, OwnerFacts DEF Shares, Meeting
<1>4. Given /\ RecordsDisjoint
  BY DEF Given, RecordsDisjoint
<1>5. \A o \in Owners : PcOf(o) \in {"loop", "enter"}
  BY OwnerFacts DEF PcOf, Owners
<1>6. Regions /\ Slots
  BY <1>4, <1>5 DEF Regions, Slots, Placed, Slotted, Meeting
<1>7. Cookie
  <2>1. Unfinished = Groups /\ \A g \in Groups : ~ thread[g][0].last
    BY OwnerFacts DEF Unfinished, Finishing
  <2> QED BY <2>1, NodeRecordsAssumption DEF Cookie
<1>8. Totals
  <2> SUFFICES ASSUME NEW n \in Nodes
               PROVE  mem.total[n] = SumOver([w \in Waves |-> WaveTotal(w, n)], Waves)
                                     + SumOver([g \in Groups |-> GroupTotal(g, n)], Groups)
    BY DEF Totals
  <2>1. \A w \in Waves : WaveTotal(w, n) = 0
    <3>1. \A w \in Waves : CountedLanes(w) = {}
      BY DEF CountedLanes, Lane, Counted
    <3> QED BY <3>1, SumEmpty DEF WaveTotal
  <2>2. \A g \in Groups : GroupTotal(g, n) = 0
    <3>1. \A g \in Groups : CountedCalls(g) = {}
      BY OwnerFacts DEF CountedCalls, Counted, Meeting
    <3> QED BY <3>1, SumEmpty DEF GroupTotal
  <2>3. /\ SumOver([w \in Waves |-> WaveTotal(w, n)], Waves) = 0
        /\ SumOver([g \in Groups |-> GroupTotal(g, n)], Groups) = 0
    BY <2>1, <2>2, SumZero, NodeRecordsAssumption
  <2> QED BY <2>3
<1> QED BY <1>1, <1>2, <1>3, <1>4, <1>6, <1>7, <1>8 DEF RecordsInv

-----------------------------------------------------------------------------
(* The elected lane's body, one instruction at a time.                     *)

\* Owner o executes the instruction it is at; everything else stays.
BodyStep(o) ==
  /\ PcOf(o) \in BodyPcs
  /\ mem' = Execute(PcOf(o), Taking(o)).memory
  /\ Taking(o)' = Execute(PcOf(o), Taking(o)).alloc /\ PcOf(o)' = AfterStep[PcOf(o)]
  /\ \A p \in Owners \ {o} : PcOf(p)' = PcOf(p) /\ Taking(p)' = Taking(p)
  /\ \A p \in Owners : \A r : Own(p, r)' <=> Own(p, r)
  /\ got' = got /\ want' = want

\* What an owner in the body is there for.
LEMMA ServingFacts ==
  ASSUME RecordTypes, Serves, NEW o \in Owners, PcOf(o) \in Serving \cup Meeting
  PROVE  /\ Taking(o) \in Entry /\ Taking(o).node \in Nodes /\ Taking(o).node \in Nat
         /\ Taking(o).count \in 1 .. CountRange
<1>1. Nodes \subseteq Nat /\ CountRange \in Nat
  BY NodeRecordsAssumption
<1>2. CASE o \in Waves
  <2>1. /\ wave[o].alloc \in Entry /\ wave[o].pc \in {"loop"} \cup Serving
        /\ wave[o].call \subseteq DOMAIN Lane(o)
    BY <1>2 DEF RecordTypes, Serves, WaveServes
  <2>2. wave[o].pc # "loop"
    BY <1>2, OwnerFacts DEF Serving, Meeting, BodyPcs
  <2>3. wave[o].alloc.count = Total(o, wave[o].call) /\ wave[o].alloc.count > 0 /\ wave[o].alloc.node \in Nodes
    BY <1>2, <2>2 DEF Serves, WaveServes
  <2>4. Total(o, wave[o].call) \in Nat /\ Total(o, wave[o].call) <= CountRange
    BY <1>2, <2>1, TotalFacts DEF RecordTypes
  <2>5. Taking(o) = wave[o].alloc
    BY <1>2, OwnerFacts
  <2>6. wave[o].alloc.count \in 1 .. CountRange
    BY <1>1, <2>3, <2>4
  <2>7. wave[o].alloc.node \in Nat
    BY <1>1, <2>3
  <2> QED BY <2>1, <2>3, <2>5, <2>6, <2>7
<1>3. CASE o \in Groups
  <2>1. /\ thread[o][0].alloc \in Entry /\ Taking(o) = thread[o][0].alloc /\ PcOf(o) = thread[o][0].pc
    BY <1>3, OwnerFacts DEF RecordTypes
  <2> DEFINE k == thread[o][0].call
  <2>2. k \in 1 .. Len(Calls(o)) + 1 /\ Allocates(o, k)
        /\ Taking(o).node = Calls(o)[k].node /\ Taking(o).count = Calls(o)[k].count
    BY <1>3, <2>1, OwnerFacts DEF Serves, ThreadServes
  <2> HIDE DEF k
  <2>3. k \in 1 .. Len(Calls(o)) /\ Calls(o)[k].count # 0
    BY <1>3, <2>2, CallFacts DEF Allocates, RecordTypes
  <2>4. Taking(o).node \in Nodes /\ Taking(o).count \in Nat /\ Taking(o).count <= CountRange
    BY <1>3, <2>2, <2>3, CallFacts DEF RecordTypes
  <2>5. Taking(o).count # 0
    BY <2>2, <2>3
  <2>6. Taking(o).count \in 1 .. CountRange
    BY <1>1, <2>4, <2>5
  <2>7. Taking(o).node \in Nat
    BY <1>1, <2>4
  <2> QED BY <2>1, <2>4, <2>6, <2>7
<1> QED BY <1>2, <1>3 DEF Owners

MemoryType ==
  mem \in [payload : Aligned, fused : Nat, total : [Nodes -> Nat],
           list : [0 .. mem.fused - 1 -> ListEntry], cookie : Int]

\* A list with a word stored in an entry is a list.
LEMMA ListUpdate ==
  ASSUME NEW n, NEW L \in [0 .. n -> ListEntry], NEW s, NEW x \in Int
  PROVE  /\ [L EXCEPT ![s].header = x] \in [0 .. n -> ListEntry]
         /\ [L EXCEPT ![s].payload = x] \in [0 .. n -> ListEntry]
<1>1. \A e \in ListEntry : [e EXCEPT !.header = x] \in ListEntry /\ [e EXCEPT !.payload = x] \in ListEntry
  BY DEF ListEntry
<1> HIDE DEF ListEntry
<1> QED BY <1>1

\* What each instruction does.
LEMMA BodyEffects ==
  ASSUME RecordTypes, Serves, NEW o \in Owners, BodyStep(o)
  PROVE  /\ Taking(o)' \in Entry /\ Taking(o)'.node = Taking(o).node /\ Taking(o)'.count = Taking(o).count
         /\ MemoryType' /\ mem'.cookie = mem.cookie
         /\ PcOf(o) = "payload" =>
              /\ PcOf(o)' = "fused" /\ mem'.payload = mem.payload + Align(Taking(o).count * RecordSize)
              /\ Taking(o)'.offset = mem.payload
         /\ PcOf(o) # "payload" => mem'.payload = mem.payload /\ Taking(o)'.offset = Taking(o).offset
         /\ PcOf(o) = "fused" =>
              /\ PcOf(o)' = "total" /\ mem'.fused = mem.fused + 1 /\ Taking(o)'.slot = mem.fused
              /\ \A i \in 0 .. mem.fused - 1 : mem'.list[i] = mem.list[i]
         /\ PcOf(o) # "fused" => mem'.fused = mem.fused /\ Taking(o)'.slot = Taking(o).slot
         /\ PcOf(o) = "total" =>
              /\ PcOf(o)' = "header" /\ mem'.list = mem.list
              /\ mem'.total = [mem.total EXCEPT ![Taking(o).node] = @ + Taking(o).count]
         /\ PcOf(o) # "total" => mem'.total = mem.total
         /\ PcOf(o) = "header" =>
              /\ PcOf(o)' = "store"
              /\ mem'.list = [mem.list EXCEPT ![Taking(o).slot].header = Header(Taking(o).node, Taking(o).count)]
         /\ PcOf(o) = "store" =>
              /\ PcOf(o)' = "merge"
              /\ mem'.list = [mem.list EXCEPT ![Taking(o).slot].payload = Taking(o).offset]
         /\ PcOf(o) = "payload" => mem'.list = mem.list
<1> DEFINE a == Taking(o)
           i == PcOf(o)
<1>0. i \in Serving \cup Meeting
  BY DEF BodyStep, Serving
<1>1. a \in Entry /\ a.node \in Nodes /\ a.node \in Nat /\ a.count \in 1 .. CountRange
  BY <1>0, ServingFacts
<1>2. a.count * RecordSize \in Nat
  <2>1. a.count \in Nat
    BY <1>1, NodeRecordsAssumption
  <2> QED BY <2>1, Bytes
<1>3. mem.payload + Align(a.count * RecordSize) \in Aligned /\ mem.payload \in Int
  <2>1. mem.payload \in Aligned
    BY DEF RecordTypes
  <2> DEFINE b == Align(a.count * RecordSize)
             c == mem.payload
  <2>2. b \in Aligned
    BY <1>2, AlignFacts
  <2> HIDE DEF b, c
  <2>3. c + b \in Aligned /\ c \in Nat
    BY <2>1, <2>2, AlignFacts DEF c
  <2> QED BY <2>3 DEF b, c
<1>4. Header(a.node, a.count) \in Int
  BY <1>1, HeaderFacts, NodeRecordsAssumption
<1>5. MemoryType
  BY DEF RecordTypes, MemoryType
<1>6. mem' = Execute(i, a).memory /\ Taking(o)' = Execute(i, a).alloc /\ PcOf(o)' = AfterStep[i]
  BY DEF BodyStep
<1>7. a = [node |-> a.node, count |-> a.count, offset |-> a.offset, slot |-> a.slot]
  BY <1>1 DEF Entry
<1> HIDE DEF a, i
<1>8. CASE i = "payload"
  <2>1. /\ mem' = [mem EXCEPT !.payload = @ + Align(a.count * RecordSize)]
        /\ Taking(o)' = [a EXCEPT !.offset = mem.payload] /\ PcOf(o)' = "fused"
    BY <1>6, <1>8 DEF Execute, AddPayload, AfterStep
  <2>2. MemoryType' /\ Taking(o)' \in Entry
    BY <1>1, <1>3, <1>5, <2>1 DEF MemoryType, Entry
  <2> QED BY <1>1, <1>5, <1>8, <2>1, <2>2 DEF a, i, Entry, MemoryType
<1>9. CASE i = "fused"
  <2>1. /\ mem' = [mem EXCEPT !.fused = @ + 1,
                              !.list = [j \in 0 .. mem.fused |->
                                          IF j < mem.fused THEN @[j] ELSE BlankEntry]]
        /\ Taking(o)' = [a EXCEPT !.slot = mem.fused] /\ PcOf(o)' = "total"
    BY <1>6, <1>9 DEF Execute, IncrementFused, AfterStep
  <2>2. mem.fused \in Nat /\ mem.list \in [0 .. mem.fused - 1 -> ListEntry]
    BY <1>5 DEF MemoryType
  <2>3. /\ mem'.list = [j \in 0 .. mem.fused |-> IF j < mem.fused THEN mem.list[j] ELSE BlankEntry]
        /\ mem'.fused = mem.fused + 1 /\ mem'.payload = mem.payload /\ mem'.total = mem.total
        /\ mem'.cookie = mem.cookie
    BY <1>5, <2>1 DEF MemoryType
  <2>4. mem'.list \in [0 .. mem'.fused - 1 -> ListEntry]
    <3>1. \A j \in 0 .. mem.fused : j < mem.fused => mem.list[j] \in ListEntry
      BY <2>2
    <3>2. BlankEntry \in ListEntry
      BY DEF BlankEntry, ListEntry, Unset
    <3> QED BY <2>2, <2>3, <3>1, <3>2
  <2>5. MemoryType' /\ Taking(o)' \in Entry
    <3>1. Taking(o)' \in Entry
      BY <1>1, <2>1, <2>2 DEF Entry
    <3>2. mem' = [payload |-> mem'.payload, fused |-> mem'.fused, total |-> mem'.total,
                  list |-> mem'.list, cookie |-> mem'.cookie]
      BY <1>5, <2>1 DEF MemoryType
    <3>3. mem'.payload \in Aligned /\ mem'.fused \in Nat /\ mem'.total \in [Nodes -> Nat] /\ mem'.cookie \in Int
      BY <1>5, <2>3 DEF MemoryType
    <3> QED BY <2>4, <3>1, <3>2, <3>3 DEF MemoryType
  <2>6. \A j \in 0 .. mem.fused - 1 : mem'.list[j] = mem.list[j]
    BY <2>2, <2>3
  <2> QED BY <1>1, <1>9, <2>1, <2>3, <2>5, <2>6 DEF a, i, Entry
<1>10. CASE i = "total"
  <2>1. /\ mem' = [mem EXCEPT !.total[a.node] = @ + a.count]
        /\ Taking(o)' = a /\ PcOf(o)' = "header"
    BY <1>6, <1>10 DEF Execute, AddNodeTotal, AfterStep
  <2>2. /\ mem'.total = [mem.total EXCEPT ![a.node] = @ + a.count]
        /\ mem'.list = mem.list /\ mem'.fused = mem.fused /\ mem'.payload = mem.payload
        /\ mem'.cookie = mem.cookie
    BY <1>5, <2>1 DEF MemoryType
  <2>3. mem'.total \in [Nodes -> Nat]
    BY <1>1, <1>5, <2>2 DEF MemoryType
  <2>4. MemoryType'
    BY <1>5, <2>1, <2>2, <2>3 DEF MemoryType
  <2> QED BY <1>1, <1>10, <2>1, <2>2, <2>4 DEF a, i
<1>11. CASE i = "header"
  <2>1. /\ mem' = [mem EXCEPT !.list = [@ EXCEPT ![a.slot].header = Header(a.node, a.count)]]
        /\ Taking(o)' = a /\ PcOf(o)' = "store"
    BY <1>6, <1>11 DEF Execute, StoreHeader, AfterStep
  <2>2. /\ mem'.list = [mem.list EXCEPT ![a.slot].header = Header(a.node, a.count)]
        /\ mem'.total = mem.total /\ mem'.fused = mem.fused /\ mem'.payload = mem.payload
        /\ mem'.cookie = mem.cookie
    BY <1>5, <2>1 DEF MemoryType
  <2>3. mem'.list \in [0 .. mem'.fused - 1 -> ListEntry]
    <3>1. mem.list \in [0 .. mem.fused - 1 -> ListEntry]
      BY <1>5 DEF MemoryType
    <3>2. [mem.list EXCEPT ![a.slot].header = Header(a.node, a.count)] \in [0 .. mem.fused - 1 -> ListEntry]
      BY <1>4, <3>1, ListUpdate
    <3> QED BY <2>2, <3>2
  <2>4. MemoryType'
    BY <1>5, <2>1, <2>2, <2>3 DEF MemoryType
  <2> QED BY <1>1, <1>11, <2>1, <2>2, <2>4 DEF a, i
<1>12. CASE i = "store"
  <2>1. /\ mem' = [mem EXCEPT !.list = [@ EXCEPT ![a.slot].payload = a.offset]]
        /\ Taking(o)' = a /\ PcOf(o)' = "merge"
    BY <1>6, <1>12 DEF Execute, StorePayload, AfterStep
  <2>2. /\ mem'.list = [mem.list EXCEPT ![a.slot].payload = a.offset]
        /\ mem'.total = mem.total /\ mem'.fused = mem.fused /\ mem'.payload = mem.payload
        /\ mem'.cookie = mem.cookie
    BY <1>5, <2>1 DEF MemoryType
  <2>3. mem'.list \in [0 .. mem'.fused - 1 -> ListEntry]
    <3>1. a.offset \in Int
      BY <1>1 DEF Entry
    <3>2. mem.list \in [0 .. mem.fused - 1 -> ListEntry]
      BY <1>5 DEF MemoryType
    <3>3. [mem.list EXCEPT ![a.slot].payload = a.offset] \in [0 .. mem.fused - 1 -> ListEntry]
      BY <3>1, <3>2, ListUpdate
    <3> QED BY <2>2, <3>3
  <2>4. MemoryType'
    BY <1>5, <2>1, <2>2, <2>3 DEF MemoryType
  <2> QED BY <1>1, <1>12, <2>1, <2>2, <2>4 DEF a, i
<1> QED BY <1>8, <1>9, <1>10, <1>11, <1>12 DEF BodyStep, BodyPcs, i

\* Waves and first threads of groups execute the body alike.
LEMMA WaveBodyStep ==
  ASSUME RecordTypes, NEW w \in Waves, WaveBody(w)
  PROVE  BodyStep(w)
<1>1. PICK r \in {Execute(wave[w].pc, wave[w].alloc)} :
        /\ mem' = r.memory
        /\ wave' = [wave EXCEPT ![w].alloc = r.alloc, ![w].pc = AfterStep[@]]
  BY DEF WaveBody
<1>2. w \in Owners /\ PcOf(w) = wave[w].pc /\ Taking(w) = wave[w].alloc
  BY OwnerFacts
<1>3. /\ wave'[w].alloc = r.alloc /\ wave'[w].pc = AfterStep[wave[w].pc]
      /\ \A v \in Waves \ {w} : wave'[v] = wave[v]
  BY <1>1 DEF RecordTypes
<1>4. thread' = thread /\ got' = got /\ want' = want /\ wave[w].pc \in BodyPcs
  BY DEF WaveBody
<1>5. \A p \in Owners \ {w} : PcOf(p)' = PcOf(p) /\ Taking(p)' = Taking(p)
  BY <1>3, <1>4 DEF Owners, PcOf, Taking
<1>6. \A p \in Owners : \A q : Own(p, q)' <=> Own(p, q)
  BY <1>4 DEF Own
<1>7. PcOf(w)' = wave'[w].pc /\ Taking(w)' = wave'[w].alloc
  BY DEF PcOf, Taking
<1> QED BY <1>1, <1>2, <1>3, <1>4, <1>5, <1>6, <1>7 DEF BodyStep

\* The first thread of a group executes the body.
LEMMA LeaderBodyStep ==
  ASSUME RecordTypes, NEW g \in Groups, LeaderBody(g)
  PROVE  BodyStep(g)
<1>1. PICK r \in {Execute(thread[g][0].pc, thread[g][0].alloc)} :
        /\ mem' = r.memory
        /\ thread' = [thread EXCEPT ![g][0].alloc = r.alloc, ![g][0].pc = AfterStep[@]]
  BY DEF LeaderBody
<1>2. g \in Owners /\ g \notin Waves /\ PcOf(g) = thread[g][0].pc /\ Taking(g) = thread[g][0].alloc /\ 0 \in Thread
  BY OwnerFacts
<1>3. /\ thread'[g][0].alloc = r.alloc /\ thread'[g][0].pc = AfterStep[thread[g][0].pc]
      /\ thread'[g][0].call = thread[g][0].call
      /\ \A h \in Groups \ {g} : thread'[h] = thread[h]
  BY <1>1, <1>2 DEF RecordTypes
<1>4. wave' = wave /\ got' = got /\ want' = want /\ thread[g][0].pc \in BodyPcs
  BY DEF LeaderBody
<1>5. \A p \in Owners \ {g} : PcOf(p)' = PcOf(p) /\ Taking(p)' = Taking(p)
  BY <1>3, <1>4 DEF Owners, PcOf, Taking
<1>6. \A p \in Owners : \A q : Own(p, q)' <=> Own(p, q)
  BY <1>3 DEF Own
<1>7. PcOf(g)' = thread'[g][0].pc /\ Taking(g)' = thread'[g][0].alloc
  BY <1>2 DEF PcOf, Taking
<1> QED BY <1>1, <1>2, <1>3, <1>4, <1>5, <1>6, <1>7 DEF BodyStep

WaveType == [pc : {"loop"} \cup Serving, looping : SUBSET WaveLane, call : SUBSET WaveLane, alloc : Entry]
ThreadType == [pc : {"enter"} \cup Serving \cup Meeting \cup Finishing,
               call : Nat, alloc : Entry, arrived : Nat, last : BOOLEAN]

-----------------------------------------------------------------------------
(* Types, and what owners and threads are there for.                       *)

\* A wave moves on.
LEMMA WaveMoves ==
  ASSUME RecordTypes, Serves, want' = want, thread' = thread, shared' = shared, MemoryType',
         NEW w \in Waves, NEW v \in WaveType, wave' = [wave EXCEPT ![w] = v],
         WaveServes(w)'
  PROVE  RecordTypes' /\ Serves'
<1>1. wave' \in [Waves -> WaveType] /\ \A u \in Waves \ {w} : wave'[u] = wave[u]
  BY DEF RecordTypes, WaveType
<1>2. RecordTypes'
  BY <1>1 DEF RecordTypes, MemoryType, WaveType
<1>3. \A u \in Waves \ {w} : WaveServes(u)'
  BY <1>1, WantFixed DEF Serves, WaveServes
<1>4. \A g \in Groups : \A t \in Thread : ThreadServes(g, t)'
  BY WantFixed DEF Serves, ThreadServes
<1> QED BY <1>2, <1>3, <1>4 DEF Serves

\* A thread moves on.
LEMMA ThreadMoves ==
  ASSUME RecordTypes, Serves, want' = want, wave' = wave, MemoryType',
         shared' \in [Groups -> [offset : Int, last : BOOLEAN]],
         NEW g \in Groups, NEW t \in Thread, NEW v \in ThreadType, thread' = [thread EXCEPT ![g][t] = v],
         ThreadServes(g, t)'
  PROVE  RecordTypes' /\ Serves'
<1>1. /\ thread' \in [Groups -> [Thread -> ThreadType]]
      /\ \A h \in Groups : \A s \in Thread : h # g \/ s # t => thread'[h][s] = thread[h][s]
  BY DEF RecordTypes, ThreadType
<1>2. RecordTypes'
  BY <1>1 DEF RecordTypes, MemoryType, ThreadType
<1>3. \A u \in Waves : WaveServes(u)'
  BY WantFixed DEF Serves, WaveServes
<1>4. \A h \in Groups : \A s \in Thread : h # g \/ s # t => ThreadServes(h, s)'
  BY <1>1, WantFixed DEF Serves, ThreadServes
<1> QED BY <1>2, <1>3, <1>4 DEF Serves

\* The types of memory, waves and threads.
LEMMA TypeFacts ==
  ASSUME RecordTypes
  PROVE  /\ MemoryType /\ Nothing \in Entry
         /\ \A w \in Waves : wave[w] \in WaveType
         /\ \A g \in Groups : \A t \in Thread : thread[g][t] \in ThreadType
BY DEF RecordTypes, MemoryType, WaveType, ThreadType, Nothing, Entry, Unset

\* The lanes that agree with the first, and the node they agree on.
LEMMA AgreeingFacts ==
  ASSUME RecordTypes, Serves, NEW w \in Waves, wave[w].looping # {}
  PROVE  /\ Agreeing(w) \subseteq wave[w].looping /\ Agreeing(w) # {}
         /\ Min(Agreeing(w)) \in Agreeing(w)
         /\ \A l \in Agreeing(w) : Lane(w)[l].node = Lane(w)[Min(Agreeing(w))].node
         /\ Lane(w)[Min(Agreeing(w))].node \in Nodes /\ Lane(w)[Min(Agreeing(w))].node \in Nat
<1>1. \A S : S # {} /\ S \subseteq WaveLane => Min(S) \in S
  <2> SUFFICES ASSUME NEW S, S # {}, S \subseteq WaveLane PROVE Min(S) \in S
    OBVIOUS
  <2>1. S \subseteq Nat
    BY DEF WaveLane
  <2>2. \E x \in S : \A y \in S : x <= y
    BY <2>1, Least
  <2> QED BY <2>2, Zenon DEF Min
<1>2. wave[w].looping \subseteq WaveLane /\ wave[w].looping \subseteq DOMAIN Lane(w)
  BY DEF RecordTypes, Serves, WaveServes
<1>3. Min(wave[w].looping) \in wave[w].looping
  BY <1>1, <1>2
<1>4. /\ Agreeing(w) \subseteq wave[w].looping /\ Min(wave[w].looping) \in Agreeing(w)
      /\ \A l \in Agreeing(w) : Lane(w)[l].node = Lane(w)[Min(wave[w].looping)].node
  BY <1>3 DEF Agreeing
<1>5. Min(Agreeing(w)) \in Agreeing(w)
  BY <1>1, <1>2, <1>4
<1>6. Lane(w)[Min(Agreeing(w))] \in Ask
  BY <1>2, <1>4, <1>5, WantFacts DEF RecordTypes
<1> QED BY <1>4, <1>5, <1>6, NodeRecordsAssumption DEF Ask

\* The lanes that agree with the first enter a call, or return at once.
LEMMA EnterCallTypes ==
  ASSUME RecordTypes, Serves, NEW w \in Waves, EnterCall(w)
  PROVE  RecordTypes' /\ Serves'
<1> DEFINE lanes == Agreeing(w)
           v == IF Total(w, lanes) = 0 THEN [wave[w] EXCEPT !.looping = @ \ lanes]
                ELSE [wave[w] EXCEPT !.call = lanes, !.pc = "payload",
                        !.alloc = [Nothing EXCEPT !.node = Lane(w)[Min(lanes)].node,
                                                  !.count = Total(w, lanes)]]
<1>1. /\ want.kind[w] = "allocate" /\ wave[w].pc = "loop" /\ wave[w].looping # {}
      /\ wave' = [wave EXCEPT ![w] = v]
      /\ mem' = mem /\ want' = want /\ thread' = thread /\ shared' = shared
  BY DEF EnterCall, Entered
<1>2. /\ lanes \subseteq wave[w].looping /\ Lane(w)[Min(lanes)].node \in Nodes /\ Lane(w)[Min(lanes)].node \in Nat
      /\ \A l \in lanes : Lane(w)[l].node = Lane(w)[Min(lanes)].node
  BY <1>1, AgreeingFacts
<1>3. wave[w] \in WaveType /\ Nothing \in Entry /\ MemoryType
  BY TypeFacts
<1>4. wave[w].looping \subseteq DOMAIN Lane(w) /\ wave[w].call = {}
  BY <1>1 DEF Serves, WaveServes
<1>5. Total(w, lanes) \in Nat
  BY <1>2, <1>4, TotalFacts DEF RecordTypes
<1>6. v \in WaveType /\ WaveServes(w)'
  <2>1. wave'[w] = v
    BY <1>1 DEF RecordTypes
  <2>2. Lane(w)' = Lane(w) /\ (\A S : Total(w, S)' = Total(w, S)) /\ want'.kind[w] = want.kind[w]
    BY <1>1, WantFixed
  <2>3. CASE Total(w, lanes) = 0
    <3>1. v = [wave[w] EXCEPT !.looping = @ \ lanes]
      BY <2>3
    <3> HIDE DEF v, lanes
    <3>2. v \in WaveType /\ v.looping \subseteq wave[w].looping /\ v.call = {} /\ v.pc = "loop"
      BY <1>1, <1>3, <1>4, <3>1 DEF WaveType
    <3> QED BY <1>4, <2>1, <2>2, <3>2 DEF WaveServes
  <2>4. CASE Total(w, lanes) # 0
    <3> DEFINE a == [Nothing EXCEPT !.node = Lane(w)[Min(lanes)].node, !.count = Total(w, lanes)]
    <3>1. v = [wave[w] EXCEPT !.call = lanes, !.pc = "payload", !.alloc = a]
      BY <2>4
    <3>2. a \in Entry /\ a.node = Lane(w)[Min(lanes)].node /\ a.count = Total(w, lanes)
      BY <1>2, <1>3, <1>5 DEF Entry
    <3> HIDE DEF v, lanes, a
    <3>3. v \in WaveType /\ v.looping = wave[w].looping /\ v.call = lanes /\ v.pc = "payload" /\ v.alloc = a
      BY <1>2, <1>3, <3>1, <3>2 DEF WaveType, Serving, BodyPcs
    <3> QED BY <1>1, <1>2, <1>4, <1>5, <2>1, <2>2, <2>4, <3>2, <3>3 DEF WaveServes
  <2> QED BY <2>3, <2>4
<1> HIDE DEF v
<1> QED BY <1>1, <1>3, <1>6, WaveMoves DEF MemoryType

\* The elected lane executes an instruction of the body.
LEMMA WaveBodyTypes ==
  ASSUME RecordTypes, Serves, NEW w \in Waves, WaveBody(w)
  PROVE  RecordTypes' /\ Serves'
<1> DEFINE v == [wave[w] EXCEPT !.alloc = Taking(w)', !.pc = AfterStep[@]]
<1>1. BodyStep(w) /\ w \in Owners /\ Taking(w) = wave[w].alloc /\ wave[w].pc \in BodyPcs /\ PcOf(w) = wave[w].pc
  BY WaveBodyStep, OwnerFacts DEF WaveBody
<1>2. Taking(w)' \in Entry /\ Taking(w)'.node = wave[w].alloc.node /\ Taking(w)'.count = wave[w].alloc.count
      /\ MemoryType'
  BY <1>1, BodyEffects
<1>3. wave' = [wave EXCEPT ![w] = v]
  <2>1. PICK r \in {Execute(wave[w].pc, wave[w].alloc)} :
          wave' = [wave EXCEPT ![w].alloc = r.alloc, ![w].pc = AfterStep[@]]
    BY DEF WaveBody
  <2>2. r.alloc = Taking(w)'
    BY <1>1, <2>1 DEF BodyStep
  <2> QED BY <2>1, <2>2 DEF RecordTypes
<1>4. wave[w] \in WaveType
  BY TypeFacts
<1>5. v \in WaveType /\ v.pc # "loop" /\ v.alloc = Taking(w)' /\ v.looping = wave[w].looping /\ v.call = wave[w].call
  <2>1. AfterStep[wave[w].pc] \in Serving /\ AfterStep[wave[w].pc] # "loop"
    BY <1>1 DEF AfterStep, Serving, BodyPcs
  <2> QED BY <1>2, <1>4, <2>1 DEF WaveType
<1>6. want' = want /\ thread' = thread /\ shared' = shared
  BY DEF WaveBody
<1> HIDE DEF v
<1>7. WaveServes(w)'
  <2>1. Lane(w)' = Lane(w) /\ (\A S : Total(w, S)' = Total(w, S)) /\ want'.kind[w] = want.kind[w]
    BY <1>6, WantFixed
  <2>2. wave'[w] = v
    BY <1>3 DEF RecordTypes
  <2>3. wave[w].pc # "loop" /\ WaveServes(w)
    BY <1>1 DEF BodyPcs, Serves
  <2> QED BY <1>2, <1>5, <2>1, <2>2, <2>3 DEF WaveServes
<1> QED BY <1>2, <1>3, <1>5, <1>6, <1>7, WaveMoves

\* The lanes of a call leave the waterfall.
LEMMA WaveReturnTypes ==
  ASSUME RecordTypes, Serves, NEW w \in Waves, WaveReturn(w)
  PROVE  RecordTypes' /\ Serves'
<1> DEFINE v == [wave[w] EXCEPT !.pc = "loop", !.looping = @ \ wave[w].call, !.call = {}, !.alloc = Nothing]
<1>1. /\ wave' = [wave EXCEPT ![w] = v]
      /\ mem' = mem /\ want' = want /\ thread' = thread /\ shared' = shared
  BY DEF WaveReturn, RecordTypes
<1>2. wave[w] \in WaveType /\ Nothing \in Entry /\ MemoryType
  BY TypeFacts
<1>3. v \in WaveType /\ v.looping \subseteq wave[w].looping /\ v.call = {} /\ v.pc = "loop"
  BY <1>2 DEF WaveType
<1> HIDE DEF v
<1>4. WaveServes(w)'
  BY <1>1, <1>3, WantFixed DEF RecordTypes, Serves, WaveServes
<1> QED BY <1>1, <1>2, <1>3, <1>4, WaveMoves DEF MemoryType

\* A counter of records goes up.
LEMMA TotalGrows ==
  ASSUME RecordTypes, NEW n \in Nodes, NEW c \in Nat, mem' = [mem EXCEPT !.total[n] = @ + c]
  PROVE  /\ MemoryType'
         /\ mem'.payload = mem.payload /\ mem'.fused = mem.fused /\ mem'.list = mem.list /\ mem'.cookie = mem.cookie
         /\ mem'.total = [mem.total EXCEPT ![n] = @ + c]
<1>1. MemoryType
  BY TypeFacts
<1>2. /\ mem'.payload = mem.payload /\ mem'.fused = mem.fused /\ mem'.list = mem.list /\ mem'.cookie = mem.cookie
      /\ mem'.total = [mem.total EXCEPT ![n] = @ + c]
  BY <1>1 DEF MemoryType
<1>3. mem'.total \in [Nodes -> Nat]
  BY <1>1, <1>2 DEF MemoryType
<1> QED BY <1>1, <1>2, <1>3 DEF MemoryType

\* A lane counts its records.
LEMMA IncrementThreadTypes ==
  ASSUME RecordTypes, Serves, NEW w \in Waves, NEW l, IncrementThread(w, l)
  PROVE  RecordTypes' /\ Serves'
<1> DEFINE v == [wave[w] EXCEPT !.looping = @ \ {l}]
<1>1. /\ wave' = [wave EXCEPT ![w] = v] /\ mem' = [mem EXCEPT !.total[Lane(w)[l].node] = @ + Lane(w)[l].count]
      /\ want' = want /\ thread' = thread /\ shared' = shared /\ want.kind[w] = "increment" /\ l \in wave[w].looping
  BY DEF IncrementThread, RecordTypes
<1>2. wave[w] \in WaveType /\ wave[w].pc = "loop" /\ wave[w].looping \subseteq DOMAIN Lane(w) /\ wave[w].call = {}
  BY <1>1, TypeFacts DEF Serves, WaveServes
<1>3. v \in WaveType /\ v.looping \subseteq wave[w].looping /\ v.call = {} /\ v.pc = "loop"
  BY <1>2 DEF WaveType
<1>4. Lane(w)[l].node \in Nodes /\ Lane(w)[l].count \in Nat
  <2>1. Lane(w)[l] \in Ask
    BY <1>1, <1>2, WantFacts DEF RecordTypes
  <2> QED BY <2>1, NodeRecordsAssumption DEF Ask
<1> HIDE DEF v
<1>5. MemoryType'
  BY <1>1, <1>4, TotalGrows
<1>6. WaveServes(w)'
  BY <1>1, <1>2, <1>3, WantFixed DEF RecordTypes, WaveServes
<1> QED BY <1>1, <1>3, <1>5, <1>6, WaveMoves

\* What is known of a thread and of the call it is at.
LEMMA ThreadFacts ==
  ASSUME RecordTypes, Serves, NEW g \in Groups, NEW t \in Thread
  PROVE  /\ thread[g][t] \in ThreadType /\ ThreadServes(g, t) /\ MemoryType
         /\ thread[g][t].call \in 1 .. Len(Calls(g)) + 1 /\ Len(Calls(g)) \in Nat
         /\ thread[g][t].call <= Len(Calls(g)) =>
              /\ Current(g, t) = Calls(g)[thread[g][t].call]
              /\ Current(g, t).node \in Nodes /\ Current(g, t).node \in Nat
              /\ Current(g, t).count \in Nat /\ Current(g, t).count <= CountRange
<1>1. thread[g][t] \in ThreadType /\ ThreadServes(g, t) /\ MemoryType
  BY TypeFacts DEF Serves
<1>2. thread[g][t].call \in 1 .. Len(Calls(g)) + 1
  BY <1>1 DEF ThreadServes
<1>3. want \in Scenarios
  BY DEF RecordTypes
<1>4. Len(Calls(g)) \in Nat
  BY <1>3, CallFacts
<1>5. thread[g][t].call <= Len(Calls(g)) => thread[g][t].call \in 1 .. Len(Calls(g))
  BY <1>2, <1>4
<1>6. Current(g, t) = Calls(g)[thread[g][t].call]
  BY DEF Current
<1> QED BY <1>1, <1>2, <1>3, <1>4, <1>5, <1>6, CallFacts

\* A thread that goes on to its next call, and one that arrives at a barrier.
LEMMA StepFacts ==
  ASSUME NEW th \in ThreadType
  PROVE  /\ NextCall(th) \in ThreadType /\ NextCall(th).pc = "enter"
         /\ NextCall(th).call = th.call + 1 /\ NextCall(th).arrived = th.arrived /\ NextCall(th).last = th.last
         /\ \A pc \in Meeting \cup Finishing :
              /\ Arrive(th, pc) \in ThreadType /\ Arrive(th, pc).pc = pc
              /\ Arrive(th, pc).call = th.call /\ Arrive(th, pc).alloc = th.alloc
              /\ Arrive(th, pc).arrived = th.arrived + 1 /\ Arrive(th, pc).last = th.last
<1>1. Nothing \in Entry
  BY DEF Nothing, Entry, Unset
<1> DEFINE P == {"enter"} \cup Serving \cup Meeting \cup Finishing
           T == [pc : P, call : Nat, alloc : Entry, arrived : Nat, last : BOOLEAN]
<1>2. "enter" \in P /\ \A pc \in Meeting \cup Finishing : pc \in P
  OBVIOUS
<1>3. ThreadType = T
  BY DEF ThreadType
<1> HIDE DEF P
<1>4. ASSUME NEW v \in T, NEW pc \in P, NEW n \in Nat
      PROVE  /\ [v EXCEPT !.pc = pc] \in T /\ [v EXCEPT !.arrived = n] \in T
             /\ [v EXCEPT !.call = n] \in T /\ [v EXCEPT !.alloc = Nothing] \in T
  BY <1>1
<1>5. ASSUME NEW pc \in P
      PROVE  /\ Arrive(th, pc) \in T /\ Arrive(th, pc).pc = pc
             /\ Arrive(th, pc).call = th.call /\ Arrive(th, pc).alloc = th.alloc
             /\ Arrive(th, pc).arrived = th.arrived + 1 /\ Arrive(th, pc).last = th.last
  <2>1. th \in T
    BY <1>3
  <2>2. Arrive(th, pc) = [[th EXCEPT !.pc = pc] EXCEPT !.arrived = th.arrived + 1]
    BY <2>1 DEF Arrive
  <2>3. th.arrived + 1 \in Nat
    BY <2>1
  <2>4. Arrive(th, pc) \in T
    <3>1. [th EXCEPT !.pc = pc] \in T
      BY <1>4, <2>1
    <3> HIDE DEF T
    <3> QED BY <1>4, <2>2, <2>3, <3>1
  <2> QED BY <2>1, <2>4 DEF Arrive
<1>6. /\ NextCall(th) \in T /\ NextCall(th).pc = "enter"
      /\ NextCall(th).call = th.call + 1 /\ NextCall(th).arrived = th.arrived /\ NextCall(th).last = th.last
  <2>1. th \in T
    BY <1>3
  <2> DEFINE n == th.call + 1
             u == [th EXCEPT !.pc = "enter"]
             v == [u EXCEPT !.call = n]
  <2>2. NextCall(th) = [v EXCEPT !.alloc = Nothing]
    BY <2>1 DEF NextCall
  <2>3. n \in Nat
    BY <2>1
  <2>4. NextCall(th) \in T
    <3>1. u \in T
      BY <1>2, <1>4, <2>1
    <3> HIDE DEF T, n, u
    <3>2. v \in T
      BY <1>4, <1>2, <2>3, <3>1
    <3> HIDE DEF v
    <3> QED BY <1>4, <1>2, <2>2, <2>3, <3>2
  <2> QED BY <2>1, <2>4 DEF NextCall
<1> QED BY <1>2, <1>3, <1>5, <1>6

\* A thread that is done with a call makes the next one.
LEMMA NextCallTypes ==
  ASSUME RecordTypes, Serves, want' = want, wave' = wave, shared' = shared, MemoryType',
         NEW g \in Groups, NEW t \in Thread, thread[g][t].call <= Len(Calls(g)),
         thread' = [thread EXCEPT ![g][t] = NextCall(thread[g][t])]
  PROVE  RecordTypes' /\ Serves'
<1> DEFINE v == NextCall(thread[g][t])
<1>1. thread[g][t] \in ThreadType /\ thread[g][t].call \in 1 .. Len(Calls(g)) + 1 /\ Len(Calls(g)) \in Nat
  BY ThreadFacts
<1>2. v \in ThreadType /\ v.pc = "enter" /\ v.call = thread[g][t].call + 1
  BY <1>1, StepFacts
<1>3. thread' = [thread EXCEPT ![g][t] = v]
  OBVIOUS
<1> HIDE DEF v
<1>4. thread'[g][t] = v /\ Calls(g)' = Calls(g)
  BY <1>3, WantFixed DEF RecordTypes
<1>5. ThreadServes(g, t)'
  BY <1>1, <1>2, <1>4 DEF ThreadServes, Serving, BodyPcs, Meeting, Finishing
<1>6. shared' \in [Groups -> [offset : Int, last : BOOLEAN]]
  BY DEF RecordTypes
<1> QED BY <1>2, <1>3, <1>5, <1>6, ThreadMoves

\* A thread of a group starts an allocation, or returns at once.
LEMMA StartAllocateTypes ==
  ASSUME RecordTypes, Serves, NEW g \in Groups, NEW t \in Thread, StartAllocate(g, t)
  PROVE  RecordTypes' /\ Serves'
<1>1. /\ thread[g][t].pc = "enter" /\ HasCall(g, t) /\ Current(g, t).kind = "allocate"
      /\ thread' = [thread EXCEPT ![g][t] = Started(g, t)]
      /\ mem' = mem /\ want' = want /\ wave' = wave /\ shared' = shared
  BY DEF StartAllocate
<1>2. /\ thread[g][t] \in ThreadType /\ thread[g][t].call \in 1 .. Len(Calls(g)) + 1
      /\ thread[g][t].call <= Len(Calls(g)) /\ Current(g, t) = Calls(g)[thread[g][t].call]
      /\ Current(g, t).node \in Nat /\ Current(g, t).count \in Nat /\ MemoryType /\ Len(Calls(g)) \in Nat
  BY <1>1, ThreadFacts DEF HasCall
<1>3. MemoryType' /\ shared' \in [Groups -> [offset : Int, last : BOOLEAN]]
  BY <1>1, <1>2 DEF MemoryType, RecordTypes
<1>4. CASE Empty(g, t)
  BY <1>1, <1>2, <1>3, <1>4, NextCallTypes DEF Started
<1>5. CASE ~ Empty(g, t)
  <2> DEFINE v == Started(g, t)
  <2>1. Allocates(g, thread[g][t].call)
    BY <1>1, <1>2, <1>5 DEF Allocates, Empty
  <2>2. /\ v \in ThreadType /\ v.call = thread[g][t].call
        /\ IF t = 0 THEN v.pc = "payload" /\ v.alloc.node = Current(g, t).node /\ v.alloc.count = Current(g, t).count
           ELSE v.pc = "wait"
    <3>1. CASE t = 0
      <4> DEFINE a == [Nothing EXCEPT !.node = Current(g, t).node, !.count = Current(g, t).count]
      <4>1. a \in Entry /\ a.node = Current(g, t).node /\ a.count = Current(g, t).count
        BY <1>2, TypeFacts DEF Entry
      <4>2. v = [thread[g][t] EXCEPT !.pc = "payload", !.alloc = a]
        BY <1>5, <3>1 DEF Started
      <4> HIDE DEF a, v
      <4> QED BY <1>2, <3>1, <4>1, <4>2 DEF ThreadType, Serving, BodyPcs
    <3>2. CASE t # 0
      <4>1. v = Arrive(thread[g][t], "wait")
        BY <1>5, <3>2 DEF Started
      <4> HIDE DEF v
      <4>2. "wait" \in Meeting
        BY DEF Meeting
      <4>3. /\ Arrive(thread[g][t], "wait") \in ThreadType /\ Arrive(thread[g][t], "wait").pc = "wait"
            /\ Arrive(thread[g][t], "wait").call = thread[g][t].call
        <5>1. thread[g][t] \in ThreadType
          BY <1>2
        <5> QED BY <4>2, <5>1, StepFacts
      <4> QED BY <3>2, <4>1, <4>3
    <3> QED BY <3>1, <3>2
  <2>3. thread' = [thread EXCEPT ![g][t] = v]
    BY <1>1
  <2> HIDE DEF v
  <2>4. thread'[g][t] = v /\ Calls(g)' = Calls(g) /\ \A k : Allocates(g, k)' <=> Allocates(g, k)
    BY <1>1, <2>3, WantFixed DEF RecordTypes
  <2>5. ThreadServes(g, t)'
    BY <1>2, <2>1, <2>2, <2>4 DEF ThreadServes, Serving, BodyPcs, Meeting, Finishing
  <2> QED BY <1>1, <1>3, <2>2, <2>3, <2>5, ThreadMoves
<1> QED BY <1>4, <1>5

\* The first thread executes an instruction of the body.
LEMMA LeaderBodyTypes ==
  ASSUME RecordTypes, Serves, NEW g \in Groups, LeaderBody(g)
  PROVE  RecordTypes' /\ Serves'
<1> DEFINE v == [thread[g][0] EXCEPT !.alloc = Taking(g)', !.pc = AfterStep[@]]
<1>1. /\ BodyStep(g) /\ g \in Owners /\ Taking(g) = thread[g][0].alloc /\ thread[g][0].pc \in BodyPcs
      /\ PcOf(g) = thread[g][0].pc /\ 0 \in Thread
  BY LeaderBodyStep, OwnerFacts DEF LeaderBody
<1>2. /\ Taking(g)' \in Entry /\ Taking(g)'.node = thread[g][0].alloc.node
      /\ Taking(g)'.count = thread[g][0].alloc.count /\ MemoryType'
  BY <1>1, BodyEffects
<1>3. thread' = [thread EXCEPT ![g][0] = v]
  <2>1. PICK r \in {Execute(thread[g][0].pc, thread[g][0].alloc)} :
          thread' = [thread EXCEPT ![g][0].alloc = r.alloc, ![g][0].pc = AfterStep[@]]
    BY DEF LeaderBody
  <2>2. r.alloc = Taking(g)'
    BY <1>1, <2>1 DEF BodyStep
  <2>3. thread \in [Groups -> [Thread -> ThreadType]]
    BY DEF RecordTypes, ThreadType
  <2> QED BY <1>1, <2>1, <2>2, <2>3 DEF ThreadType
<1>4. thread[g][0] \in ThreadType /\ ThreadServes(g, 0)
  BY <1>1, ThreadFacts
<1>5. v \in ThreadType /\ v.pc \in Serving /\ v.alloc = Taking(g)' /\ v.call = thread[g][0].call
  <2>1. AfterStep[thread[g][0].pc] \in Serving
    BY <1>1 DEF AfterStep, Serving, BodyPcs
  <2> QED BY <1>2, <1>4, <2>1 DEF ThreadType
<1>6. want' = want /\ wave' = wave /\ shared' \in [Groups -> [offset : Int, last : BOOLEAN]]
  BY DEF LeaderBody, RecordTypes
<1> HIDE DEF v
<1>7. ThreadServes(g, 0)'
  <2>1. Calls(g)' = Calls(g) /\ \A k : Allocates(g, k)' <=> Allocates(g, k)
    BY <1>6, WantFixed
  <2>2. thread'[g][0] = v
    BY <1>1, <1>3 DEF RecordTypes
  <2>3. thread[g][0].pc \in Serving /\ \A pc \in Serving : pc \notin Finishing
    BY <1>1 DEF Serving, BodyPcs, Finishing
  <2> QED BY <1>2, <1>4, <1>5, <2>1, <2>2, <2>3 DEF ThreadServes
<1> QED BY <1>1, <1>2, <1>3, <1>5, <1>6, <1>7, ThreadMoves

\* A thread goes on in its call.
LEMMA SameCallTypes ==
  ASSUME RecordTypes, Serves, want' = want, wave' = wave, MemoryType',
         shared' \in [Groups -> [offset : Int, last : BOOLEAN]],
         NEW g \in Groups, NEW t \in Thread, NEW v \in ThreadType, thread' = [thread EXCEPT ![g][t] = v],
         v.call = thread[g][t].call, v.alloc = thread[g][t].alloc,
         \/ thread[g][t].pc \in Serving \cup Meeting /\ v.pc \in Meeting
         \/ /\ thread[g][t].call = Len(Calls(g)) + 1 /\ want.finish
            /\ v.pc \in Finishing /\ (t # 0 => v.pc # "publish")
  PROVE  RecordTypes' /\ Serves'
<1>1. thread'[g][t] = v /\ Calls(g)' = Calls(g) /\ \A k : Allocates(g, k)' <=> Allocates(g, k)
  BY WantFixed DEF RecordTypes
<1>2. ThreadServes(g, t)
  BY DEF Serves
<1>3. ThreadServes(g, t)'
  BY <1>1, <1>2 DEF ThreadServes, Serving, BodyPcs, Meeting, Finishing
<1> QED BY <1>3, ThreadMoves

\* The first thread shares the offset.
LEMMA LeaderSharesTypes ==
  ASSUME RecordTypes, Serves, NEW g \in Groups, LeaderShares(g)
  PROVE  RecordTypes' /\ Serves'
<1> DEFINE v == Arrive(thread[g][0], "wait")
<1>1. /\ thread[g][0].pc = "merge" /\ 0 \in Thread /\ thread[g][0] \in ThreadType
      /\ thread' = [thread EXCEPT ![g][0] = v] /\ mem' = mem /\ want' = want /\ wave' = wave
      /\ shared' = [shared EXCEPT ![g].offset = thread[g][0].alloc.offset]
  BY OwnerFacts, TypeFacts DEF LeaderShares
<1>2. v \in ThreadType /\ v.pc = "wait" /\ v.call = thread[g][0].call /\ v.alloc = thread[g][0].alloc
  BY <1>1, StepFacts DEF Meeting
<1>3. shared' \in [Groups -> [offset : Int, last : BOOLEAN]]
  <2>1. thread[g][0].alloc.offset \in Int
    BY <1>1 DEF ThreadType, Entry
  <2> QED BY <1>1, <2>1 DEF RecordTypes
<1>4. MemoryType'
  BY <1>1, TypeFacts DEF MemoryType
<1> HIDE DEF v
<1> QED BY <1>1, <1>2, <1>3, <1>4, SameCallTypes DEF Serving, Meeting

\* A thread reads the shared offset behind the barrier.
LEMMA ReadSharedTypes ==
  ASSUME RecordTypes, Serves, NEW g \in Groups, NEW t \in Thread, ReadShared(g, t)
  PROVE  RecordTypes' /\ Serves'
<1> DEFINE v == ReturnAfterBarrier(thread[g][t])
<1>1. /\ thread[g][t].pc = "wait" /\ thread[g][t] \in ThreadType
      /\ thread' = [thread EXCEPT ![g][t] = v] /\ mem' = mem /\ want' = want /\ wave' = wave
      /\ shared' \in [Groups -> [offset : Int, last : BOOLEAN]]
  BY TypeFacts DEF ReadShared, RecordTypes
<1>2. v \in ThreadType /\ v.pc = "leave" /\ v.call = thread[g][t].call /\ v.alloc = thread[g][t].alloc
  BY <1>1, StepFacts DEF Meeting, ReturnAfterBarrier
<1>3. MemoryType'
  BY <1>1, TypeFacts DEF MemoryType
<1> HIDE DEF v
<1> QED BY <1>1, <1>2, <1>3, SameCallTypes DEF Serving, Meeting

\* A thread passes the second barrier.
LEMMA LeaveAllocateTypes ==
  ASSUME RecordTypes, Serves, NEW g \in Groups, NEW t \in Thread, LeaveAllocate(g, t)
  PROVE  RecordTypes' /\ Serves'
<1>1. /\ thread[g][t].pc = "leave" /\ thread' = [thread EXCEPT ![g][t] = NextCall(thread[g][t])]
      /\ mem' = mem /\ want' = want /\ wave' = wave /\ shared' = shared
  BY DEF LeaveAllocate
<1>2. thread[g][t].call <= Len(Calls(g))
  BY <1>1, ThreadFacts DEF ThreadServes, Meeting, Allocates
<1>3. MemoryType'
  BY <1>1, TypeFacts DEF MemoryType
<1> QED BY <1>1, <1>2, <1>3, NextCallTypes

\* The first thread counts for its group.
LEMMA IncrementGroupTypes ==
  ASSUME RecordTypes, Serves, NEW g \in Groups, NEW t \in Thread, IncrementGroup(g, t)
  PROVE  RecordTypes' /\ Serves'
<1>1. /\ thread[g][t].call <= Len(Calls(g)) /\ thread' = [thread EXCEPT ![g][t] = NextCall(thread[g][t])]
      /\ want' = want /\ wave' = wave /\ shared' = shared
      /\ mem' = IF t = 0 THEN [mem EXCEPT !.total[Current(g, t).node] = @ + Current(g, t).count] ELSE mem
  BY DEF IncrementGroup, HasCall
<1>2. Current(g, t).node \in Nodes /\ Current(g, t).count \in Nat
  BY <1>1, ThreadFacts
<1>3. MemoryType'
  BY <1>1, <1>2, TypeFacts, TotalGrows DEF MemoryType
<1> QED BY <1>1, <1>3, NextCallTypes

\* A thread starts to finish.
LEMMA StartFinishTypes ==
  ASSUME RecordTypes, Serves, NEW g \in Groups, NEW t \in Thread, StartFinish(g, t)
  PROVE  RecordTypes' /\ Serves'
<1> DEFINE v == IF t = 0 THEN [thread[g][t] EXCEPT !.pc = "publish", !.last = IsLast(mem.cookie)]
                ELSE Arrive(thread[g][t], "finish")
<1>1. /\ want.finish /\ thread[g][t] \in ThreadType /\ ~ HasCall(g, t)
      /\ want' = want /\ wave' = wave /\ shared' = shared
      /\ mem' = IF t = 0 THEN [mem EXCEPT !.cookie = @ - 1] ELSE mem
  BY TypeFacts DEF StartFinish
<1>2. thread' = [thread EXCEPT ![g][t] = v]
  <2>1. thread \in [Groups -> [Thread -> ThreadType]]
    BY DEF RecordTypes, ThreadType
  <2>2. CASE t = 0
    <3>1. thread' = [thread EXCEPT ![g][0].pc = "publish", ![g][0].last = IsLast(mem.cookie)]
      BY <2>2 DEF StartFinish
    <3> QED BY <2>1, <2>2, <3>1 DEF ThreadType
  <2>3. CASE t # 0
    BY <2>3 DEF StartFinish
  <2> QED BY <2>2, <2>3
<1>3. /\ v \in ThreadType /\ v.call = thread[g][t].call /\ v.alloc = thread[g][t].alloc
      /\ v.pc = IF t = 0 THEN "publish" ELSE "finish"
  <2>1. CASE t = 0
    BY <1>1, <2>1 DEF ThreadType, Finishing, IsLast
  <2>2. CASE t # 0
    BY <1>1, <2>2, StepFacts DEF Finishing
  <2> QED BY <2>1, <2>2
<1>4. MemoryType'
  BY <1>1, TypeFacts DEF MemoryType
<1>5. thread[g][t].call = Len(Calls(g)) + 1
  <2>1. ~ (thread[g][t].call <= Len(Calls(g)))
    BY <1>1 DEF HasCall
  <2> QED BY <2>1, ThreadFacts
<1>6. shared' \in [Groups -> [offset : Int, last : BOOLEAN]]
  BY <1>1 DEF RecordTypes
<1> HIDE DEF v
<1> QED BY <1>1, <1>2, <1>3, <1>4, <1>5, <1>6, SameCallTypes DEF Finishing

\* The first thread shares whether its group is the last.
LEMMA PublishLastTypes ==
  ASSUME RecordTypes, Serves, NEW g \in Groups, PublishLast(g)
  PROVE  RecordTypes' /\ Serves'
<1> DEFINE v == Arrive(thread[g][0], "finish")
<1>1. /\ thread[g][0].pc = "publish" /\ 0 \in Thread /\ thread[g][0] \in ThreadType
      /\ thread' = [thread EXCEPT ![g][0] = v] /\ mem' = mem /\ want' = want /\ wave' = wave
      /\ shared' = [shared EXCEPT ![g].last = thread[g][0].last]
  BY OwnerFacts, TypeFacts DEF PublishLast
<1>2. v \in ThreadType /\ v.pc = "finish" /\ v.call = thread[g][0].call /\ v.alloc = thread[g][0].alloc
  BY <1>1, StepFacts DEF Finishing
<1>3. shared' \in [Groups -> [offset : Int, last : BOOLEAN]]
  BY <1>1 DEF RecordTypes, ThreadType
<1>4. MemoryType'
  BY <1>1, TypeFacts DEF MemoryType
<1>5. thread[g][0].call = Len(Calls(g)) + 1 /\ want.finish
  BY <1>1, ThreadFacts DEF ThreadServes, Finishing
<1> HIDE DEF v
<1> QED BY <1>1, <1>2, <1>3, <1>4, <1>5, SameCallTypes DEF Finishing

\* A thread reads whether its group is the last.
LEMMA ReadLastTypes ==
  ASSUME RecordTypes, Serves, NEW g \in Groups, NEW t \in Thread, ReadLast(g, t)
  PROVE  RecordTypes' /\ Serves'
<1> DEFINE v == [thread[g][t] EXCEPT !.pc = "done", !.last = shared[g].last]
<1>1. /\ thread[g][t].pc = "finish" /\ thread[g][t] \in ThreadType
      /\ mem' = mem /\ want' = want /\ wave' = wave /\ shared' = shared
  BY TypeFacts DEF ReadLast
<1>2. thread' = [thread EXCEPT ![g][t] = v]
  <2>1. thread \in [Groups -> [Thread -> ThreadType]]
    BY DEF RecordTypes, ThreadType
  <2> QED BY <2>1 DEF ReadLast, ThreadType
<1>3. v \in ThreadType /\ v.pc = "done" /\ v.call = thread[g][t].call /\ v.alloc = thread[g][t].alloc
  <2>1. shared[g].last \in BOOLEAN
    BY DEF RecordTypes
  <2> QED BY <1>1, <2>1 DEF ThreadType, Finishing
<1>4. MemoryType' /\ shared' \in [Groups -> [offset : Int, last : BOOLEAN]]
  BY <1>1, TypeFacts DEF MemoryType, RecordTypes
<1>5. thread[g][t].call = Len(Calls(g)) + 1 /\ want.finish
  BY <1>1, ThreadFacts DEF ThreadServes, Finishing
<1> HIDE DEF v
<1> QED BY <1>1, <1>2, <1>3, <1>4, <1>5, SameCallTypes DEF Finishing

-----------------------------------------------------------------------------
(* Barriers.                                                               *)

\* Allocations behind a call are counted one by one.
LEMMA BehindFacts ==
  ASSUME NEW g
  PROVE  /\ Behind(g, 1) = 0
         /\ \A k \in Nat \ {0} : Behind(g, k) \in Nat /\ Behind(g, k + 1) = Behind(g, k) + (IF Allocates(g, k) THEN 1 ELSE 0)
         /\ \A j, k \in Nat \ {0} : j <= k => Behind(g, j) <= Behind(g, k)
         /\ \A j, k \in Nat \ {0} : j < k /\ Allocates(g, j) => Behind(g, j) + 1 <= Behind(g, k)
<1> DEFINE B(k) == {i \in 1 .. k - 1 : Allocates(g, i)}
<1>1. \A k \in Nat \ {0} : IsFiniteSet(B(k)) /\ Cardinality(B(k)) \in Nat
  <2> TAKE k \in Nat \ {0}
  <2>1. IsFiniteSet(1 .. k - 1)
    BY FS_Interval
  <2> QED BY <2>1, FS_Subset, FS_CardinalityType
<1>2. \A k \in Nat \ {0} : Behind(g, k) = Cardinality(B(k))
  BY DEF Behind
<1>3. ASSUME NEW k \in Nat \ {0}
      PROVE  Behind(g, k + 1) = Behind(g, k) + (IF Allocates(g, k) THEN 1 ELSE 0)
  <2>1. CASE Allocates(g, k)
    <3>1. B(k + 1) = B(k) \cup {k} /\ k \notin B(k)
      BY <2>1
    <3>2. Cardinality(B(k) \cup {k}) = Cardinality(B(k)) + 1
      BY <1>1, <3>1, FS_AddElement
    <3> QED BY <1>2, <2>1, <3>1, <3>2
  <2>2. CASE ~ Allocates(g, k)
    <3>1. B(k + 1) = B(k)
      BY <2>2
    <3>2. Cardinality(B(k)) \in Nat
      BY <1>1
    <3> QED BY <1>2, <2>2, <3>1, <3>2
  <2> QED BY <2>1, <2>2
<1>4. ASSUME NEW j \in Nat \ {0}, NEW k \in Nat \ {0}, j <= k
      PROVE  Behind(g, j) <= Behind(g, k)
  <2>1. B(j) \subseteq B(k)
    BY <1>4
  <2> HIDE DEF B
  <2>2. Cardinality(B(j)) <= Cardinality(B(k))
    BY <1>1, <2>1, FS_Subset
  <2> QED BY <1>2, <2>2
<1>5. ASSUME NEW j \in Nat \ {0}, NEW k \in Nat \ {0}, j < k, Allocates(g, j)
      PROVE  Behind(g, j) + 1 <= Behind(g, k)
  <2>1. j + 1 \in Nat \ {0} /\ j + 1 <= k
    BY <1>5
  <2>2. Behind(g, j + 1) <= Behind(g, k)
    BY <1>4, <2>1
  <2> QED BY <1>3, <1>5, <2>2
<1>6. Behind(g, 1) = 0
  <2>1. B(1) = {}
    OBVIOUS
  <2> QED BY <1>2, <2>1, FS_EmptySet
<1> QED BY <1>1, <1>2, <1>3, <1>4, <1>5, <1>6

\* An allocation is behind every later call.
LEMMA BehindLess ==
  ASSUME NEW g, NEW j \in Nat \ {0}, NEW k \in Nat \ {0}, j < k, Allocates(g, j)
  PROVE  Behind(g, j) + 1 <= Behind(g, k)
BY BehindFacts

\* A thread moves on, to where the others have been.
LEMMA InStepMoves ==
  ASSUME RecordTypes, NEW g \in Groups, InStep(g), want' = want, NEW t \in Thread, NEW v \in ThreadType,
         thread' = [thread EXCEPT ![g][t] = v],
         v.arrived >= thread[g][t].arrived, v.arrived = 2 * Behind(g, v.call) + Stage(v.pc),
         \A s \in Thread : thread[g][s].arrived >=
             2 * Behind(g, v.call) + (IF v.pc \in {"leave", "done"} THEN 1 ELSE 0)
  PROVE  InStep(g)'
<1>1. thread'[g][t] = v /\ \A s \in Thread \ {t} : thread'[g][s] = thread[g][s]
  BY DEF RecordTypes
<1>2. \A k : Behind(g, k)' = Behind(g, k)
  BY WantFixed
<1>3. /\ thread[g][t].arrived \in Nat /\ v.arrived \in Nat
      /\ \A s \in Thread : thread[g][s].arrived \in Nat
  BY DEF RecordTypes, ThreadType
<1>4. ASSUME NEW s \in Thread
      PROVE  /\ Behind(g, thread[g][s].call)' = Behind(g, thread'[g][s].call)
             /\ Behind(g, thread'[g][s].call) \in Nat
  <2>1. \A i : Allocates(g, i)' <=> Allocates(g, i)
    BY WantFixed
  <2>2. thread'[g][s].call \in Nat
    BY <1>1 DEF RecordTypes, ThreadType
  <2> DEFINE m == thread'[g][s].call - 1
  <2>3. m \in Int
    BY <2>2
  <2> HIDE DEF m
  <2>4. IsFiniteSet(1 .. m)
    BY <2>3, FS_Interval
  <2>5. Cardinality({i \in 1 .. m : Allocates(g, i)}) \in Nat
    BY <2>4, FS_Subset, FS_CardinalityType
  <2> QED BY <2>1, <2>5 DEF Behind, m
<1>5. ASSUME NEW s \in Thread
      PROVE  /\ thread'[g][s].arrived = 2 * Behind(g, thread'[g][s].call) + Stage(thread'[g][s].pc)
             /\ thread'[g][s].arrived >= thread[g][s].arrived /\ thread'[g][s].arrived \in Nat
  BY <1>1, <1>3 DEF InStep
<1>6. ASSUME NEW s \in Thread, NEW u \in Thread
      PROVE  thread'[g][s].arrived >= 2 * Behind(g, thread'[g][u].call)
               + (IF thread'[g][u].pc \in {"leave", "done"} THEN 1 ELSE 0)
  <2> DEFINE m == 2 * Behind(g, thread'[g][u].call) + (IF thread'[g][u].pc \in {"leave", "done"} THEN 1 ELSE 0)
  <2>1. thread[g][s].arrived >= m
    BY <1>1 DEF InStep
  <2>2. m \in Int
    BY <1>4
  <2> HIDE DEF m
  <2>3. thread'[g][s].arrived >= m
    BY <1>3, <1>5, <2>1, <2>2
  <2> QED BY <2>3 DEF m
<1> QED BY <1>4, <1>5, <1>6 DEF InStep

\* Barriers are counted in pairs.
LEMMA Parity ==
  ASSUME NEW a \in Nat, NEW b \in Nat, NEW s \in {0, 1, 2}, 2 * b + 1 >= 2 * a, 2 * a + s >= 2 * b + 1
  PROVE  s \in {1, 2} /\ a = b
OBVIOUS

\* Who passes the barrier of an allocation finds the first thread in the same call.
LEMMA Meet ==
  ASSUME RecordTypes, Serves, NEW g \in Groups, InStep(g), NEW t \in Thread, AllArrived(g, t)
  PROVE  /\ thread[g][t].pc = "wait" =>
              thread[g][0].call = thread[g][t].call /\ thread[g][0].pc \in Meeting
         /\ thread[g][t].pc = "finish" => thread[g][0].pc \in {"finish", "done"}
<1> DEFINE k == thread[g][t].call
           j == thread[g][0].call
           L == Len(Calls(g)) + 1
<1>1. /\ 0 \in Thread /\ k \in Nat \ {0} /\ j \in Nat \ {0} /\ L \in Nat \ {0} /\ j <= L /\ k <= L
      /\ ThreadServes(g, t) /\ ThreadServes(g, 0) /\ thread[g][0] \in ThreadType
  BY OwnerFacts, ThreadFacts
<1>2. /\ thread[g][t].arrived = 2 * Behind(g, k) + Stage(thread[g][t].pc)
      /\ thread[g][0].arrived = 2 * Behind(g, j) + Stage(thread[g][0].pc)
      /\ thread[g][t].arrived >= 2 * Behind(g, j)
      /\ thread[g][0].arrived >= thread[g][t].arrived
  <2>1. \A s \in Thread : thread[g][s].arrived \in Nat
    BY DEF RecordTypes
  <2>2. /\ thread[g][t].arrived >= 2 * Behind(g, j) + (IF thread[g][0].pc \in {"leave", "done"} THEN 1 ELSE 0)
        /\ thread[g][t].arrived = 2 * Behind(g, k) + Stage(thread[g][t].pc)
        /\ thread[g][0].arrived = 2 * Behind(g, j) + Stage(thread[g][0].pc)
        /\ thread[g][0].arrived >= thread[g][t].arrived
    BY <1>1 DEF InStep, AllArrived
  <2>3. Behind(g, j) \in Nat
    BY <1>1, BehindFacts
  <2>4. thread[g][t].arrived >= 2 * Behind(g, j)
    <3> DEFINE a == thread[g][t].arrived
               b == Behind(g, j)
    <3>1. a \in Nat /\ b \in Nat /\ (a >= 2 * b \/ a >= 2 * b + 1)
      BY <2>1, <2>2, <2>3
    <3> HIDE DEF a, b
    <3>2. a >= 2 * b
      BY <3>1
    <3> QED BY <3>2 DEF a, b
  <2> QED BY <2>2, <2>4
<1> HIDE DEF k, j, L
<1>3. Behind(g, k) \in Nat /\ Behind(g, j) \in Nat
  BY <1>1, BehindFacts
<1>4. CASE thread[g][t].pc = "wait"
  <2>1. Stage(thread[g][t].pc) = 1 /\ Allocates(g, k)
    BY <1>1, <1>4 DEF Stage, ThreadServes, Meeting, k
  <2>2. Stage(thread[g][0].pc) \in {1, 2} /\ Behind(g, j) = Behind(g, k)
    <3>1. Stage(thread[g][0].pc) \in {0, 1, 2}
      BY DEF Stage
    <3> QED BY <1>2, <1>3, <2>1, <3>1, Parity
  <2>3. thread[g][0].pc \in {"wait", "leave", "finish", "done"}
    BY <2>2 DEF Stage
  <2>4. ~ (k < j)
    <3>1. k < j => Behind(g, k) + 1 <= Behind(g, j)
      BY <1>1, <2>1, BehindLess
    <3> QED BY <1>3, <2>2, <3>1
  <2>5. thread[g][0].pc \in Meeting
    <3>1. thread[g][0].pc \in {"finish", "done"} => j = L
      BY <1>1 DEF ThreadServes, Finishing, j, L
    <3>2. k # L
      BY <1>1, <2>1, CallFacts DEF Allocates, L, RecordTypes
    <3> QED BY <1>1, <2>3, <2>4, <3>1, <3>2 DEF Meeting
  <2>6. Allocates(g, j)
    BY <1>1, <2>5 DEF ThreadServes, j
  <2>7. ~ (j < k)
    <3>1. j < k => Behind(g, j) + 1 <= Behind(g, k)
      BY <1>1, <2>6, BehindLess
    <3> QED BY <1>3, <2>2, <3>1
  <2> QED BY <1>1, <1>4, <2>4, <2>5, <2>7 DEF k, j
<1>5. CASE thread[g][t].pc = "finish"
  <2>1. Stage(thread[g][t].pc) = 1 /\ k = L
    BY <1>1, <1>5 DEF Stage, ThreadServes, Finishing, k, L
  <2>2. Stage(thread[g][0].pc) \in {1, 2} /\ Behind(g, j) = Behind(g, k)
    <3>1. Stage(thread[g][0].pc) \in {0, 1, 2}
      BY DEF Stage
    <3> QED BY <1>2, <1>3, <2>1, <3>1, Parity
  <2>3. thread[g][0].pc \in {"wait", "leave", "finish", "done"}
    BY <2>2 DEF Stage
  <2>4. ASSUME thread[g][0].pc \in Meeting PROVE FALSE
    <3>1. Allocates(g, j)
      BY <1>1, <2>4 DEF ThreadServes, j
    <3>2. j < k
      BY <1>1, <2>1, <3>1, CallFacts DEF Allocates, L, RecordTypes
    <3>3. Behind(g, j) + 1 <= Behind(g, k)
      BY <1>1, <3>1, <3>2, BehindLess
    <3> QED BY <1>3, <2>2, <3>3
  <2> QED BY <1>5, <2>3, <2>4 DEF Meeting
<1> QED BY <1>4, <1>5

Met == \A g \in Groups : InStep(g) /\ Shares(g)

\* Only group g moves.
LEMMA OthersMet ==
  ASSUME Met, RecordTypes, want' = want, NEW g \in Groups, NEW t \in Thread, NEW v,
         thread' = [thread EXCEPT ![g][t] = v], \A h \in Groups \ {g} : shared'[h] = shared[h],
         InStep(g)', Shares(g)'
  PROVE  Met'
<1>1. \A h \in Groups \ {g} : thread'[h] = thread[h]
  BY DEF RecordTypes
<1>2. \A h \in Groups : \A k : Behind(h, k)' = Behind(h, k) /\ (Allocates(h, k)' <=> Allocates(h, k))
  BY WantFixed
<1>3. ASSUME NEW h \in Groups, h # g PROVE InStep(h)' /\ Shares(h)'
  <2>1. thread'[h] = thread[h] /\ shared'[h] = shared[h]
    BY <1>1, <1>3
  <2>2. \A s \in Thread : Behind(h, thread[h][s].call)' = Behind(h, thread[h][s].call)
    BY <1>2, <1>3, <2>1 DEF Behind
  <2>3. InStep(h) /\ Shares(h)
    BY DEF Met
  <2>4. InStep(h)'
    BY <2>1, <2>2, <2>3 DEF InStep
  <2>5. Shares(h)'
    BY <2>1, <2>3 DEF Shares
  <2> QED BY <2>4, <2>5
<1> QED BY <1>3 DEF Met

\* Waves join no barrier of a group.
LEMMA WavesMet ==
  ASSUME Met, want' = want, thread' = thread, shared' = shared
  PROVE  Met'
<1>1. ASSUME NEW h \in Groups PROVE InStep(h)' /\ Shares(h)'
  <2>1. \A k : Allocates(h, k)' <=> Allocates(h, k)
    BY WantFixed
  <2>2. \A s \in Thread : Behind(h, thread[h][s].call)' = Behind(h, thread[h][s].call)
    BY <2>1 DEF Behind
  <2>3. InStep(h) /\ Shares(h)
    BY DEF Met
  <2>4. InStep(h)'
    BY <2>2, <2>3 DEF InStep
  <2>5. Shares(h)'
    BY <2>3 DEF Shares
  <2> QED BY <2>4, <2>5
<1> QED BY <1>1 DEF Met

\* What the barriers say of a thread and of the others in its group.
LEMMA InStepFacts ==
  ASSUME RecordTypes, Serves, NEW g \in Groups, InStep(g), NEW t \in Thread
  PROVE  /\ thread[g][t].arrived = 2 * Behind(g, thread[g][t].call) + Stage(thread[g][t].pc)
         /\ thread[g][t].arrived \in Nat /\ Behind(g, thread[g][t].call) \in Nat
         /\ thread[g][t].call \in Nat \ {0}
         /\ \A s \in Thread : thread[g][s].arrived >= 2 * Behind(g, thread[g][t].call) /\ thread[g][s].arrived \in Nat
         /\ thread[g][t].pc \in {"leave", "done"} =>
              \A s \in Thread : thread[g][s].arrived >= 2 * Behind(g, thread[g][t].call) + 1
<1>1. \A s \in Thread : thread[g][s].arrived \in Nat
  BY DEF RecordTypes
<1>2. thread[g][t].call \in Nat \ {0}
  BY ThreadFacts
<1>3. Behind(g, thread[g][t].call) \in Nat
  BY <1>2, BehindFacts
<1> DEFINE b == Behind(g, thread[g][t].call)
<1>4. \A s \in Thread : thread[g][s].arrived >= 2 * b + (IF thread[g][t].pc \in {"leave", "done"} THEN 1 ELSE 0)
  BY DEF InStep
<1>5. thread[g][t].arrived = 2 * b + Stage(thread[g][t].pc)
  BY DEF InStep
<1>6. b \in Nat
  BY <1>3
<1> HIDE DEF b
<1>7. \A s \in Thread : thread[g][s].arrived >= 2 * b
  BY <1>1, <1>4, <1>6
<1>8. thread[g][t].pc \in {"leave", "done"} => \A s \in Thread : thread[g][s].arrived >= 2 * b + 1
  BY <1>4
<1> QED BY <1>1, <1>2, <1>5, <1>6, <1>7, <1>8 DEF b

\* A thread moves on in its call.
Advances(th, v) ==
  /\ v.call = th.call /\ Stage(v.pc) >= Stage(th.pc)
  /\ v.arrived - th.arrived = Stage(v.pc) - Stage(th.pc)

\* A thread at the same call arrives at its next barrier, or does not.
LEMMA InStepHere ==
  ASSUME RecordTypes, Serves, NEW g \in Groups, InStep(g), want' = want, NEW t \in Thread,
         NEW v \in ThreadType, thread' = [thread EXCEPT ![g][t] = v], Advances(thread[g][t], v),
         v.pc \in {"leave", "done"} => Stage(thread[g][t].pc) = 1 /\ AllArrived(g, t)
  PROVE  InStep(g)'
<1> DEFINE b == Behind(g, thread[g][t].call)
           a == thread[g][t].arrived
           m == Stage(thread[g][t].pc)
           n == Stage(v.pc)
<1>1. a = 2 * b + m /\ a \in Nat /\ b \in Nat /\ v.arrived \in Nat /\ m \in Nat /\ n \in Nat
      /\ (\A s \in Thread : thread[g][s].arrived >= 2 * b /\ thread[g][s].arrived \in Nat)
  BY InStepFacts DEF ThreadType, Stage
<1>2. v.arrived - a = n - m /\ n >= m /\ Behind(g, v.call) = b
  BY DEF Advances
<1>3. v.pc \in {"leave", "done"} => m = 1 /\ \A s \in Thread : thread[g][s].arrived >= a
  BY DEF AllArrived
<1> HIDE DEF a, b, m, n
<1>4. v.arrived >= a /\ v.arrived = 2 * b + n
  <2> DEFINE c == v.arrived
  <2>1. c - a = n - m /\ n >= m /\ c \in Nat
    BY <1>1, <1>2
  <2> HIDE DEF c
  <2>2. c >= a /\ c = 2 * b + n
    BY <1>1, <2>1
  <2> QED BY <2>2 DEF c
<1>5. \A s \in Thread : thread[g][s].arrived >= 2 * b + (IF v.pc \in {"leave", "done"} THEN 1 ELSE 0)
  <2>1. CASE v.pc \in {"leave", "done"}
    BY <1>1, <1>3, <2>1
  <2>2. CASE v.pc \notin {"leave", "done"}
    BY <1>1, <2>2
  <2> QED BY <2>1, <2>2
<1>6. v.arrived = 2 * Behind(g, v.call) + Stage(v.pc)
  BY <1>2, <1>4 DEF n
<1>7. \A s \in Thread : thread[g][s].arrived >=
             2 * Behind(g, v.call) + (IF v.pc \in {"leave", "done"} THEN 1 ELSE 0)
  BY <1>2, <1>5
<1> QED BY <1>4, <1>6, <1>7, InStepMoves DEF a

\* A thread goes on to its next call.
LEMMA InStepNext ==
  ASSUME RecordTypes, Serves, NEW g \in Groups, InStep(g), want' = want, NEW t \in Thread,
         thread' = [thread EXCEPT ![g][t] = NextCall(thread[g][t])],
         \/ thread[g][t].pc = "enter" /\ ~ Allocates(g, thread[g][t].call)
         \/ thread[g][t].pc = "leave" /\ AllArrived(g, t)
  PROVE  InStep(g)'
<1> DEFINE k == thread[g][t].call
           b == Behind(g, k)
           a == thread[g][t].arrived
           v == NextCall(thread[g][t])
           c == Behind(g, k + 1)
<1>1. /\ a = 2 * b + Stage(thread[g][t].pc) /\ a \in Nat /\ b \in Nat /\ k \in Nat \ {0}
      /\ (\A s \in Thread : thread[g][s].arrived >= 2 * b /\ thread[g][s].arrived \in Nat)
  BY InStepFacts
<1>2. /\ v \in ThreadType /\ v.pc = "enter" /\ v.call = k + 1 /\ v.arrived = a
  BY TypeFacts, StepFacts
<1>3. c = b + (IF Allocates(g, k) THEN 1 ELSE 0)
  BY <1>1, BehindFacts
<1>4. a = 2 * c /\ c \in Nat /\ \A s \in Thread : thread[g][s].arrived >= 2 * c
  <2>1. CASE thread[g][t].pc = "enter" /\ ~ Allocates(g, thread[g][t].call)
    BY <1>1, <1>3, <2>1 DEF Stage
  <2>2. CASE thread[g][t].pc = "leave" /\ AllArrived(g, t)
    <3>1. Allocates(g, k) /\ \A s \in Thread : thread[g][s].arrived >= a
      BY <2>2, ThreadFacts DEF ThreadServes, Meeting, AllArrived
    <3>2. Stage(thread[g][t].pc) = 2
      BY <2>2 DEF Stage
    <3> HIDE DEF a, b, c, k
    <3>3. c = b + 1 /\ a = 2 * b + 2
      BY <1>1, <1>3, <3>1, <3>2
    <3> QED BY <1>1, <3>1, <3>3
  <2> QED BY <2>1, <2>2
<1>5. thread' = [thread EXCEPT ![g][t] = v] /\ Stage(v.pc) = 0 /\ v.pc \notin {"leave", "done"}
  BY <1>2 DEF Stage
<1>6. v.arrived = 2 * Behind(g, v.call) + Stage(v.pc) /\ v.arrived >= a
  <2> HIDE DEF v, a
  <2> QED BY <1>1, <1>2, <1>4, <1>5
<1>7. \A s \in Thread : thread[g][s].arrived >=
             2 * Behind(g, v.call) + (IF v.pc \in {"leave", "done"} THEN 1 ELSE 0)
  <2> HIDE DEF v, a, k
  <2> QED BY <1>1, <1>2, <1>4, <1>5
<1> HIDE DEF v
<1> QED BY <1>2, <1>5, <1>6, <1>7, InStepMoves DEF a

\* While the first thread is elsewhere nobody is past the last barrier.
LEMMA NobodyDone ==
  ASSUME NEW g \in Groups, Shares(g), thread[g][0].pc \notin {"finish", "done"}
  PROVE  \A s \in Thread : thread[g][s].pc # "done"
BY DEF Shares

\* A thread starts an allocation: its group stays in step.
LEMMA StartAllocateMet ==
  ASSUME RecordTypes, Serves, Met, NEW g \in Groups, NEW t \in Thread, StartAllocate(g, t)
  PROVE  Met'
<1> DEFINE v == Started(g, t)
<1>1. /\ thread[g][t].pc = "enter" /\ HasCall(g, t) /\ Current(g, t).kind = "allocate"
      /\ thread' = [thread EXCEPT ![g][t] = v] /\ want' = want /\ shared' = shared
      /\ InStep(g) /\ Shares(g) /\ 0 \in Thread
  BY OwnerFacts DEF StartAllocate, Met
<1>2. /\ thread[g][t] \in ThreadType /\ thread[g][t].call <= Len(Calls(g))
      /\ Current(g, t) = Calls(g)[thread[g][t].call]
  BY <1>1, ThreadFacts DEF HasCall
<1>3. InStep(g)' /\ v.pc \in {"enter", "payload", "wait"} /\ (t = 0 => v.pc # "wait")
  <2>1. CASE Empty(g, t)
    <3>1. v = NextCall(thread[g][t])
      BY <2>1 DEF Started
    <3>2. ~ Allocates(g, thread[g][t].call)
      BY <1>2, <2>1 DEF Allocates, Empty
    <3>3. v.pc = "enter"
      BY <1>2, <3>1, StepFacts
    <3> HIDE DEF v
    <3> QED BY <1>1, <3>1, <3>2, <3>3, InStepNext
  <2>2. CASE ~ Empty(g, t) /\ t = 0
    <3>1. RecordTypes' /\ thread'[g][t] = v
      BY <1>1, StartAllocateTypes DEF RecordTypes
    <3>2. v \in ThreadType
      BY <3>1 DEF RecordTypes, ThreadType
    <3>3. v.pc = "payload" /\ v.call = thread[g][t].call /\ v.arrived = thread[g][t].arrived
      <4>1. v = [thread[g][t] EXCEPT !.pc = "payload",
                    !.alloc = [Nothing EXCEPT !.node = Current(g, t).node, !.count = Current(g, t).count]]
        BY <2>2 DEF Started
      <4> HIDE DEF v
      <4> QED BY <1>2, <4>1 DEF ThreadType
    <3> HIDE DEF v
    <3>4. Stage(v.pc) = 0 /\ Stage(thread[g][t].pc) = 0
      BY <1>1, <3>3 DEF Stage
    <3>5. Advances(thread[g][t], v)
      BY <1>2, <3>3, <3>4 DEF ThreadType, Advances
    <3> QED BY <1>1, <3>2, <3>3, <3>5, InStepHere
  <2>3. CASE ~ Empty(g, t) /\ t # 0
    <3>1. v = Arrive(thread[g][t], "wait")
      BY <2>3 DEF Started
    <3>2. v \in ThreadType /\ v.pc = "wait" /\ v.call = thread[g][t].call /\ v.arrived = thread[g][t].arrived + 1
      <4> HIDE DEF v
      <4>1. thread[g][t] \in ThreadType /\ "wait" \in Meeting
        BY <1>2 DEF Meeting
      <4> QED BY <3>1, <4>1, StepFacts
    <3> HIDE DEF v
    <3>4. Stage(v.pc) = 1 /\ Stage(thread[g][t].pc) = 0
      BY <1>1, <3>2 DEF Stage
    <3>5. Advances(thread[g][t], v)
      BY <1>2, <3>2, <3>4 DEF ThreadType, Advances
    <3> QED BY <1>1, <2>3, <3>2, <3>5, InStepHere
  <2> QED BY <2>1, <2>2, <2>3
<1> HIDE DEF v
<1>4. thread'[g][t] = v /\ \A s \in Thread \ {t} : thread'[g][s] = thread[g][s]
  BY <1>1 DEF RecordTypes
<1>5. Shares(g)'
  BY <1>1, <1>3, <1>4 DEF Shares, Meeting
<1> QED BY <1>1, <1>3, <1>5, OthersMet

\* The first thread executes the body: its group stays in step.
LEMMA LeaderBodyMet ==
  ASSUME RecordTypes, Serves, Met, NEW g \in Groups, LeaderBody(g)
  PROVE  Met'
<1> DEFINE v == thread'[g][0]
<1>1. /\ thread[g][0].pc \in BodyPcs /\ want' = want /\ shared' = shared
      /\ InStep(g) /\ Shares(g) /\ 0 \in Thread /\ thread[g][0] \in ThreadType /\ RecordTypes'
  BY OwnerFacts, TypeFacts, LeaderBodyTypes DEF LeaderBody, Met
<1>2. /\ thread' = [thread EXCEPT ![g][0] = v] /\ v.pc = AfterStep[thread[g][0].pc]
      /\ v.call = thread[g][0].call /\ v.arrived = thread[g][0].arrived
  <2>1. PICK r \in {Execute(thread[g][0].pc, thread[g][0].alloc)} :
          thread' = [thread EXCEPT ![g][0].alloc = r.alloc, ![g][0].pc = AfterStep[@]]
    BY DEF LeaderBody
  <2>2. thread \in [Groups -> [Thread -> ThreadType]]
    BY DEF RecordTypes, ThreadType
  <2> QED BY <1>1, <2>1, <2>2 DEF ThreadType
<1>3. v \in ThreadType
  BY <1>1 DEF RecordTypes, ThreadType
<1> HIDE DEF v
<1>4. v.pc \in Serving
  BY <1>1, <1>2 DEF AfterStep, BodyPcs, Serving
<1>5. Stage(v.pc) = 0 /\ Stage(thread[g][0].pc) = 0 /\ v.pc \notin {"leave", "done"}
  BY <1>1, <1>4 DEF Stage, BodyPcs, Serving
<1>6. Advances(thread[g][0], v)
  BY <1>1, <1>2, <1>5 DEF ThreadType, Advances
<1>7. InStep(g)'
  BY <1>1, <1>2, <1>3, <1>5, <1>6, InStepHere
<1>8. thread'[g][0] = v /\ \A s \in Thread \ {0} : thread'[g][s] = thread[g][s]
  BY <1>1, <1>2 DEF RecordTypes
<1>9. Shares(g)'
  <2>1. \A s \in Thread : thread[g][s].pc # "done"
    BY <1>1, NobodyDone DEF BodyPcs
  <2> QED BY <1>1, <1>4, <1>8, <2>1 DEF Shares, Meeting, Serving, BodyPcs
<1> QED BY <1>1, <1>2, <1>7, <1>9, OthersMet

\* The first thread shares the offset: its group stays in step.
LEMMA LeaderSharesMet ==
  ASSUME RecordTypes, Serves, Met, NEW g \in Groups, LeaderShares(g)
  PROVE  Met'
<1> DEFINE v == Arrive(thread[g][0], "wait")
<1>1. /\ thread[g][0].pc = "merge" /\ 0 \in Thread /\ thread[g][0] \in ThreadType /\ InStep(g) /\ Shares(g)
      /\ thread' = [thread EXCEPT ![g][0] = v] /\ want' = want
      /\ shared' = [shared EXCEPT ![g].offset = thread[g][0].alloc.offset]
  BY OwnerFacts, TypeFacts DEF LeaderShares, Met
<1>2. v \in ThreadType /\ v.pc = "wait" /\ v.call = thread[g][0].call /\ v.alloc = thread[g][0].alloc
      /\ v.arrived = thread[g][0].arrived + 1
  BY <1>1, StepFacts DEF Meeting
<1> HIDE DEF v
<1>3. Stage(v.pc) = 1 /\ Stage(thread[g][0].pc) = 0 /\ Advances(thread[g][0], v)
  BY <1>1, <1>2 DEF Stage, ThreadType, Advances
<1>4. InStep(g)'
  BY <1>1, <1>2, <1>3, InStepHere
<1>5. /\ thread'[g][0] = v /\ (\A s \in Thread \ {0} : thread'[g][s] = thread[g][s])
      /\ shared'[g].offset = thread[g][0].alloc.offset /\ \A h \in Groups \ {g} : shared'[h] = shared[h]
  BY <1>1 DEF RecordTypes
<1>6. Shares(g)'
  <2>1. \A s \in Thread : thread[g][s].pc # "done"
    BY <1>1, NobodyDone
  <2> QED BY <1>1, <1>2, <1>5, <2>1 DEF Shares, Meeting
<1> QED BY <1>1, <1>4, <1>5, <1>6, OthersMet

\* A thread reads the shared offset: its group stays in step.
LEMMA ReadSharedMet ==
  ASSUME RecordTypes, Serves, Met, NEW g \in Groups, NEW t \in Thread, ReadShared(g, t)
  PROVE  Met'
<1> DEFINE v == Arrive(thread[g][t], "leave")
<1>1. /\ thread[g][t].pc = "wait" /\ AllArrived(g, t) /\ thread[g][t] \in ThreadType /\ InStep(g) /\ Shares(g)
      /\ thread' = [thread EXCEPT ![g][t] = v] /\ want' = want /\ shared' = shared /\ 0 \in Thread
  BY OwnerFacts, TypeFacts DEF ReadShared, Met, ReturnAfterBarrier
<1>2. v \in ThreadType /\ v.pc = "leave" /\ v.call = thread[g][t].call /\ v.alloc = thread[g][t].alloc
      /\ v.arrived = thread[g][t].arrived + 1
  BY <1>1, StepFacts DEF Meeting
<1> HIDE DEF v
<1>3. Stage(v.pc) = 2 /\ Stage(thread[g][t].pc) = 1 /\ Advances(thread[g][t], v)
  BY <1>1, <1>2 DEF Stage, ThreadType, Advances
<1>4. InStep(g)'
  BY <1>1, <1>2, <1>3, InStepHere
<1>5. thread'[g][t] = v /\ \A s \in Thread \ {t} : thread'[g][s] = thread[g][s]
  BY <1>1 DEF RecordTypes
<1>6. Shares(g)'
  BY <1>1, <1>2, <1>5 DEF Shares, Meeting
<1> QED BY <1>1, <1>4, <1>6, OthersMet

\* A thread that goes on to its next call.
LEMMA NextCallMet ==
  ASSUME RecordTypes, Serves, Met, NEW g \in Groups, NEW t \in Thread, want' = want, shared' = shared,
         thread' = [thread EXCEPT ![g][t] = NextCall(thread[g][t])],
         \/ thread[g][t].pc = "enter" /\ ~ Allocates(g, thread[g][t].call)
         \/ thread[g][t].pc = "leave" /\ AllArrived(g, t)
  PROVE  Met'
<1>1. InStep(g) /\ Shares(g) /\ 0 \in Thread /\ thread[g][t] \in ThreadType
  BY OwnerFacts, TypeFacts DEF Met
<1>2. InStep(g)'
  BY <1>1, InStepNext
<1>3. thread'[g][t].pc = "enter" /\ \A s \in Thread \ {t} : thread'[g][s] = thread[g][s]
  BY <1>1, StepFacts DEF RecordTypes
<1>4. Shares(g)'
  BY <1>1, <1>3 DEF Shares, Meeting
<1> QED BY <1>1, <1>2, <1>4, OthersMet

\* A thread starts to finish: its group stays in step.
LEMMA StartFinishMet ==
  ASSUME RecordTypes, Serves, Met, NEW g \in Groups, NEW t \in Thread, StartFinish(g, t)
  PROVE  Met'
<1> DEFINE v == thread'[g][t]
<1>1. /\ thread[g][t].pc = "enter" /\ thread[g][t] \in ThreadType /\ InStep(g) /\ Shares(g)
      /\ want' = want /\ shared' = shared /\ 0 \in Thread /\ RecordTypes'
  BY OwnerFacts, TypeFacts, StartFinishTypes DEF StartFinish, Met
<1>2. /\ thread' = [thread EXCEPT ![g][t] = v] /\ v.call = thread[g][t].call
      /\ IF t = 0 THEN v.pc = "publish" /\ v.arrived = thread[g][t].arrived
         ELSE v.pc = "finish" /\ v.arrived = thread[g][t].arrived + 1
  <2>1. thread \in [Groups -> [Thread -> ThreadType]]
    BY DEF RecordTypes, ThreadType
  <2>2. CASE t = 0
    <3>1. thread' = [thread EXCEPT ![g][0].pc = "publish", ![g][0].last = IsLast(mem.cookie)]
      BY <2>2 DEF StartFinish
    <3> DEFINE u == [thread[g][t] EXCEPT !.pc = "publish", !.last = IsLast(mem.cookie)]
    <3>2. thread' = [thread EXCEPT ![g][t] = u]
      BY <2>1, <2>2, <3>1 DEF ThreadType
    <3>3. u.call = thread[g][t].call /\ u.pc = "publish" /\ u.arrived = thread[g][t].arrived
      BY <1>1 DEF ThreadType
    <3> HIDE DEF u
    <3>4. v = u
      BY <2>1, <3>2
    <3> HIDE DEF v
    <3> QED BY <2>2, <3>2, <3>3, <3>4
  <2>3. CASE t # 0
    <3>1. thread' = [thread EXCEPT ![g][t] = Arrive(thread[g][t], "finish")]
      BY <2>3 DEF StartFinish
    <3>2. v = Arrive(thread[g][t], "finish")
      BY <2>1, <3>1
    <3>3. v.pc = "finish" /\ v.arrived = thread[g][t].arrived + 1 /\ v.call = thread[g][t].call
      BY <1>1, <3>2, StepFacts DEF Finishing
    <3> QED BY <2>3, <3>1, <3>2, <3>3
  <2> QED BY <2>2, <2>3
<1>3. v \in ThreadType
  BY <1>1 DEF RecordTypes, ThreadType
<1> HIDE DEF v
<1>4. /\ Stage(thread[g][t].pc) = 0 /\ Stage(v.pc) = IF t = 0 THEN 0 ELSE 1
      /\ v.arrived - thread[g][t].arrived = IF t = 0 THEN 0 ELSE 1
  BY <1>1, <1>2 DEF Stage, ThreadType
<1>5. Advances(thread[g][t], v) /\ v.pc \notin {"leave", "done"}
  BY <1>2, <1>4 DEF Advances
<1>6. InStep(g)'
  BY <1>1, <1>2, <1>3, <1>5, InStepHere
<1>7. thread'[g][t] = v /\ \A s \in Thread \ {t} : thread'[g][s] = thread[g][s]
  BY <1>2 DEF RecordTypes, v
<1>8. Shares(g)'
  BY <1>1, <1>2, <1>7 DEF Shares, Meeting
<1> QED BY <1>1, <1>2, <1>6, <1>8, OthersMet

\* The first thread shares whether its group is the last: its group stays in step.
LEMMA PublishLastMet ==
  ASSUME RecordTypes, Serves, Met, NEW g \in Groups, PublishLast(g)
  PROVE  Met'
<1> DEFINE v == Arrive(thread[g][0], "finish")
<1>1. /\ thread[g][0].pc = "publish" /\ 0 \in Thread /\ thread[g][0] \in ThreadType /\ InStep(g) /\ Shares(g)
      /\ thread' = [thread EXCEPT ![g][0] = v] /\ want' = want
      /\ shared' = [shared EXCEPT ![g].last = thread[g][0].last]
  BY OwnerFacts, TypeFacts DEF PublishLast, Met
<1>2. v \in ThreadType /\ v.pc = "finish" /\ v.call = thread[g][0].call /\ v.last = thread[g][0].last
      /\ v.arrived = thread[g][0].arrived + 1
  BY <1>1, StepFacts DEF Finishing
<1> HIDE DEF v
<1>3. Stage(v.pc) = 1 /\ Stage(thread[g][0].pc) = 0 /\ Advances(thread[g][0], v)
  BY <1>1, <1>2 DEF Stage, ThreadType, Advances
<1>4. InStep(g)'
  BY <1>1, <1>2, <1>3, InStepHere
<1>5. /\ thread'[g][0] = v /\ (\A s \in Thread \ {0} : thread'[g][s] = thread[g][s])
      /\ shared'[g].last = thread[g][0].last /\ \A h \in Groups \ {g} : shared'[h] = shared[h]
  BY <1>1 DEF RecordTypes
<1>6. Shares(g)'
  <2>1. \A s \in Thread : thread[g][s].pc # "done"
    BY <1>1, NobodyDone
  <2> QED BY <1>1, <1>2, <1>5, <2>1 DEF Shares, Meeting
<1> QED BY <1>1, <1>4, <1>5, <1>6, OthersMet

\* A thread reads whether its group is the last: its group stays in step.
LEMMA ReadLastMet ==
  ASSUME RecordTypes, Serves, Met, NEW g \in Groups, NEW t \in Thread, ReadLast(g, t)
  PROVE  Met'
<1> DEFINE v == thread'[g][t]
<1>1. /\ thread[g][t].pc = "finish" /\ AllArrived(g, t) /\ thread[g][t] \in ThreadType /\ InStep(g) /\ Shares(g)
      /\ want' = want /\ shared' = shared /\ 0 \in Thread /\ RecordTypes'
  BY OwnerFacts, TypeFacts, ReadLastTypes DEF ReadLast, Met
<1>2. /\ thread' = [thread EXCEPT ![g][t] = v] /\ v.call = thread[g][t].call
      /\ v.pc = "done" /\ v.arrived = thread[g][t].arrived /\ v.last = shared[g].last
  <2>1. thread \in [Groups -> [Thread -> ThreadType]]
    BY DEF RecordTypes, ThreadType
  <2> DEFINE u == [thread[g][t] EXCEPT !.pc = "done", !.last = shared[g].last]
  <2>2. thread' = [thread EXCEPT ![g][t] = u]
    BY <2>1 DEF ReadLast, ThreadType
  <2>3. u.call = thread[g][t].call /\ u.pc = "done" /\ u.arrived = thread[g][t].arrived /\ u.last = shared[g].last
    BY <1>1 DEF ThreadType
  <2> HIDE DEF u
  <2>4. v = u
    BY <2>1, <2>2
  <2> HIDE DEF v
  <2> QED BY <2>2, <2>3, <2>4
<1>3. v \in ThreadType
  BY <1>1 DEF RecordTypes, ThreadType
<1> HIDE DEF v
<1>4. Stage(thread[g][t].pc) = 1 /\ Stage(v.pc) = 1 /\ Advances(thread[g][t], v)
  BY <1>1, <1>2 DEF Stage, ThreadType, Advances
<1>5. InStep(g)'
  BY <1>1, <1>2, <1>3, <1>4, InStepHere
<1>6. thread'[g][t] = v /\ \A s \in Thread \ {t} : thread'[g][s] = thread[g][s]
  BY <1>2 DEF RecordTypes, v
<1>7. thread[g][0].pc \in {"finish", "done"}
  BY <1>1, Meet
<1>8. Shares(g)'
  BY <1>1, <1>2, <1>6, <1>7 DEF Shares, Meeting
<1> QED BY <1>1, <1>2, <1>5, <1>8, OthersMet

-----------------------------------------------------------------------------
(* Payload memory and the list.                                            *)

RecordSet == [who : Owners \X Nat, node : Nodes, count : 0 .. CountRange, offset : Nat]

\* An allocation has its bytes.
LEMMA PlaceFacts ==
  ASSUME RecordTypes, Serves, NEW o \in Owners, PcOf(o) \in Serving \cup Meeting
  PROVE  /\ Taking(o).count * RecordSize \in Nat
         /\ Taking(o).offset \in Nat => RegionEnd(o) \in Nat /\ Taking(o).offset <= RegionEnd(o)
<1>1. Taking(o).count \in Nat
  BY ServingFacts, NodeRecordsAssumption
<1>2. Taking(o).count * RecordSize \in Nat
  BY <1>1, Bytes
<1> QED BY <1>2 DEF RegionEnd

\* A record has its bytes.
LEMMA RecordFacts ==
  ASSUME NEW r \in RecordSet
  PROVE  r.offset \in Nat /\ r.count \in Nat /\ RecordEnd(r) \in Nat /\ r.offset <= RecordEnd(r)
<1>1. r.offset \in Nat /\ r.count \in Nat
  BY NodeRecordsAssumption DEF RecordSet
<1>2. r.count * RecordSize \in Nat
  BY <1>1, Bytes
<1> QED BY <1>1, <1>2 DEF RecordEnd

\* The stages of an allocation, one inside the other.
LEMMA PcSets ==
  /\ Placed \subseteq Serving \cup Meeting /\ Slotted \subseteq Placed /\ Writing \subseteq Slotted
  /\ {"store", "merge"} \cup Meeting \subseteq Slotted /\ "merge" \notin Writing /\ "loop" \notin Placed
  /\ "enter" \notin Placed /\ "payload" \notin Placed
  /\ \A pc \in Meeting : pc \notin Writing
  /\ \A pc \in Finishing : pc \notin Placed
BY DEF Placed, Slotted, Writing, Serving, Meeting, BodyPcs, Finishing

\* Owners that allocate nothing now, or wait for their group, change no memory.
Stays ==
  /\ got' = got /\ mem'.payload = mem.payload /\ mem'.fused = mem.fused /\ mem'.list = mem.list
  /\ \A o \in Owners : PcOf(o)' \in Placed =>
       /\ PcOf(o)' = PcOf(o) \/ (PcOf(o) \in {"merge"} \cup Meeting /\ PcOf(o)' \in Meeting)
       /\ Taking(o)' = Taking(o) /\ \A r \in got : Own(o, r)' <=> Own(o, r)

\* Owners that take nothing and share what they took disturb neither payloads nor list.
LEMMA MemoryStays ==
  ASSUME Regions, Slots, Stays
  PROVE  Regions' /\ Slots'
<1>1. \A o \in Owners : PcOf(o)' \in Placed =>
        /\ PcOf(o) \in Placed /\ Taking(o)' = Taking(o) /\ RegionEnd(o)' = RegionEnd(o)
        /\ \A r \in got : Own(o, r)' <=> Own(o, r)
  BY DEF Stays, Placed, Meeting, RegionEnd
<1>2. \A o \in Owners :
        /\ PcOf(o)' \in Slotted => PcOf(o) \in Slotted /\ Taking(o)' = Taking(o)
        /\ PcOf(o)' \in {"store", "merge"} \cup Meeting => PcOf(o) \in {"store", "merge"} \cup Meeting
        /\ PcOf(o)' \in {"merge"} \cup Meeting => PcOf(o) \in {"merge"} \cup Meeting
        /\ PcOf(o)' \in Writing => PcOf(o) \in Writing /\ Taking(o)' = Taking(o)
  BY PcSets DEF Stays, Placed, Meeting, Slotted, Writing
<1>3. RecordsDisjoint'
  BY DEF Stays, Regions, RecordsDisjoint
<1>4. Regions'
  <2>1. \A o \in Owners : PcOf(o)' \in Placed =>
          /\ Taking(o)'.offset \in Aligned /\ RegionEnd(o)' <= mem'.payload
          /\ \A p \in Owners : p # o /\ PcOf(p)' \in Placed =>
               RegionEnd(o)' <= Taking(p)'.offset \/ RegionEnd(p)' <= Taking(o)'.offset
          /\ \A r \in got' : Own(o, r)' \/ Apart(Taking(o)'.offset, RegionEnd(o)', r)
    BY <1>1 DEF Regions, Stays
  <2> QED BY <1>3, <2>1 DEF Regions, Apart
<1>5. \A i, r : Covers(i, r)' <=> Covers(i, r)
  BY DEF Covers, Stays
<1>6. \A r \in got' : r.count > 0 =>
       \E i \in 0 .. mem'.fused - 1 :
         Covers(i, r)' /\ \A o \in Owners : PcOf(o)' \in Writing => Taking(o)'.slot # i
  <2> SUFFICES ASSUME NEW r \in got', r.count > 0
               PROVE  \E i \in 0 .. mem'.fused - 1 :
                        Covers(i, r)' /\ \A o \in Owners : PcOf(o)' \in Writing => Taking(o)'.slot # i
    OBVIOUS
  <2>1. PICK i \in 0 .. mem.fused - 1 : Covers(i, r) /\ \A o \in Owners : PcOf(o) \in Writing => Taking(o).slot # i
    BY DEF Slots, Stays
  <2>2. Covers(i, r)' /\ \A o \in Owners : PcOf(o)' \in Writing => Taking(o)'.slot # i
    BY <1>2, <1>5, <2>1
  <2>3. i \in 0 .. mem'.fused - 1
    BY <2>1 DEF Stays
  <2> QED BY <2>2, <2>3
<1>7. \A o \in Owners : PcOf(o)' \in Slotted =>
       /\ Taking(o)'.slot \in 0 .. mem'.fused - 1
       /\ \A p \in Owners : p # o /\ PcOf(p)' \in Slotted => Taking(p)'.slot # Taking(o)'.slot
       /\ PcOf(o)' \in {"store", "merge"} \cup Meeting =>
            mem'.list[Taking(o)'.slot].header = Header(Taking(o)'.node, Taking(o)'.count)
       /\ PcOf(o)' \in {"merge"} \cup Meeting => mem'.list[Taking(o)'.slot].payload = Taking(o)'.offset
  BY <1>2 DEF Slots, Stays
<1>8. Slots'
  BY <1>6, <1>7 DEF Slots, Header
<1> QED BY <1>4, <1>8

\* The body takes payload memory that nobody has.
LEMMA BodyRegions ==
  ASSUME RecordTypes, Serves, Regions, got \subseteq RecordSet, NEW o \in Owners, BodyStep(o)
  PROVE  Regions'
<1>0. PcOf(o) \in BodyPcs /\ PcOf(o) \in Serving /\ got' = got
      /\ \A p \in Owners \ {o} : PcOf(p)' = PcOf(p) /\ Taking(p)' = Taking(p) /\ RegionEnd(p)' = RegionEnd(p)
  BY DEF BodyStep, Serving, RegionEnd
<1>1. /\ Taking(o)'.count = Taking(o).count
      /\ PcOf(o) = "payload" =>
           /\ mem'.payload = mem.payload + Align(Taking(o).count * RecordSize)
           /\ Taking(o)'.offset = mem.payload
      /\ PcOf(o) # "payload" => mem'.payload = mem.payload /\ Taking(o)'.offset = Taking(o).offset
  BY BodyEffects
<1>2. \A p \in Owners : \A r : Own(p, r)' <=> Own(p, r)
  BY DEF BodyStep
<1>3. Taking(o).count * RecordSize \in Nat
  BY <1>0, PlaceFacts
<1>4. Align(Taking(o).count * RecordSize) \in Nat /\ Taking(o).count * RecordSize <= Align(Taking(o).count * RecordSize)
      /\ mem.payload \in Aligned /\ mem.payload \in Nat
  <2>1. mem.payload \in Aligned
    BY DEF RecordTypes
  <2>2. Align(Taking(o).count * RecordSize) \in Aligned /\ Taking(o).count * RecordSize <= Align(Taking(o).count * RecordSize)
    BY <1>3, AlignFacts
  <2>3. \A a \in Aligned : a \in Nat
    BY AlignFacts
  <2> QED BY <2>1, <2>2, <2>3
<1>5. mem'.payload \in Nat /\ mem.payload <= mem'.payload
  <2> DEFINE a == Align(Taking(o).count * RecordSize)
  <2>1. a \in Nat /\ (mem'.payload = mem.payload + a \/ mem'.payload = mem.payload)
    BY <1>1, <1>4
  <2> HIDE DEF a
  <2> QED BY <1>4, <2>1
<1>6. RecordsDisjoint'
  <2>1. \A r \in got : r.offset >= 0 /\ RecordEnd(r) <= mem'.payload
    <3> TAKE r \in got
    <3>1. RecordEnd(r) <= mem.payload /\ r.offset >= 0
      BY DEF Regions, RecordsDisjoint
    <3>2. RecordEnd(r) \in Nat
      BY RecordFacts
    <3> QED BY <1>4, <1>5, <3>1, <3>2
  <2> QED BY <1>0, <2>1 DEF Regions, RecordsDisjoint
<1>7. \A p \in Owners : PcOf(p) \in Placed => RegionEnd(p) \in Nat /\ Taking(p).offset \in Nat /\ RegionEnd(p) <= mem.payload
  <2> SUFFICES ASSUME NEW p \in Owners, PcOf(p) \in Placed
               PROVE  RegionEnd(p) \in Nat /\ Taking(p).offset \in Nat /\ RegionEnd(p) <= mem.payload
    OBVIOUS
  <2>1. Taking(p).offset \in Aligned /\ RegionEnd(p) <= mem.payload
    BY DEF Regions
  <2>2. Taking(p).offset \in Nat
    BY <2>1, AlignFacts
  <2> QED BY <2>1, <2>2, PlaceFacts, PcSets
<1>8. CASE PcOf(o) = "payload"
  <2>1. /\ Taking(o)'.offset \in Aligned /\ RegionEnd(o)' <= mem'.payload
        /\ \A p \in Owners \ {o} : PcOf(p) \in Placed => RegionEnd(p) <= Taking(o)'.offset
        /\ \A r \in got : RecordEnd(r) <= Taking(o)'.offset
    <3>1. RegionEnd(o)' = mem.payload + Taking(o).count * RecordSize
      BY <1>1, <1>8 DEF RegionEnd
    <3>2. RegionEnd(o)' <= mem'.payload
      BY <1>1, <1>3, <1>4, <1>8, <3>1
    <3> QED BY <1>1, <1>4, <1>7, <1>8, <3>2 DEF Regions, RecordsDisjoint
  <2>2. ASSUME NEW p \in Owners, PcOf(p)' \in Placed, p # o
        PROVE  /\ Taking(p)'.offset \in Aligned /\ RegionEnd(p)' <= mem'.payload
               /\ \A q \in Owners \ {o} : q # p /\ PcOf(q)' \in Placed =>
                    RegionEnd(p)' <= Taking(q)'.offset \/ RegionEnd(q)' <= Taking(p)'.offset
               /\ \A r \in got : Own(p, r) \/ Apart(Taking(p).offset, RegionEnd(p), r)
    <3>1. PcOf(p) \in Placed /\ RegionEnd(p)' = RegionEnd(p) /\ Taking(p)' = Taking(p)
      BY <1>0, <2>2
    <3>2. RegionEnd(p) <= mem'.payload
      BY <1>4, <1>5, <1>7, <3>1
    <3> QED BY <1>0, <3>1, <3>2 DEF Regions
  <2>3. ASSUME NEW p \in Owners, PcOf(p)' \in Placed
        PROVE  /\ Taking(p)'.offset \in Aligned /\ RegionEnd(p)' <= mem'.payload
               /\ \A q \in Owners : q # p /\ PcOf(q)' \in Placed =>
                    RegionEnd(p)' <= Taking(q)'.offset \/ RegionEnd(q)' <= Taking(p)'.offset
               /\ \A r \in got' : Own(p, r)' \/ Apart(Taking(p)'.offset, RegionEnd(p)', r)
    <3>1. CASE p = o
      BY <1>0, <2>1, <3>1 DEF Apart
    <3>2. CASE p # o
      BY <1>0, <1>2, <2>1, <2>2, <2>3, <3>2
    <3> QED BY <3>1, <3>2
  <2> QED BY <1>6, <2>3 DEF Regions, Apart
<1>9. CASE PcOf(o) # "payload"
  <2>1. PcOf(o) \in Placed /\ RegionEnd(o)' = RegionEnd(o)
    BY <1>0, <1>1, <1>9 DEF Placed, BodyPcs, RegionEnd
  <2>2. \A p \in Owners : PcOf(p)' \in Placed =>
          PcOf(p) \in Placed /\ RegionEnd(p)' = RegionEnd(p) /\ Taking(p)'.offset = Taking(p).offset
    BY <1>0, <1>1, <1>9, <2>1
  <2>3. mem'.payload = mem.payload
    BY <1>1, <1>9
  <2>4. \A p \in Owners : PcOf(p)' \in Placed =>
          /\ Taking(p)'.offset \in Aligned /\ RegionEnd(p)' <= mem'.payload
          /\ \A q \in Owners : q # p /\ PcOf(q)' \in Placed =>
               RegionEnd(p)' <= Taking(q)'.offset \/ RegionEnd(q)' <= Taking(p)'.offset
          /\ \A r \in got' : Own(p, r)' \/ Apart(Taking(p)'.offset, RegionEnd(p)', r)
    BY <1>0, <1>2, <2>2, <2>3 DEF Regions
  <2> QED BY <1>6, <2>4 DEF Regions, Apart
<1> QED BY <1>8, <1>9

\* The body takes a list entry that nobody has, and writes no other.
LEMMA BodySlots ==
  ASSUME RecordTypes, Serves, Slots, NEW o \in Owners, BodyStep(o)
  PROVE  Slots'
<1>0. PcOf(o) \in BodyPcs /\ PcOf(o) \in Serving /\ got' = got
      /\ \A p \in Owners \ {o} : PcOf(p)' = PcOf(p) /\ Taking(p)' = Taking(p)
  BY DEF BodyStep, Serving
<1> DEFINE a == Taking(o)
           b == Taking(o)'
<1>1. /\ b.node = a.node /\ b.count = a.count
      /\ PcOf(o) # "payload" => b.offset = a.offset
      /\ PcOf(o) = "payload" => PcOf(o)' = "fused"
      /\ PcOf(o) \in {"payload", "total"} => mem'.list = mem.list
      /\ PcOf(o) = "fused" => PcOf(o)' = "total" /\ mem'.fused = mem.fused + 1 /\ b.slot = mem.fused
                              /\ \A i \in 0 .. mem.fused - 1 : mem'.list[i] = mem.list[i]
      /\ PcOf(o) # "fused" => mem'.fused = mem.fused /\ b.slot = a.slot
      /\ PcOf(o) = "total" => PcOf(o)' = "header"
      /\ PcOf(o) = "header" =>
           PcOf(o)' = "store" /\ mem'.list = [mem.list EXCEPT ![a.slot].header = Header(a.node, a.count)]
      /\ PcOf(o) = "store" =>
           PcOf(o)' = "merge" /\ mem'.list = [mem.list EXCEPT ![a.slot].payload = a.offset]
  BY BodyEffects
<1>2. mem.fused \in Nat /\ mem.list \in [0 .. mem.fused - 1 -> ListEntry]
  BY DEF RecordTypes
<1>3. \A p \in Owners : PcOf(p) \in Slotted =>
        /\ Taking(p).slot \in 0 .. mem.fused - 1
        /\ \A q \in Owners : q # p /\ PcOf(q) \in Slotted => Taking(q).slot # Taking(p).slot
  BY DEF Slots
\* The entries others use stay as they are.
<1>4. \A i \in 0 .. mem.fused - 1 : i # a.slot \/ PcOf(o) \notin Slotted =>
        mem'.list[i] = mem.list[i] /\ i \in 0 .. mem'.fused - 1
  <2>1. CASE PcOf(o) \in {"payload", "total"}
    BY <1>1, <2>1
  <2>2. CASE PcOf(o) = "fused"
    BY <1>1, <1>2, <2>2
  <2>3. CASE PcOf(o) \in {"header", "store"}
    BY <1>1, <1>2, <2>3 DEF Slotted, Placed
  <2> QED BY <1>0, <2>1, <2>2, <2>3 DEF BodyPcs
<1>5. PcOf(o)' \in Slotted => /\ b.slot \in 0 .. mem'.fused - 1
                              /\ \A i \in 0 .. mem.fused - 1 : PcOf(o) \notin Slotted => i # b.slot
                              /\ PcOf(o) \in Slotted => b.slot = a.slot
  <2>1. CASE PcOf(o) = "payload"
    BY <1>1, <2>1 DEF Slotted, Placed, Meeting
  <2>2. CASE PcOf(o) = "fused"
    BY <1>1, <1>2, <2>2 DEF Slotted
  <2>3. CASE PcOf(o) \in {"total", "header", "store"}
    BY <1>1, <1>3, <2>3 DEF Slotted, Placed
  <2> QED BY <1>0, <2>1, <2>2, <2>3 DEF BodyPcs
<1> HIDE DEF a, b
\* No two owners share an entry.
<1>6. \A p \in Owners : PcOf(p)' \in Slotted =>
        /\ Taking(p)'.slot \in 0 .. mem'.fused - 1
        /\ \A q \in Owners : q # p /\ PcOf(q)' \in Slotted => Taking(q)'.slot # Taking(p)'.slot
  <2>1. ASSUME NEW p \in Owners \ {o}, PcOf(p)' \in Slotted
        PROVE  /\ PcOf(p) \in Slotted /\ Taking(p)' = Taking(p)
               /\ Taking(p).slot \in 0 .. mem.fused - 1 /\ Taking(p).slot \in 0 .. mem'.fused - 1
               /\ PcOf(o) \in Slotted => Taking(p).slot # a.slot
    <3>1. PcOf(p) \in Slotted /\ Taking(p)' = Taking(p)
      BY <1>0, <2>1
    <3>2. Taking(p).slot \in 0 .. mem.fused - 1 /\ (PcOf(o) \in Slotted => Taking(p).slot # a.slot)
      BY <1>3, <3>1 DEF a
    <3> QED BY <1>4, <3>1, <3>2
  <2>2. ASSUME NEW p \in Owners \ {o}, PcOf(p)' \in Slotted, PcOf(o)' \in Slotted
        PROVE  Taking(p)'.slot # b.slot
    <3>1. CASE PcOf(o) \in Slotted
      BY <1>5, <2>1, <2>2, <3>1
    <3>2. CASE PcOf(o) \notin Slotted
      BY <1>5, <2>1, <2>2, <3>2
    <3> QED BY <3>1, <3>2
  <2>3. ASSUME NEW p \in Owners \ {o}, PcOf(p)' \in Slotted, NEW q \in Owners \ {o}, PcOf(q)' \in Slotted, p # q
        PROVE  Taking(p)'.slot # Taking(q)'.slot
    <3>1. /\ PcOf(p) \in Slotted /\ Taking(p)' = Taking(p)
          /\ PcOf(q) \in Slotted /\ Taking(q)' = Taking(q)
      BY <1>0, <2>3
    <3> QED BY <1>3, <2>3, <3>1
  <2> QED BY <1>5, <2>1, <2>2, <2>3 DEF b
\* What the entries hold.
<1>7. ASSUME NEW p \in Owners
      PROVE  /\ PcOf(p)' \in {"store", "merge"} \cup Meeting =>
                  mem'.list[Taking(p)'.slot].header = Header(Taking(p)'.node, Taking(p)'.count)
             /\ PcOf(p)' \in {"merge"} \cup Meeting => mem'.list[Taking(p)'.slot].payload = Taking(p)'.offset
  <2>1. CASE p # o
    <3>1. PcOf(p)' = PcOf(p) /\ Taking(p)' = Taking(p)
      BY <1>0, <2>1
    <3>2. PcOf(p) \in {"store", "merge"} \cup Meeting => mem'.list[Taking(p).slot] = mem.list[Taking(p).slot]
      <4>1. PcOf(p) \in {"store", "merge"} \cup Meeting => PcOf(p) \in Slotted
        BY PcSets
      <4> QED BY <1>3, <1>4, <2>1, <4>1 DEF a
    <3>3. /\ PcOf(p) \in {"store", "merge"} \cup Meeting =>
               mem.list[Taking(p).slot].header = Header(Taking(p).node, Taking(p).count)
          /\ PcOf(p) \in {"merge"} \cup Meeting =>
               /\ PcOf(p) \in {"store", "merge"} \cup Meeting
               /\ mem.list[Taking(p).slot].payload = Taking(p).offset
      <4>1. PcOf(p) \in {"store", "merge"} \cup Meeting => PcOf(p) \in Slotted
        BY PcSets
      <4>2. PcOf(p) \in {"merge"} \cup Meeting => PcOf(p) \in {"store", "merge"} \cup Meeting
        OBVIOUS
      <4> QED BY <4>1, <4>2 DEF Slots
    <3> DEFINE tp == Taking(p)
               pp == PcOf(p)
    <3>4. Taking(p)' = tp /\ PcOf(p)' = pp
      BY <3>1
    <3>5. /\ pp \in {"store", "merge"} \cup Meeting => mem'.list[tp.slot].header = Header(tp.node, tp.count)
          /\ pp \in {"merge"} \cup Meeting => mem'.list[tp.slot].payload = tp.offset
      BY <3>2, <3>3
    <3> HIDE DEF tp, pp
    <3> QED BY <3>4, <3>5
  <2>2. CASE p = o /\ PcOf(o) \in {"payload", "fused", "total"}
    BY <1>1, <2>2 DEF Meeting
  <2>3. CASE p = o /\ PcOf(o) = "header"
    <3>1. a.slot \in 0 .. mem.fused - 1
      BY <1>3, <2>3 DEF Slotted, Placed, a
    <3>2. mem'.list[a.slot].header = Header(a.node, a.count)
      BY <1>1, <1>2, <2>3, <3>1 DEF ListEntry
    <3> QED BY <1>1, <2>3, <3>2 DEF Meeting, b
  <2>4. CASE p = o /\ PcOf(o) = "store"
    <3>1. a.slot \in 0 .. mem.fused - 1 /\ mem.list[a.slot].header = Header(a.node, a.count)
      BY <2>4 DEF Slots, Slotted, Placed, a
    <3>2. mem'.list[a.slot].header = Header(a.node, a.count) /\ mem'.list[a.slot].payload = a.offset
      BY <1>1, <1>2, <2>4, <3>1 DEF ListEntry
    <3>3. b.slot = a.slot /\ b.offset = a.offset /\ b.node = a.node /\ b.count = a.count
      BY <1>1, <2>4
    <3> QED BY <2>4, <3>2, <3>3 DEF b
  <2> QED BY <1>0, <2>1, <2>2, <2>3, <2>4 DEF BodyPcs
\* Records stay on the list.
<1>8. \A r \in got' : r.count > 0 =>
        \E i \in 0 .. mem'.fused - 1 :
          Covers(i, r)' /\ \A p \in Owners : PcOf(p)' \in Writing => Taking(p)'.slot # i
  <2> SUFFICES ASSUME NEW r \in got, r.count > 0
               PROVE  \E i \in 0 .. mem'.fused - 1 :
                        Covers(i, r)' /\ \A p \in Owners : PcOf(p)' \in Writing => Taking(p)'.slot # i
    BY <1>0
  <2>1. PICK i \in 0 .. mem.fused - 1 : Covers(i, r) /\ \A p \in Owners : PcOf(p) \in Writing => Taking(p).slot # i
    BY DEF Slots
  <2>2. i # a.slot \/ PcOf(o) \notin Slotted
    BY <1>0, <2>1 DEF Slotted, Placed, Writing, Meeting, BodyPcs, a
  <2>3. mem'.list[i] = mem.list[i] /\ i \in 0 .. mem'.fused - 1
    BY <1>4, <2>2
  <2>4. Covers(i, r)'
    BY <2>1, <2>3 DEF Covers
  <2>5. ASSUME NEW p \in Owners, PcOf(p)' \in Writing PROVE Taking(p)'.slot # i
    <3>1. CASE p # o
      BY <1>0, <2>1, <2>5, <3>1
    <3>2. CASE p = o
      <4>1. PcOf(o)' \in Slotted
        BY <2>5, <3>2, PcSets
      <4> QED BY <1>5, <2>2, <3>2, <4>1 DEF b
    <3> QED BY <3>1, <3>2
  <2> QED BY <2>3, <2>4, <2>5
<1> QED BY <1>6, <1>7, <1>8 DEF Slots, Header

-----------------------------------------------------------------------------
\* Owner o gives out records N of what it allocated.
Gives(o, N) ==
  /\ PcOf(o) \in {"merge"} \cup Meeting /\ mem' = mem /\ got' = got \cup N /\ N \subseteq RecordSet
  /\ \A r \in N : /\ r.node = Taking(o).node /\ Taking(o).offset <= r.offset /\ RecordEnd(r) <= RegionEnd(o)
                  /\ \A q \in N : IF q.who = r.who THEN q = r
                                  ELSE RecordEnd(r) <= q.offset \/ RecordEnd(q) <= r.offset
                                       \/ r.count = 0 \/ q.count = 0
                  /\ \A q \in got : q.who = r.who \/ Own(o, q) => q = r
  /\ \/ PcOf(o)' \notin Placed
     \/ PcOf(o)' \in {"merge"} \cup Meeting /\ Taking(o)' = Taking(o) /\ \A r \in N : Own(o, r)'
  /\ \A p \in Owners \ {o} : PcOf(p)' = PcOf(p) /\ Taking(p)' = Taking(p)
  /\ \A p \in Owners, r \in got : PcOf(p)' \in Placed => (Own(p, r)' <=> Own(p, r))

\* Records that are given out lie in the memory of their allocation.
LEMMA GivesRegions ==
  ASSUME RecordTypes, Serves, Regions, got \subseteq RecordSet, NEW o \in Owners, NEW N, Gives(o, N)
  PROVE  Regions'
<1>1. PcOf(o) \in Placed /\ Taking(o).offset \in Nat /\ RegionEnd(o) \in Nat /\ RegionEnd(o) <= mem.payload
  <2>1. PcOf(o) \in Placed /\ PcOf(o) \in Serving \cup Meeting
    BY DEF Gives, Placed, Serving, Meeting
  <2>2. Taking(o).offset \in Aligned
    BY <2>1 DEF Regions
  <2>3. Taking(o).offset \in Nat
    BY <2>2, AlignFacts
  <2> QED BY <2>1, <2>3, PlaceFacts DEF Regions
<1>2. mem.payload \in Nat
  BY AlignFacts DEF RecordTypes
<1>3. \A r \in N : r.offset \in Nat /\ RecordEnd(r) \in Nat /\ r.offset <= RecordEnd(r)
  BY RecordFacts DEF Gives
<1>4. \A r \in got : r.offset \in Nat /\ RecordEnd(r) \in Nat /\ r.offset <= RecordEnd(r)
  BY RecordFacts
<1>5. RecordsDisjoint'
  <2>1. \A r \in N : r.offset >= 0 /\ RecordEnd(r) <= mem.payload
    BY <1>1, <1>2, <1>3 DEF Gives
  <2>2. ASSUME NEW r \in N, NEW q \in got
        PROVE  IF r.who = q.who THEN r = q
               ELSE RecordEnd(r) <= q.offset \/ RecordEnd(q) <= r.offset \/ r.count = 0 \/ q.count = 0
    <3>1. CASE r.who = q.who \/ Own(o, q)
      BY <3>1 DEF Gives
    <3>2. CASE r.who # q.who /\ ~ Own(o, q)
      <4>1. RegionEnd(o) <= q.offset \/ RecordEnd(q) <= Taking(o).offset \/ q.count = 0
        BY <1>1, <3>2 DEF Regions, Apart
      <4>2. Taking(o).offset <= r.offset /\ RecordEnd(r) <= RegionEnd(o)
        BY DEF Gives
      <4> QED BY <1>1, <1>3, <1>4, <3>2, <4>1, <4>2
    <3> QED BY <3>1, <3>2
  <2>3. \A r, q \in N : IF r.who = q.who THEN r = q
                        ELSE RecordEnd(r) <= q.offset \/ RecordEnd(q) <= r.offset \/ r.count = 0 \/ q.count = 0
    BY DEF Gives
  <2>4. got' = got \cup N /\ mem' = mem
    BY DEF Gives
  <2>5. \A r \in got' : r.offset >= 0 /\ RecordEnd(r) <= mem'.payload
    BY <2>1, <2>4 DEF Regions, RecordsDisjoint
  <2>6. \A r, q \in got' : IF r.who = q.who THEN r = q
                        ELSE RecordEnd(r) <= q.offset \/ RecordEnd(q) <= r.offset \/ r.count = 0 \/ q.count = 0
    <3> SUFFICES ASSUME NEW r \in got', NEW q \in got'
                 PROVE  IF r.who = q.who THEN r = q
                        ELSE RecordEnd(r) <= q.offset \/ RecordEnd(q) <= r.offset \/ r.count = 0 \/ q.count = 0
      OBVIOUS
    <3>1. CASE r \in got /\ q \in got
      BY <3>1 DEF Regions, RecordsDisjoint
    <3>2. CASE r \in N /\ q \in got
      BY <2>2, <3>2
    <3>3. CASE r \in got /\ q \in N
      <4>1. IF q.who = r.who THEN q = r
            ELSE RecordEnd(q) <= r.offset \/ RecordEnd(r) <= q.offset \/ q.count = 0 \/ r.count = 0
        BY <2>2, <3>3
      <4> QED BY <4>1
    <3>4. CASE r \in N /\ q \in N
      BY <2>3, <3>4
    <3> QED BY <2>4, <3>1, <3>2, <3>3, <3>4
  <2> QED BY <2>5, <2>6 DEF RecordsDisjoint, RecordEnd
<1>6. \A p \in Owners : PcOf(p)' \in Placed =>
        PcOf(p) \in Placed /\ Taking(p)' = Taking(p) /\ RegionEnd(p)' = RegionEnd(p)
  BY <1>1 DEF Gives, RegionEnd
<1>7. ASSUME NEW p \in Owners, PcOf(p)' \in Placed, NEW r \in got'
      PROVE  Own(p, r)' \/ Apart(Taking(p).offset, RegionEnd(p), r)
  <2>1. CASE r \in got
    BY <1>6, <1>7, <2>1 DEF Regions, Gives
  <2>2. CASE r \in N /\ p = o
    BY <1>7, <2>2 DEF Gives
  <2>3. CASE r \in N /\ p # o
    <3>1. PcOf(p) \in Placed
      BY <1>6, <1>7
    <3>2. RegionEnd(o) <= Taking(p).offset \/ RegionEnd(p) <= Taking(o).offset
      BY <1>1, <2>3, <3>1 DEF Regions
    <3>3. Taking(o).offset <= r.offset /\ RecordEnd(r) <= RegionEnd(o)
      BY <2>3 DEF Gives
    <3>4. Taking(p).offset \in Nat /\ RegionEnd(p) \in Nat
      <4>1. Taking(p).offset \in Aligned /\ PcOf(p) \in Serving \cup Meeting
        BY <3>1, PcSets DEF Regions
      <4>2. Taking(p).offset \in Nat
        BY <4>1, AlignFacts
      <4> QED BY <4>1, <4>2, PlaceFacts
    <3>5. r.offset \in Nat /\ RecordEnd(r) \in Nat
      BY <1>3, <2>3
    <3> QED BY <1>1, <3>2, <3>3, <3>4, <3>5 DEF Apart
  <2> QED BY <2>1, <2>2, <2>3 DEF Gives
<1>8. \A p \in Owners : PcOf(p)' \in Placed =>
        /\ Taking(p)'.offset \in Aligned /\ RegionEnd(p)' <= mem'.payload
        /\ \A q \in Owners : q # p /\ PcOf(q)' \in Placed =>
             RegionEnd(p)' <= Taking(q)'.offset \/ RegionEnd(q)' <= Taking(p)'.offset
        /\ \A r \in got' : Own(p, r)' \/ Apart(Taking(p)'.offset, RegionEnd(p)', r)
  <2>1. mem' = mem
    BY DEF Gives
  <2> QED BY <1>6, <1>7, <2>1 DEF Regions
<1> QED BY <1>5, <1>8 DEF Regions, Apart

\* Records that are given out are on the list, in the entry of their allocation.
LEMMA GivesSlots ==
  ASSUME RecordTypes, Serves, Regions, Slots, got \subseteq RecordSet, NEW o \in Owners, NEW N, Gives(o, N)
  PROVE  Slots'
<1>0. mem' = mem /\ got' = got \cup N
  BY DEF Gives
<1>1. ASSUME NEW p \in Owners, PcOf(p)' \in Placed
      PROVE  /\ Taking(p)' = Taking(p)
             /\ \/ PcOf(p)' = PcOf(p)
                \/ PcOf(p) \in {"merge"} \cup Meeting /\ PcOf(p)' \in {"merge"} \cup Meeting
  <2>1. CASE p = o
    BY <1>1, <2>1 DEF Gives
  <2>2. CASE p # o
    BY <2>2 DEF Gives
  <2> QED BY <2>1, <2>2
<1>2. \A p \in Owners :
        /\ PcOf(p)' \in Slotted => PcOf(p) \in Slotted /\ Taking(p)' = Taking(p)
        /\ PcOf(p)' \in {"store", "merge"} \cup Meeting => PcOf(p) \in {"store", "merge"} \cup Meeting
        /\ PcOf(p)' \in {"merge"} \cup Meeting => PcOf(p) \in {"merge"} \cup Meeting
        /\ PcOf(p)' \in Writing => PcOf(p) \in Writing /\ Taking(p)' = Taking(p)
  BY <1>1, PcSets DEF Placed, Meeting, Slotted, Writing
<1>3. \A i, r : Covers(i, r)' <=> Covers(i, r)
  BY <1>0 DEF Covers
<1>4. ASSUME NEW r \in got', r.count > 0
      PROVE  \E i \in 0 .. mem.fused - 1 : Covers(i, r) /\ \A p \in Owners : PcOf(p) \in Writing => Taking(p).slot # i
  <2>1. CASE r \in got
    BY <1>4, <2>1 DEF Slots
  <2>2. CASE r \in N
    <3> DEFINE a == Taking(o)
    <3>1. PcOf(o) \in {"merge"} \cup Meeting /\ PcOf(o) \in Serving \cup Meeting /\ PcOf(o) \in Placed
          /\ PcOf(o) \in Slotted /\ PcOf(o) \notin Writing /\ PcOf(o) \in {"store", "merge"} \cup Meeting
      BY PcSets DEF Gives, Serving
    <3>2. a.node \in Nat /\ a.count \in 1 .. CountRange /\ a.offset \in Aligned
      BY <3>1, ServingFacts DEF Regions
    <3>3. /\ mem.list[a.slot].header = Header(a.node, a.count) /\ mem.list[a.slot].payload = a.offset
          /\ a.slot \in 0 .. mem.fused - 1
      BY <3>1 DEF Slots
    <3>4. HeaderNode(Header(a.node, a.count)) = a.node /\ HeaderCount(Header(a.node, a.count)) = a.count
      BY <3>2, HeaderFacts
    <3>5. a.offset \in Nat /\ a.offset % Alignment = 0
      BY <3>2, AlignFacts
    <3>6. r.node = a.node /\ a.offset <= r.offset /\ RecordEnd(r) <= a.offset + a.count * RecordSize
      BY <2>2 DEF Gives, RegionEnd
    <3>7. a.offset # Unset
      BY <3>5 DEF Unset
    <3> HIDE DEF a
    <3>8. Covers(a.slot, r)
      BY <3>3, <3>4, <3>5, <3>6, <3>7 DEF Covers
    <3>9. \A p \in Owners : PcOf(p) \in Writing => Taking(p).slot # a.slot
      <4>1. \A p \in Owners : PcOf(p) \in Writing => PcOf(p) \in Slotted /\ p # o
        BY <3>1, PcSets
      <4> QED BY <3>1, <4>1 DEF Slots, a
    <3> QED BY <3>3, <3>8, <3>9
  <2> QED BY <1>0, <2>1, <2>2
<1>5. \A r \in got' : r.count > 0 =>
       \E i \in 0 .. mem'.fused - 1 :
         Covers(i, r)' /\ \A p \in Owners : PcOf(p)' \in Writing => Taking(p)'.slot # i
  <2> SUFFICES ASSUME NEW r \in got', r.count > 0
               PROVE  \E i \in 0 .. mem'.fused - 1 :
                        Covers(i, r)' /\ \A p \in Owners : PcOf(p)' \in Writing => Taking(p)'.slot # i
    OBVIOUS
  <2>1. PICK i \in 0 .. mem.fused - 1 : Covers(i, r) /\ \A p \in Owners : PcOf(p) \in Writing => Taking(p).slot # i
    BY <1>4
  <2>2. Covers(i, r)' /\ \A p \in Owners : PcOf(p)' \in Writing => Taking(p)'.slot # i
    BY <1>2, <1>3, <2>1
  <2> QED BY <1>0, <2>2
<1>6. \A p \in Owners : PcOf(p)' \in Slotted =>
       /\ Taking(p)'.slot \in 0 .. mem'.fused - 1
       /\ \A q \in Owners : q # p /\ PcOf(q)' \in Slotted => Taking(q)'.slot # Taking(p)'.slot
       /\ PcOf(p)' \in {"store", "merge"} \cup Meeting =>
            mem'.list[Taking(p)'.slot].header = Header(Taking(p)'.node, Taking(p)'.count)
       /\ PcOf(p)' \in {"merge"} \cup Meeting => mem'.list[Taking(p)'.slot].payload = Taking(p)'.offset
  BY <1>0, <1>2 DEF Slots
<1> QED BY <1>5, <1>6 DEF Slots, Header

-----------------------------------------------------------------------------
(* What was given, where it is, and where it is listed.                    *)

Memory == Given /\ Regions /\ Slots

\* No record is given, and nobody who gave some takes more for the same call.
LEMMA GivenStays ==
  ASSUME Given, want' = want, got' = got,
         \A w \in Waves : wave'[w].looping \subseteq wave[w].looping,
         \A g \in Groups :
           /\ thread[g][0].call \in Nat /\ thread'[g][0].call \in Nat
           /\ thread[g][0].call <= thread'[g][0].call
           /\ thread[g][0].call = thread'[g][0].call /\ thread[g][0].pc \in Meeting =>
                thread'[g][0].pc \in Meeting /\ thread'[g][0].alloc = thread[g][0].alloc
  PROVE  Given'
<1>1. got' \subseteq [who : Owners \X Nat, node : Nodes, count : 0 .. CountRange, offset : Nat]
  BY DEF Given
<1>2. ASSUME NEW r \in got, r.who[1] \in Waves
      PROVE  r.who[2] \in DOMAIN Lane(r.who[1])' \ wave'[r.who[1]].looping
  <2>1. r.who[2] \in DOMAIN Lane(r.who[1]) \ wave[r.who[1]].looping
    BY <1>2 DEF Given
  <2> QED BY <1>2, <2>1 DEF Lane
<1>3. ASSUME NEW r \in got, r.who[1] \notin Waves
      PROVE  /\ r.who[2] <= thread'[r.who[1]][0].call
             /\ r.who[2] = thread'[r.who[1]][0].call =>
                  /\ thread'[r.who[1]][0].pc \in Meeting
                  /\ r.node = thread'[r.who[1]][0].alloc.node /\ r.count = thread'[r.who[1]][0].alloc.count
                  /\ r.offset = thread'[r.who[1]][0].alloc.offset
  <2> DEFINE g == r.who[1]
             k == r.who[2]
             a == thread[g][0]
             b == thread'[g][0]
  <2>1. g \in Groups /\ k \in Nat
    BY <1>1, <1>3 DEF Owners
  <2>2. k <= a.call /\ (k = a.call => /\ a.pc \in Meeting /\ r.node = a.alloc.node
                                      /\ r.count = a.alloc.count /\ r.offset = a.alloc.offset)
    BY <1>3 DEF Given
  <2>3. a.call \in Nat /\ b.call \in Nat /\ a.call <= b.call
        /\ (a.call = b.call /\ a.pc \in Meeting => b.pc \in Meeting /\ b.alloc = a.alloc)
    BY <2>1
  <2> HIDE DEF g, k, a, b
  <2>4. k <= b.call /\ (k = b.call => /\ b.pc \in Meeting /\ r.node = b.alloc.node
                                      /\ r.count = b.alloc.count /\ r.offset = b.alloc.offset)
    BY <2>1, <2>2, <2>3
  <2> QED BY <2>4 DEF b, g, k
<1>4. \A r \in got' :
        IF r.who[1] \in Waves THEN r.who[2] \in DOMAIN Lane(r.who[1])' \ wave'[r.who[1]].looping
        ELSE /\ r.who[2] <= thread'[r.who[1]][0].call
             /\ r.who[2] = thread'[r.who[1]][0].call =>
                  /\ thread'[r.who[1]][0].pc \in Meeting
                  /\ r.node = thread'[r.who[1]][0].alloc.node /\ r.count = thread'[r.who[1]][0].alloc.count
                  /\ r.offset = thread'[r.who[1]][0].alloc.offset
  BY <1>2, <1>3
<1> QED BY <1>1, <1>4 DEF Given, Owners

\* A wave that neither allocates nor gives.
LEMMA WaveKeepsMemory ==
  ASSUME RecordTypes, Serves, Memory, want' = want, thread' = thread, got' = got,
         mem'.payload = mem.payload, mem'.fused = mem.fused, mem'.list = mem.list,
         NEW w \in Waves, NEW v \in WaveType, wave' = [wave EXCEPT ![w] = v],
         v.pc \notin Placed, v.looping \subseteq wave[w].looping
  PROVE  Memory'
<1>1. wave'[w] = v /\ \A u \in Waves \ {w} : wave'[u] = wave[u]
  BY DEF RecordTypes
<1>2. \A u \in Waves : wave'[u].looping \subseteq wave[u].looping
  BY <1>1
<1>3. \A g \in Groups : thread[g][0].call \in Nat
  BY OwnerFacts DEF RecordTypes
<1>4. Given'
  BY <1>2, <1>3, GivenStays DEF Memory
<1>5. PcOf(w)' = v.pc /\ \A o \in Owners \ {w} : PcOf(o)' = PcOf(o) /\ Taking(o)' = Taking(o)
  BY <1>1 DEF PcOf, Taking, Owners
<1>6. \A o \in Owners : \A r \in got : Own(o, r)' <=> Own(o, r)
  BY DEF Own
<1>7. Stays
  BY <1>5, <1>6 DEF Stays
<1> QED BY <1>4, <1>7, MemoryStays DEF Memory

\* A thread that neither allocates nor gives.
LEMMA ThreadKeepsMemory ==
  ASSUME RecordTypes, Serves, Memory, want' = want, wave' = wave, got' = got,
         mem'.payload = mem.payload, mem'.fused = mem.fused, mem'.list = mem.list,
         NEW g \in Groups, NEW t \in Thread, NEW v \in ThreadType, thread' = [thread EXCEPT ![g][t] = v],
         t = 0 => \/ v.pc \notin Placed /\ thread[g][0].pc \notin Meeting /\ v.call = thread[g][0].call
                  \/ v.pc \notin Placed /\ v.call = thread[g][0].call + 1
                  \/ /\ thread[g][0].pc \in {"merge"} \cup Meeting /\ v.pc \in Meeting
                     /\ v.alloc = thread[g][0].alloc /\ v.call = thread[g][0].call
  PROVE  Memory'
<1> DEFINE a == thread[g][0]
           b == thread'[g][0]
<1>1. 0 \in Thread /\ thread[g] \in [Thread -> ThreadType] /\ a.call \in Nat
      /\ \A h \in Groups \ {g} : thread'[h] = thread[h]
  BY OwnerFacts DEF RecordTypes, ThreadType
<1>2. \/ b = a
      \/ b.pc \notin Placed /\ a.pc \notin Meeting /\ b.call = a.call
      \/ b.pc \notin Placed /\ b.call = a.call + 1
      \/ a.pc \in {"merge"} \cup Meeting /\ b.pc \in Meeting /\ b.alloc = a.alloc /\ b.call = a.call
  <2>1. CASE t = 0
    <3>1. b = v
      BY <1>1, <2>1 DEF RecordTypes
    <3> QED BY <2>1, <3>1
  <2>2. CASE t # 0
    BY <1>1, <2>2 DEF RecordTypes
  <2> QED BY <2>1, <2>2
<1>3. PcOf(g)' = b.pc /\ PcOf(g) = a.pc /\ Taking(g)' = b.alloc /\ Taking(g) = a.alloc
      /\ \A o \in Owners \ {g} : PcOf(o)' = PcOf(o) /\ Taking(o)' = Taking(o)
  BY <1>1, OwnerFacts DEF PcOf, Taking, Owners
<1>4. \A o \in Owners : \A r \in got : (o # g \/ b.call = a.call) => (Own(o, r)' <=> Own(o, r))
  BY <1>1 DEF Own
<1>5. \A h \in Groups :
        /\ thread[h][0].call \in Nat /\ thread'[h][0].call \in Nat
        /\ thread[h][0].call <= thread'[h][0].call
        /\ thread[h][0].call = thread'[h][0].call /\ thread[h][0].pc \in Meeting =>
             thread'[h][0].pc \in Meeting /\ thread'[h][0].alloc = thread[h][0].alloc
  <2>1. \A h \in Groups \ {g} : thread'[h] = thread[h] /\ thread[h][0].call \in Nat
    BY <1>1 DEF RecordTypes
  <2>2. b.call \in Nat /\ a.call <= b.call /\ (a.call = b.call /\ a.pc \in Meeting => b.pc \in Meeting /\ b.alloc = a.alloc)
    <3> HIDE DEF a, b
    <3> QED BY <1>1, <1>2
  <2>3. ASSUME NEW h \in Groups
        PROVE  /\ thread[h][0].call \in Nat /\ thread'[h][0].call \in Nat
               /\ thread[h][0].call <= thread'[h][0].call
               /\ thread[h][0].call = thread'[h][0].call /\ thread[h][0].pc \in Meeting =>
                    thread'[h][0].pc \in Meeting /\ thread'[h][0].alloc = thread[h][0].alloc
    <3>1. CASE h = g
      BY <1>1, <2>2, <3>1
    <3>2. CASE h # g
      BY <2>1, <3>2
    <3> QED BY <3>1, <3>2
  <2> QED BY <2>3
<1>6. Given'
  BY <1>5, GivenStays DEF Memory
<1> HIDE DEF a, b
<1>7. Stays
  <2>1. PcOf(g)' \in Placed =>
       /\ PcOf(g)' = PcOf(g) \/ (PcOf(g) \in {"merge"} \cup Meeting /\ PcOf(g)' \in Meeting)
       /\ Taking(g)' = Taking(g) /\ b.call = a.call
    BY <1>2, <1>3
  <2>2. ASSUME NEW o \in Owners, PcOf(o)' \in Placed
        PROVE  /\ PcOf(o)' = PcOf(o) \/ (PcOf(o) \in {"merge"} \cup Meeting /\ PcOf(o)' \in Meeting)
               /\ Taking(o)' = Taking(o) /\ \A r \in got : Own(o, r)' <=> Own(o, r)
    <3>1. CASE o = g
      BY <1>4, <2>1, <2>2, <3>1
    <3>2. CASE o # g
      BY <1>3, <1>4, <3>2
    <3> QED BY <3>1, <3>2
  <2> QED BY <2>2 DEF Stays
<1> QED BY <1>6, <1>7, MemoryStays DEF Memory

-----------------------------------------------------------------------------
(* Where each step takes a wave or a thread.                               *)

\* Where entering a call takes a wave.
LEMMA EnterCallMoves ==
  ASSUME RecordTypes, Serves, NEW w \in Waves, EnterCall(w)
  PROVE  \E v \in WaveType :
           /\ wave' = [wave EXCEPT ![w] = v]
           /\ \/ v.pc = "loop" /\ v.looping = wave[w].looping \ Agreeing(w) /\ Total(w, Agreeing(w)) = 0
              \/ v.pc = "payload" /\ v.looping = wave[w].looping
<1> DEFINE v == Entered(w, Agreeing(w))
<1>1. wave' = [wave EXCEPT ![w] = v] /\ wave[w].pc = "loop" /\ wave[w] \in WaveType
  BY TypeFacts DEF EnterCall
<1>2. v \in WaveType
  <2>1. RecordTypes' /\ wave'[w] = v
    BY <1>1, EnterCallTypes DEF RecordTypes
  <2> QED BY <2>1 DEF RecordTypes, WaveType
<1>3. CASE Total(w, Agreeing(w)) = 0
  <2>1. v = [wave[w] EXCEPT !.looping = @ \ Agreeing(w)]
    BY <1>3 DEF Entered
  <2> HIDE DEF v
  <2>2. v.pc = "loop" /\ v.looping = wave[w].looping \ Agreeing(w)
    BY <1>1, <2>1 DEF WaveType
  <2> QED BY <1>1, <1>2, <1>3, <2>2
<1>4. CASE Total(w, Agreeing(w)) # 0
  <2> DEFINE a == [Nothing EXCEPT !.node = Lane(w)[Min(Agreeing(w))].node, !.count = Total(w, Agreeing(w))]
  <2>1. v = [wave[w] EXCEPT !.call = Agreeing(w), !.pc = "payload", !.alloc = a]
    BY <1>4 DEF Entered
  <2> HIDE DEF v, a
  <2>2. v.pc = "payload" /\ v.looping = wave[w].looping
    BY <1>1, <2>1 DEF WaveType
  <2> QED BY <1>1, <1>2, <2>2
<1> QED BY <1>3, <1>4

\* Where starting an allocation takes a thread.
LEMMA StartAllocateMoves ==
  ASSUME RecordTypes, Serves, NEW g \in Groups, NEW t \in Thread, StartAllocate(g, t)
  PROVE  \E v \in ThreadType :
           /\ thread' = [thread EXCEPT ![g][t] = v] /\ v.last = thread[g][t].last
           /\ \/ v.pc = "enter" /\ v.call = thread[g][t].call + 1 /\ Empty(g, t)
              \/ v.pc = (IF t = 0 THEN "payload" ELSE "wait") /\ v.call = thread[g][t].call /\ ~ Empty(g, t)
<1> DEFINE v == Started(g, t)
<1>1. thread' = [thread EXCEPT ![g][t] = v] /\ thread[g][t] \in ThreadType
  BY TypeFacts DEF StartAllocate
<1>2. v \in ThreadType
  <2>1. RecordTypes' /\ thread'[g][t] = v
    BY <1>1, StartAllocateTypes DEF RecordTypes
  <2> QED BY <2>1 DEF RecordTypes, ThreadType
<1>3. CASE Empty(g, t)
  <2>1. v = NextCall(thread[g][t])
    BY <1>3 DEF Started
  <2>2. v.pc = "enter" /\ v.call = thread[g][t].call + 1 /\ v.last = thread[g][t].last
    BY <1>1, <2>1, StepFacts
  <2> HIDE DEF v
  <2> QED BY <1>1, <1>2, <1>3, <2>2
<1>4. CASE ~ Empty(g, t) /\ t = 0
  <2> DEFINE a == [Nothing EXCEPT !.node = Current(g, t).node, !.count = Current(g, t).count]
  <2>1. v = [thread[g][t] EXCEPT !.pc = "payload", !.alloc = a]
    BY <1>4 DEF Started
  <2> HIDE DEF v, a
  <2>2. v.pc = "payload" /\ v.call = thread[g][t].call /\ v.last = thread[g][t].last
    BY <1>1, <2>1 DEF ThreadType
  <2> QED BY <1>1, <1>2, <1>4, <2>2
<1>5. CASE ~ Empty(g, t) /\ t # 0
  <2>1. v = Arrive(thread[g][t], "wait")
    BY <1>5 DEF Started
  <2> HIDE DEF v
  <2>2. v.pc = "wait" /\ v.call = thread[g][t].call /\ v.last = thread[g][t].last
    BY <1>1, <2>1, StepFacts DEF Meeting
  <2> QED BY <1>1, <1>2, <1>5, <2>2
<1> QED BY <1>3, <1>4, <1>5

\* Where starting to finish takes a thread.
LEMMA StartFinishMoves ==
  ASSUME RecordTypes, Serves, NEW g \in Groups, NEW t \in Thread, StartFinish(g, t)
  PROVE  \E v \in ThreadType :
           /\ thread' = [thread EXCEPT ![g][t] = v] /\ v.call = thread[g][t].call
           /\ IF t = 0 THEN v.pc = "publish" /\ v.last = IsLast(mem.cookie) ELSE v.pc = "finish"
<1>0. thread \in [Groups -> [Thread -> ThreadType]] /\ thread[g][t] \in ThreadType
  BY DEF RecordTypes, ThreadType
<1>1. RecordTypes'
  BY StartFinishTypes
<1>2. CASE t = 0
  <2> DEFINE v == [thread[g][t] EXCEPT !.pc = "publish", !.last = IsLast(mem.cookie)]
  <2>1. thread' = [thread EXCEPT ![g][0].pc = "publish", ![g][0].last = IsLast(mem.cookie)]
    BY <1>2 DEF StartFinish
  <2>2. thread' = [thread EXCEPT ![g][t] = v]
    BY <1>0, <1>2, <2>1 DEF ThreadType
  <2>3. v.call = thread[g][t].call /\ v.pc = "publish" /\ v.last = IsLast(mem.cookie)
    BY <1>0 DEF ThreadType
  <2> HIDE DEF v
  <2>4. v \in ThreadType
    <3>1. thread'[g][t] = v
      BY <1>0, <2>2
    <3> QED BY <1>1, <3>1 DEF RecordTypes, ThreadType
  <2> QED BY <1>2, <2>2, <2>3, <2>4
<1>3. CASE t # 0
  <2> DEFINE v == Arrive(thread[g][t], "finish")
  <2>1. thread' = [thread EXCEPT ![g][t] = v]
    BY <1>3 DEF StartFinish
  <2>2. v \in ThreadType /\ v.call = thread[g][t].call /\ v.pc = "finish"
    BY <1>0, StepFacts DEF Finishing
  <2> HIDE DEF v
  <2> QED BY <1>3, <2>1, <2>2
<1> QED BY <1>2, <1>3

\* Where the last barrier takes a thread.
LEMMA ReadLastMoves ==
  ASSUME RecordTypes, Serves, Met, NEW g \in Groups, NEW t \in Thread, ReadLast(g, t)
  PROVE  \E v \in ThreadType :
           /\ thread' = [thread EXCEPT ![g][t] = v] /\ v.call = thread[g][t].call /\ v.pc = "done"
           /\ t = 0 => v.last = thread[g][0].last
<1>0. thread \in [Groups -> [Thread -> ThreadType]] /\ thread[g][t] \in ThreadType
  BY DEF RecordTypes, ThreadType
<1>1. RecordTypes' /\ thread[g][t].pc = "finish"
  BY ReadLastTypes DEF ReadLast
<1> DEFINE v == [thread[g][t] EXCEPT !.pc = "done", !.last = shared[g].last]
<1>2. thread' = [thread EXCEPT ![g][t] = v]
  BY <1>0 DEF ReadLast, ThreadType
<1>3. v.call = thread[g][t].call /\ v.pc = "done" /\ v.last = shared[g].last
  BY <1>0 DEF ThreadType
<1> HIDE DEF v
<1>4. v \in ThreadType
  <2>1. thread'[g][t] = v
    BY <1>0, <1>2
  <2> QED BY <1>1, <2>1 DEF RecordTypes, ThreadType
<1>5. t = 0 => shared[g].last = thread[g][0].last
  BY <1>1 DEF Met, Shares
<1> QED BY <1>2, <1>3, <1>4, <1>5

-----------------------------------------------------------------------------
(* Memory, step by step.                                                   *)

\* Lanes enter a call: records, payloads and list stay apart.
LEMMA EnterCallMemory ==
  ASSUME RecordTypes, Serves, Memory, NEW w \in Waves, EnterCall(w)
  PROVE  Memory'
<1>1. PICK v \in WaveType :
           /\ wave' = [wave EXCEPT ![w] = v]
           /\ \/ v.pc = "loop" /\ v.looping = wave[w].looping \ Agreeing(w) /\ Total(w, Agreeing(w)) = 0
              \/ v.pc = "payload" /\ v.looping = wave[w].looping
  BY EnterCallMoves
<1>2. mem' = mem /\ want' = want /\ thread' = thread /\ got' = got
  BY DEF EnterCall
<1>3. v.pc \notin Placed /\ v.looping \subseteq wave[w].looping
  BY <1>1, PcSets
<1> QED BY <1>1, <1>2, <1>3, WaveKeepsMemory

\* A lane counts its records: records, payloads and list stay apart.
LEMMA IncrementThreadMemory ==
  ASSUME RecordTypes, Serves, Memory, NEW w \in Waves, NEW l, IncrementThread(w, l)
  PROVE  Memory'
<1> DEFINE v == [wave[w] EXCEPT !.looping = @ \ {l}]
<1>1. /\ wave' = [wave EXCEPT ![w] = v] /\ wave[w] \in WaveType
      /\ want' = want /\ thread' = thread /\ got' = got /\ want.kind[w] = "increment" /\ l \in wave[w].looping
  BY TypeFacts DEF IncrementThread
<1>2. mem'.payload = mem.payload /\ mem'.fused = mem.fused /\ mem'.list = mem.list
  BY DEF IncrementThread, RecordTypes
<1>3. wave[w].pc = "loop"
  BY <1>1 DEF Serves, WaveServes
<1>4. v \in WaveType /\ v.pc \notin Placed /\ v.looping \subseteq wave[w].looping
  BY <1>1, <1>3, PcSets DEF WaveType
<1> HIDE DEF v
<1> QED BY <1>1, <1>2, <1>4, WaveKeepsMemory

\* The body gives nothing yet.
LEMMA BodyMemory ==
  ASSUME RecordTypes, Serves, Memory, NEW o \in Owners, BodyStep(o),
         \A w \in Waves : wave'[w].looping = wave[w].looping,
         \A g \in Groups : thread'[g][0] = thread[g][0]
            \/ (thread'[g][0].call = thread[g][0].call /\ thread[g][0].pc \notin Meeting)
  PROVE  Memory'
<1>1. want' = want /\ got' = got
  BY DEF BodyStep
<1>2. \A g \in Groups : thread[g][0].call \in Nat
  BY OwnerFacts DEF RecordTypes
<1>3. \A g \in Groups :
           /\ thread[g][0].call \in Nat /\ thread'[g][0].call \in Nat
           /\ thread[g][0].call <= thread'[g][0].call
           /\ thread[g][0].call = thread'[g][0].call /\ thread[g][0].pc \in Meeting =>
                thread'[g][0].pc \in Meeting /\ thread'[g][0].alloc = thread[g][0].alloc
  BY <1>2
<1>4. Given'
  BY <1>1, <1>3, GivenStays DEF Memory
<1>5. got \subseteq RecordSet
  BY DEF Memory, Given, RecordSet
<1> QED BY <1>4, <1>5, BodyRegions, BodySlots DEF Memory

\* The elected lane executes the body: records, payloads and list stay apart.
LEMMA WaveBodyMemory ==
  ASSUME RecordTypes, Serves, Memory, NEW w \in Waves, WaveBody(w)
  PROVE  Memory'
<1>1. BodyStep(w) /\ w \in Owners
  BY WaveBodyStep, OwnerFacts
<1>2. thread' = thread /\ \A u \in Waves : wave'[u].looping = wave[u].looping
  BY DEF WaveBody, RecordTypes
<1> QED BY <1>1, <1>2, BodyMemory

\* The first thread executes the body: records, payloads and list stay apart.
LEMMA LeaderBodyMemory ==
  ASSUME RecordTypes, Serves, Memory, NEW g \in Groups, LeaderBody(g)
  PROVE  Memory'
<1>1. BodyStep(g) /\ g \in Owners /\ 0 \in Thread
  BY LeaderBodyStep, OwnerFacts
<1>2. wave' = wave /\ thread[g][0].pc \notin Meeting /\ \A h \in Groups \ {g} : thread'[h] = thread[h]
  BY DEF LeaderBody, RecordTypes, BodyPcs, Meeting
<1>3. thread'[g][0].call = thread[g][0].call
  BY <1>1 DEF LeaderBody, RecordTypes
<1>4. \A h \in Groups : thread'[h][0] = thread[h][0]
            \/ (thread'[h][0].call = thread[h][0].call /\ thread[h][0].pc \notin Meeting)
  BY <1>2, <1>3
<1> QED BY <1>1, <1>2, <1>4, BodyMemory

\* A thread starts an allocation: records, payloads and list stay apart.
LEMMA StartAllocateMemory ==
  ASSUME RecordTypes, Serves, Memory, NEW g \in Groups, NEW t \in Thread, StartAllocate(g, t)
  PROVE  Memory'
<1>1. PICK v \in ThreadType :
           /\ thread' = [thread EXCEPT ![g][t] = v] /\ v.last = thread[g][t].last
           /\ \/ v.pc = "enter" /\ v.call = thread[g][t].call + 1 /\ Empty(g, t)
              \/ v.pc = (IF t = 0 THEN "payload" ELSE "wait") /\ v.call = thread[g][t].call /\ ~ Empty(g, t)
  BY StartAllocateMoves
<1>2. mem' = mem /\ want' = want /\ wave' = wave /\ got' = got /\ thread[g][t].pc = "enter"
  BY DEF StartAllocate
<1>3. t = 0 => \/ v.pc \notin Placed /\ thread[g][0].pc \notin Meeting /\ v.call = thread[g][0].call
               \/ v.pc \notin Placed /\ v.call = thread[g][0].call + 1
  BY <1>1, <1>2, PcSets DEF Meeting
<1> QED BY <1>1, <1>2, <1>3, ThreadKeepsMemory

\* A thread goes on to its next call.
LEMMA NextCallMemory ==
  ASSUME RecordTypes, Serves, Memory, want' = want, wave' = wave, got' = got,
         mem'.payload = mem.payload, mem'.fused = mem.fused, mem'.list = mem.list,
         NEW g \in Groups, NEW t \in Thread, thread' = [thread EXCEPT ![g][t] = NextCall(thread[g][t])]
  PROVE  Memory'
<1>1. thread[g][t] \in ThreadType
  BY TypeFacts
<1> DEFINE v == NextCall(thread[g][t])
<1>2. v \in ThreadType /\ v.pc \notin Placed /\ v.call = thread[g][t].call + 1
  BY <1>1, StepFacts, PcSets
<1> HIDE DEF v
<1> QED BY <1>2, ThreadKeepsMemory DEF v

\* A thread passes the second barrier: records, payloads and list stay apart.
LEMMA LeaveAllocateMemory ==
  ASSUME RecordTypes, Serves, Memory, NEW g \in Groups, NEW t \in Thread, LeaveAllocate(g, t)
  PROVE  Memory'
BY NextCallMemory DEF LeaveAllocate

\* The first thread counts for its group: records, payloads and list stay apart.
LEMMA IncrementGroupMemory ==
  ASSUME RecordTypes, Serves, Memory, NEW g \in Groups, NEW t \in Thread, IncrementGroup(g, t)
  PROVE  Memory'
<1>1. mem'.payload = mem.payload /\ mem'.fused = mem.fused /\ mem'.list = mem.list
  BY DEF IncrementGroup, RecordTypes
<1> QED BY <1>1, NextCallMemory DEF IncrementGroup

\* The first thread shares the offset: records, payloads and list stay apart.
LEMMA LeaderSharesMemory ==
  ASSUME RecordTypes, Serves, Memory, NEW g \in Groups, LeaderShares(g)
  PROVE  Memory'
<1> DEFINE v == Arrive(thread[g][0], "wait")
<1>1. /\ thread[g][0].pc = "merge" /\ 0 \in Thread /\ thread[g][0] \in ThreadType
      /\ thread' = [thread EXCEPT ![g][0] = v] /\ mem' = mem /\ want' = want /\ wave' = wave /\ got' = got
  BY OwnerFacts, TypeFacts DEF LeaderShares
<1>2. v \in ThreadType /\ v.pc \in Meeting /\ v.call = thread[g][0].call /\ v.alloc = thread[g][0].alloc
  BY <1>1, StepFacts DEF Meeting
<1> HIDE DEF v
<1> QED BY <1>1, <1>2, ThreadKeepsMemory

\* A thread starts to finish: records, payloads and list stay apart.
LEMMA StartFinishMemory ==
  ASSUME RecordTypes, Serves, Memory, NEW g \in Groups, NEW t \in Thread, StartFinish(g, t)
  PROVE  Memory'
<1>1. PICK v \in ThreadType :
           /\ thread' = [thread EXCEPT ![g][t] = v] /\ v.call = thread[g][t].call
           /\ IF t = 0 THEN v.pc = "publish" /\ v.last = IsLast(mem.cookie) ELSE v.pc = "finish"
  BY StartFinishMoves
<1>2. want' = want /\ wave' = wave /\ got' = got /\ thread[g][t].pc = "enter"
      /\ mem'.payload = mem.payload /\ mem'.fused = mem.fused /\ mem'.list = mem.list
  BY DEF StartFinish, RecordTypes
<1>3. t = 0 => v.pc \notin Placed /\ thread[g][0].pc \notin Meeting /\ v.call = thread[g][0].call
  BY <1>1, <1>2, PcSets DEF Meeting, Finishing
<1> QED BY <1>1, <1>2, <1>3, ThreadKeepsMemory

\* The first thread shares whether its group is the last: records, payloads and list stay apart.
LEMMA PublishLastMemory ==
  ASSUME RecordTypes, Serves, Memory, NEW g \in Groups, PublishLast(g)
  PROVE  Memory'
<1> DEFINE v == Arrive(thread[g][0], "finish")
<1>1. /\ thread[g][0].pc = "publish" /\ 0 \in Thread /\ thread[g][0] \in ThreadType
      /\ thread' = [thread EXCEPT ![g][0] = v] /\ mem' = mem /\ want' = want /\ wave' = wave /\ got' = got
  BY OwnerFacts, TypeFacts DEF PublishLast
<1>2. v \in ThreadType /\ v.pc = "finish" /\ v.call = thread[g][0].call
  BY <1>1, StepFacts DEF Finishing
<1>3. v.pc \notin Placed /\ thread[g][0].pc \notin Meeting
  BY <1>1, <1>2, PcSets DEF Finishing, Meeting
<1> HIDE DEF v
<1> QED BY <1>1, <1>2, <1>3, ThreadKeepsMemory

\* A thread reads whether its group is the last: records, payloads and list stay apart.
LEMMA ReadLastMemory ==
  ASSUME RecordTypes, Serves, Met, Memory, NEW g \in Groups, NEW t \in Thread, ReadLast(g, t)
  PROVE  Memory'
<1>1. PICK v \in ThreadType :
           /\ thread' = [thread EXCEPT ![g][t] = v] /\ v.call = thread[g][t].call /\ v.pc = "done"
           /\ t = 0 => v.last = thread[g][0].last
  BY ReadLastMoves
<1>2. mem' = mem /\ want' = want /\ wave' = wave /\ got' = got /\ thread[g][t].pc = "finish"
  BY DEF ReadLast
<1>3. v.pc \notin Placed /\ (t = 0 => thread[g][0].pc \notin Meeting)
  BY <1>1, <1>2, PcSets DEF Finishing, Meeting
<1> QED BY <1>1, <1>2, <1>3, ThreadKeepsMemory

-----------------------------------------------------------------------------
(* Giving out records.                                                     *)

\* The lanes of a wave's call.
LEMMA WaveReturnMemory ==
  ASSUME RecordTypes, Serves, Memory, NEW w \in Waves, WaveReturn(w)
  PROVE  Memory'
<1> DEFINE S == wave[w].call
           a == wave[w].alloc
           R(l) == [who |-> <<w, l>>, node |-> Lane(w)[l].node, count |-> Lane(w)[l].count,
                    offset |-> LaneOffset(w, l)]
           N == {R(l) : l \in S}
           v == [wave[w] EXCEPT !.pc = "loop", !.looping = @ \ wave[w].call, !.call = {}, !.alloc = Nothing]
<1>1. /\ wave[w].pc = "merge" /\ got' = got \cup N /\ mem' = mem /\ want' = want /\ thread' = thread
      /\ wave' = [wave EXCEPT ![w] = v]
  BY DEF WaveReturn, RecordTypes
<1>2. wave[w] \in WaveType /\ want \in Scenarios /\ w \in Owners /\ w \notin Groups /\ PcOf(w) = wave[w].pc
      /\ Taking(w) = a
  BY TypeFacts, OwnerFacts DEF RecordTypes
<1>3. v.pc = "loop" /\ v.looping = wave[w].looping \ S
  BY <1>2 DEF WaveType
<1>4. S \subseteq wave[w].looping /\ S \subseteq DOMAIN Lane(w) /\ a.count = Total(w, S)
      /\ \A l \in S : Lane(w)[l].node = a.node
  BY <1>1 DEF Serves, WaveServes
<1>5. a.node \in Nodes /\ a.count \in 1 .. CountRange /\ a.offset \in Aligned /\ a.offset \in Nat
  <2>1. PcOf(w) \in Serving \cup Meeting /\ PcOf(w) \in Placed
    BY <1>1, <1>2 DEF Serving, Placed
  <2>2. a.offset \in Aligned
    BY <1>2, <2>1 DEF Memory, Regions
  <2>3. a.offset \in Nat
    BY <2>2, AlignFacts
  <2> QED BY <1>2, <2>1, <2>2, <2>3, ServingFacts
<1> DEFINE c(l) == Lane(w)[l].count
           s(l) == Scan(w, S, l)
           b(l) == s(l) * RecordSize
<1>6. ASSUME NEW l \in S
      PROVE  /\ c(l) \in Nat /\ s(l) \in Nat /\ c(l) <= CountRange /\ l \in Nat
             /\ s(l) + c(l) <= a.count
             /\ b(l) \in Nat /\ c(l) * RecordSize \in Nat
             /\ b(l) + c(l) * RecordSize <= a.count * RecordSize
             /\ \A k \in S : l < k => b(l) + c(l) * RecordSize <= b(k)
  <2>1. c(l) \in Nat
    BY <1>2, <1>4, TotalFacts
  <2>2. s(l) \in Nat /\ s(l) + c(l) <= a.count /\ \A k \in S : l < k => s(l) + c(l) <= s(k)
    BY <1>2, <1>4, ScanFacts
  <2>3. l \in Nat /\ \A k \in S : s(k) \in Nat
    BY <1>2, <1>4, WantFacts, ScanFacts DEF WaveLane
  <2>4. CountRange \in Nat /\ a.count \in Nat /\ a.count <= CountRange
    BY <1>5, NodeRecordsAssumption
  <2> HIDE DEF c, s
  <2>5. s(l) + c(l) \in Nat /\ (s(l) + c(l)) * RecordSize = s(l) * RecordSize + c(l) * RecordSize
        /\ s(l) * RecordSize \in Nat /\ c(l) * RecordSize \in Nat
    <3> DEFINE m == s(l)
               n == c(l)
    <3>1. m \in Nat /\ n \in Nat
      BY <2>1, <2>2
    <3> HIDE DEF m, n
    <3>2. /\ (m + n) * RecordSize = m * RecordSize + n * RecordSize
          /\ m * RecordSize \in Nat /\ n * RecordSize \in Nat
      BY <3>1, Bytes
    <3> QED BY <3>1, <3>2 DEF m, n
  <2>6. (s(l) + c(l)) * RecordSize <= a.count * RecordSize
    <3> DEFINE m == s(l) + c(l)
               n == a.count
    <3>1. m \in Nat /\ n \in Nat /\ m <= n
      BY <2>2, <2>4, <2>5
    <3> HIDE DEF m, n
    <3>2. m * RecordSize <= n * RecordSize
      BY <3>1, Bytes
    <3> QED BY <3>2 DEF m, n
  <2>7. ASSUME NEW k \in S, l < k
        PROVE  (s(l) + c(l)) * RecordSize <= s(k) * RecordSize
    <3> DEFINE m == s(l) + c(l)
               n == s(k)
    <3>1. m \in Nat /\ n \in Nat /\ m <= n
      BY <2>2, <2>3, <2>5, <2>7
    <3> HIDE DEF m, n
    <3>2. m * RecordSize <= n * RecordSize
      BY <3>1, Bytes
    <3> QED BY <3>2 DEF m, n
  <2>8. c(l) <= CountRange
    BY <2>1, <2>2, <2>4
  <2> QED BY <2>1, <2>2, <2>3, <2>5, <2>6, <2>7, <2>8
<1>7. ASSUME NEW l \in S
      PROVE  /\ R(l) \in RecordSet /\ R(l).who = <<w, l>> /\ R(l).node = a.node /\ R(l).count = c(l)
             /\ R(l).offset = a.offset + b(l) /\ RecordEnd(R(l)) = a.offset + b(l) + c(l) * RecordSize
  <2>1. R(l).offset = a.offset + b(l) /\ R(l).who = <<w, l>> /\ R(l).node = a.node /\ R(l).count = c(l)
    BY <1>4 DEF LaneOffset
  <2>2. c(l) \in 0 .. CountRange /\ b(l) \in Nat /\ l \in Nat
    BY <1>6, NodeRecordsAssumption
  <2>3. a.offset + b(l) \in Nat
    BY <1>5, <2>2
  <2>4. R(l) = [who |-> <<w, l>>, node |-> a.node, count |-> c(l), offset |-> a.offset + b(l)]
    BY <1>4 DEF LaneOffset
  <2> HIDE DEF b, c, R
  <2>5. R(l) \in RecordSet
    BY <1>2, <1>5, <2>2, <2>3, <2>4 DEF RecordSet
  <2> QED BY <2>1, <2>5 DEF RecordEnd
<1>8. ASSUME NEW l \in S
      PROVE  /\ R(l) \in RecordSet /\ R(l).node = Taking(w).node /\ Taking(w).offset <= R(l).offset
             /\ RecordEnd(R(l)) <= RegionEnd(w)
             /\ \A k \in S : IF R(k).who = R(l).who THEN R(k) = R(l)
                             ELSE RecordEnd(R(l)) <= R(k).offset \/ RecordEnd(R(k)) <= R(l).offset
             /\ \A q \in got : q.who # R(l).who /\ ~ Own(w, q)
  <2>1. R(l).node = Taking(w).node /\ R(l) \in RecordSet
    BY <1>2, <1>7
  <2>2. Taking(w).offset <= R(l).offset
    <3>1. R(l).offset = a.offset + b(l) /\ b(l) \in Nat /\ a.offset \in Nat
      BY <1>5, <1>6, <1>7
    <3> HIDE DEF R, b
    <3> QED BY <1>2, <3>1
  <2>3. RecordEnd(R(l)) <= RegionEnd(w)
    <3>1. a.count * RecordSize \in Nat
      BY <1>5, NodeRecordsAssumption, Bytes
    <3>2. b(l) \in Nat /\ c(l) * RecordSize \in Nat /\ b(l) + c(l) * RecordSize <= a.count * RecordSize
      BY <1>6
    <3>3. RecordEnd(R(l)) = a.offset + b(l) + c(l) * RecordSize
      BY <1>7
    <3> DEFINE x == c(l) * RecordSize
               y == b(l)
               z == a.count * RecordSize
    <3> HIDE DEF x, y, z
    <3>4. a.offset + y + x <= a.offset + z
      BY <1>5, <3>1, <3>2 DEF x, y, z
    <3> QED BY <1>2, <3>3, <3>4 DEF RegionEnd, x, y, z
  <2>4. ASSUME NEW k \in S
        PROVE  IF R(k).who = R(l).who THEN R(k) = R(l)
               ELSE RecordEnd(R(l)) <= R(k).offset \/ RecordEnd(R(k)) <= R(l).offset
    <3>1. CASE k = l
      BY <3>1
    <3>2. ASSUME NEW i \in S, NEW j \in S, i < j
          PROVE  RecordEnd(R(i)) <= R(j).offset
      <4>1. b(i) + c(i) * RecordSize <= b(j) /\ b(i) \in Nat /\ b(j) \in Nat /\ c(i) * RecordSize \in Nat
        BY <1>6, <3>2
      <4>2. RecordEnd(R(i)) = a.offset + b(i) + c(i) * RecordSize /\ R(j).offset = a.offset + b(j)
        BY <1>7
      <4> DEFINE x == c(i) * RecordSize
                 y == b(i)
                 z == b(j)
      <4> HIDE DEF x, y, z
      <4>3. a.offset + y + x <= a.offset + z
        BY <1>5, <4>1 DEF x, y, z
      <4> QED BY <4>2, <4>3 DEF x, y, z
    <3>3. CASE k # l
      <4>1. k \in Nat /\ l \in Nat
        BY <1>6
      <4>2. k < l \/ l < k
        BY <3>3, <4>1
      <4>3. R(k).who # R(l).who
        BY <1>7, <3>3
      <4> QED BY <3>2, <4>2, <4>3
    <3> QED BY <3>1, <3>3
  <2>5. ASSUME NEW q \in got PROVE q.who # R(l).who /\ ~ Own(w, q)
    <3>1. CASE q.who = R(l).who
      <4>1. q.who[1] = w /\ q.who[2] = l
        BY <1>7, <3>1
      <4>2. l \notin wave[w].looping
        BY <4>1 DEF Memory, Given
      <4> QED BY <1>4, <4>2
    <3> QED BY <1>2, <3>1 DEF Own
  <2> QED BY <2>1, <2>2, <2>3, <2>4, <2>5
<1>9. wave'[w] = v /\ \A u \in Waves \ {w} : wave'[u] = wave[u]
  BY <1>1 DEF RecordTypes
<1> HIDE DEF v
<1>10. PcOf(w)' = "loop" /\ \A p \in Owners \ {w} : PcOf(p)' = PcOf(p) /\ Taking(p)' = Taking(p)
  BY <1>1, <1>2, <1>3, <1>9 DEF PcOf, Taking, Owners
<1>11. \A p \in Owners : \A r : Own(p, r)' <=> Own(p, r)
  BY <1>1 DEF Own
<1> HIDE DEF R
<1>12. Gives(w, N)
  <2>1. PcOf(w) \in {"merge"} \cup Meeting /\ mem' = mem /\ got' = got \cup N /\ N \subseteq RecordSet
    BY <1>1, <1>2, <1>8
  <2>2. \A r \in N : /\ r.node = Taking(w).node /\ Taking(w).offset <= r.offset /\ RecordEnd(r) <= RegionEnd(w)
                     /\ \A q \in N : IF q.who = r.who THEN q = r
                                     ELSE RecordEnd(r) <= q.offset \/ RecordEnd(q) <= r.offset
                                          \/ r.count = 0 \/ q.count = 0
                     /\ \A q \in got : q.who = r.who \/ Own(w, q) => q = r
    BY <1>8
  <2> HIDE DEF N
  <2> QED BY <1>10, <1>11, <2>1, <2>2, PcSets DEF Gives
<1>13. got \subseteq RecordSet
  BY DEF Memory, Given, RecordSet
<1>14. Regions' /\ Slots'
  BY <1>2, <1>12, <1>13, GivesRegions, GivesSlots DEF Memory
<1>15. Given'
  <2>1. got' \subseteq RecordSet
    BY <1>1, <1>8, <1>13
  <2>2. ASSUME NEW r \in got'
        PROVE  IF r.who[1] \in Waves THEN r.who[2] \in DOMAIN Lane(r.who[1]) \ wave'[r.who[1]].looping
               ELSE LET th == thread'[r.who[1]][0]
                    IN  /\ r.who[2] <= th.call
                        /\ r.who[2] = th.call =>
                             /\ th.pc \in Meeting
                             /\ r.node = th.alloc.node /\ r.count = th.alloc.count /\ r.offset = th.alloc.offset
    <3>1. CASE r \in N
      <4>1. PICK l \in S : r = R(l)
        BY <3>1
      <4>2. r.who[1] = w /\ r.who[2] = l
        BY <1>7, <4>1
      <4> QED BY <1>3, <1>4, <1>9, <4>2
    <3>2. CASE r \in got
      <4>1. \A u \in Waves : wave'[u].looping \subseteq wave[u].looping
        BY <1>3, <1>9
      <4> QED BY <1>1, <3>2, <4>1 DEF Memory, Given
    <3> QED BY <1>1, <3>1, <3>2
  <2>3. \A r \in got' : r.who[1] \in Waves => Lane(r.who[1])' = Lane(r.who[1])
    BY <1>1 DEF Lane
  <2> QED BY <2>1, <2>2, <2>3 DEF Given, RecordSet, Owners
<1> QED BY <1>14, <1>15 DEF Memory

\* The threads of a group.
LEMMA ReadSharedMemory ==
  ASSUME RecordTypes, Serves, Met, Memory, NEW g \in Groups, NEW t \in Thread, ReadShared(g, t)
  PROVE  Memory'
<1> DEFINE v == Arrive(thread[g][t], "leave")
           a == thread[g][0].alloc
           k == thread[g][0].call
<1>1. /\ thread[g][t].pc = "wait" /\ AllArrived(g, t) /\ thread[g][t] \in ThreadType /\ InStep(g) /\ Shares(g)
      /\ thread' = [thread EXCEPT ![g][t] = v] /\ want' = want /\ mem' = mem /\ wave' = wave
      /\ 0 \in Thread /\ g \in Owners /\ g \notin Waves /\ PcOf(g) = thread[g][0].pc /\ Taking(g) = a
  BY OwnerFacts, TypeFacts DEF ReadShared, Met, ReturnAfterBarrier
<1>2. v \in ThreadType /\ v.pc = "leave" /\ v.call = thread[g][t].call /\ v.alloc = thread[g][t].alloc
  BY <1>1, StepFacts DEF Meeting
<1> HIDE DEF v
<1>3. thread[g][t].call = k /\ thread[g][0].pc \in Meeting /\ k \in Nat
  BY <1>1, Meet DEF RecordTypes
<1>4. Current(g, t).node = a.node /\ Current(g, t).count = a.count /\ shared[g].offset = a.offset
  BY <1>1, <1>3 DEF Serves, ThreadServes, Shares, Current
<1>0. PICK r : r = [who |-> <<g, k>>, node |-> a.node, count |-> a.count, offset |-> a.offset]
  OBVIOUS
<1>5. got' = got \cup {r}
  BY <1>0, <1>3, <1>4 DEF ReadShared
<1>6. a.node \in Nodes /\ a.count \in 1 .. CountRange /\ a.offset \in Aligned /\ a.offset \in Nat
  <2>1. PcOf(g) \in Serving \cup Meeting /\ PcOf(g) \in Placed
    BY <1>1, <1>3 DEF Placed
  <2>2. a.offset \in Aligned
    BY <1>1, <2>1 DEF Memory, Regions
  <2>3. a.offset \in Nat
    BY <2>2, AlignFacts
  <2> QED BY <1>1, <2>1, <2>2, <2>3, ServingFacts
<1>7. /\ r \in RecordSet /\ r.who[1] = g /\ r.who[2] = k /\ r.who = <<g, k>>
      /\ r.node = a.node /\ r.count = a.count /\ r.offset = a.offset
  BY <1>0, <1>1, <1>3, <1>6, NodeRecordsAssumption DEF RecordSet
<1>8. \A h \in Groups : /\ thread'[h][0].call = thread[h][0].call /\ thread'[h][0].alloc = thread[h][0].alloc
                        /\ h # g => thread'[h][0] = thread[h][0]
                        /\ thread'[h][0].pc = thread[h][0].pc \/ (h = g /\ thread'[h][0].pc = "leave")
  <2>1. \A h \in Groups \ {g} : thread'[h] = thread[h]
    BY <1>1 DEF RecordTypes
  <2>2. thread'[g][0] = IF t = 0 THEN v ELSE thread[g][0]
    BY <1>1 DEF RecordTypes
  <2>3. CASE t = 0
    BY <1>2, <2>1, <2>2, <2>3
  <2>4. CASE t # 0
    BY <2>1, <2>2, <2>4
  <2> QED BY <2>3, <2>4
<1> HIDE DEF a, k
<1>9. \A q \in got : q.who = r.who \/ Own(g, q) => q = r
  <2> SUFFICES ASSUME NEW q \in got, q.who = r.who \/ Own(g, q) PROVE q = r
    OBVIOUS
  <2>1. q.who = <<g, k>>
    BY <1>7 DEF Own, k
  <2>2. q.node = a.node /\ q.count = a.count /\ q.offset = a.offset
    <3>1. q.who[1] = g /\ q.who[2] = thread[g][0].call
      BY <2>1 DEF k
    <3> QED BY <1>1, <3>1 DEF Memory, Given, a
  <2>3. q = [who |-> q.who, node |-> q.node, count |-> q.count, offset |-> q.offset]
    BY DEF Memory, Given
  <2> QED BY <1>0, <2>1, <2>2, <2>3
<1>10. \A p \in Owners : \A q : Own(p, q)' <=> Own(p, q)
  BY <1>8 DEF Own
<1>11. /\ \A p \in Owners \ {g} : PcOf(p)' = PcOf(p) /\ Taking(p)' = Taking(p)
       /\ PcOf(g)' \in Meeting /\ Taking(g)' = Taking(g)
  BY <1>1, <1>3, <1>8 DEF PcOf, Taking, Owners, Meeting
<1>12. Own(g, r)
  BY <1>1, <1>7 DEF Own, k
<1>13. RecordEnd(r) = RegionEnd(g)
  BY <1>1, <1>7 DEF RecordEnd, RegionEnd
<1>14. Gives(g, {r})
  <2>1. r.offset \in Int /\ RegionEnd(g) \in Int
    <3>1. PcOf(g) \in Serving \cup Meeting
      BY <1>1, <1>3
    <3> QED BY <1>1, <1>6, <1>7, <3>1, PlaceFacts
  <2>2. /\ r.node = Taking(g).node /\ Taking(g).offset <= r.offset /\ RecordEnd(r) <= RegionEnd(g)
    BY <1>1, <1>7, <1>13, <2>1
  <2>3. /\ PcOf(g) \in {"merge"} \cup Meeting /\ mem' = mem /\ got' = got \cup {r} /\ {r} \subseteq RecordSet
        /\ PcOf(g)' \in {"merge"} \cup Meeting /\ Taking(g)' = Taking(g) /\ Own(g, r)'
    BY <1>1, <1>3, <1>5, <1>7, <1>10, <1>11, <1>12
  <2>4. /\ \A p \in Owners \ {g} : PcOf(p)' = PcOf(p) /\ Taking(p)' = Taking(p)
        /\ \A p \in Owners, q \in got : PcOf(p)' \in Placed => (Own(p, q)' <=> Own(p, q))
    BY <1>10, <1>11
  <2>5. \A x \in {r} :
                  /\ x.node = Taking(g).node /\ Taking(g).offset <= x.offset /\ RecordEnd(x) <= RegionEnd(g)
                  /\ \A q \in {r} : IF q.who = x.who THEN q = x
                                  ELSE RecordEnd(x) <= q.offset \/ RecordEnd(q) <= x.offset
                                       \/ x.count = 0 \/ q.count = 0
                  /\ \A q \in got : q.who = x.who \/ Own(g, q) => q = x
    BY <1>9, <2>2
  <2> QED BY <2>3, <2>4, <2>5 DEF Gives
<1>15. got \subseteq RecordSet
  BY DEF Memory, Given, RecordSet
<1>16. Regions' /\ Slots'
  BY <1>1, <1>14, <1>15, GivesRegions, GivesSlots DEF Memory
<1>17. Given'
  <2>1. got' \subseteq RecordSet
    BY <1>5, <1>7, <1>15
  <2>2. ASSUME NEW q \in got'
        PROVE  IF q.who[1] \in Waves THEN q.who[2] \in DOMAIN Lane(q.who[1]) \ wave'[q.who[1]].looping
               ELSE LET th == thread'[q.who[1]][0]
                    IN  /\ q.who[2] <= th.call
                        /\ q.who[2] = th.call =>
                             /\ th.pc \in Meeting
                             /\ q.node = th.alloc.node /\ q.count = th.alloc.count /\ q.offset = th.alloc.offset
    <3>1. CASE q = r
      <4>1. thread'[g][0].call = k /\ thread'[g][0].alloc = a /\ thread'[g][0].pc \in Meeting
        BY <1>3, <1>8 DEF k, a, Meeting
      <4> QED BY <1>1, <1>3, <1>7, <3>1, <4>1
    <3>2. CASE q \in got /\ q.who[1] \in Waves
      BY <1>1, <3>2 DEF Memory, Given
    <3>3. CASE q \in got /\ q.who[1] \notin Waves
      <4>1. q.who[1] \in Groups
        BY <1>15, <3>3 DEF RecordSet, Owners
      <4>2. LET th == thread[q.who[1]][0]
            IN  /\ q.who[2] <= th.call
                /\ q.who[2] = th.call =>
                     /\ th.pc \in Meeting
                     /\ q.node = th.alloc.node /\ q.count = th.alloc.count /\ q.offset = th.alloc.offset
        BY <3>3 DEF Memory, Given
      <4>3. /\ thread'[q.who[1]][0].call = thread[q.who[1]][0].call
            /\ thread'[q.who[1]][0].alloc = thread[q.who[1]][0].alloc
            /\ thread[q.who[1]][0].pc \in Meeting => thread'[q.who[1]][0].pc \in Meeting
        BY <1>8, <4>1 DEF Meeting
      <4> QED BY <3>3, <4>2, <4>3
    <3> QED BY <1>5, <3>1, <3>2, <3>3
  <2>3. \A q \in got' : q.who[1] \in Waves => Lane(q.who[1])' = Lane(q.who[1])
    BY <1>1 DEF Lane
  <2> QED BY <2>1, <2>2, <2>3 DEF Given, RecordSet, Owners
<1> QED BY <1>16, <1>17 DEF Memory

-----------------------------------------------------------------------------
(* The cookie.                                                             *)

\* The cookie stays while no group finishes.
LEMMA CookieStays ==
  ASSUME Cookie, mem'.cookie = mem.cookie,
         \A g \in Groups : /\ thread'[g][0].pc \in Finishing <=> thread[g][0].pc \in Finishing
                           /\ thread'[g][0].last = thread[g][0].last
  PROVE  Cookie'
<1>1. Unfinished' = Unfinished
  BY DEF Unfinished
<1> QED BY <1>1 DEF Cookie

\* The cookie stays while a thread does not start to finish.
LEMMA ThreadKeepsCookie ==
  ASSUME RecordTypes, Cookie, mem'.cookie = mem.cookie,
         NEW g \in Groups, NEW t \in Thread, NEW v \in ThreadType, thread' = [thread EXCEPT ![g][t] = v],
         t = 0 => /\ v.pc \in Finishing <=> thread[g][0].pc \in Finishing
                  /\ v.last = thread[g][0].last
  PROVE  Cookie'
<1>1. \A h \in Groups \ {g} : thread'[h] = thread[h]
  BY DEF RecordTypes
<1>2. thread'[g][0] = IF t = 0 THEN v ELSE thread[g][0]
  BY OwnerFacts DEF RecordTypes
<1>3. /\ thread'[g][0].pc \in Finishing <=> thread[g][0].pc \in Finishing
      /\ thread'[g][0].last = thread[g][0].last
  <2>1. CASE t = 0
    BY <1>2, <2>1
  <2>2. CASE t # 0
    BY <1>2, <2>2
  <2> QED BY <2>1, <2>2
<1> QED BY <1>1, <1>3, CookieStays

\* The first thread of a group finishes: its group is not counted any more.
LEMMA FinishCounts ==
  ASSUME RecordTypes, Cookie, NEW g \in Groups, mem'.cookie = mem.cookie - 1,
         NEW v \in ThreadType, thread' = [thread EXCEPT ![g][0] = v],
         thread[g][0].pc \notin Finishing, v.pc \in Finishing, v.last = IsLast(mem.cookie)
  PROVE  Cookie'
<1>1. \A h \in Groups \ {g} : thread'[h] = thread[h]
  BY DEF RecordTypes
<1>2. thread'[g][0] = v
  BY OwnerFacts DEF RecordTypes
<1>3. Unfinished' = Unfinished \ {g} /\ g \in Unfinished
  BY <1>1, <1>2 DEF Unfinished
<1>4. IsFiniteSet(Unfinished)
  BY NodeRecordsAssumption, FS_Subset DEF Unfinished
<1>5. Cardinality(Unfinished \ {g}) = Cardinality(Unfinished) - 1 /\ Cardinality(Unfinished) \in Nat
      /\ IsFiniteSet(Unfinished \ {g})
  BY <1>3, <1>4, FS_RemoveElement, FS_CardinalityType
<1>6. v.last <=> Unfinished \ {g} = {}
  <2>1. Cardinality(Unfinished \ {g}) = 0 <=> Unfinished \ {g} = {}
    BY <1>5, FS_EmptySet
  <2>2. v.last <=> mem.cookie = 1
    BY DEF IsLast
  <2>3. mem.cookie = Cardinality(Unfinished)
    BY DEF Cookie
  <2>4. Cardinality(Unfinished) = 1 <=> Cardinality(Unfinished \ {g}) = 0
    BY <1>5
  <2> QED BY <2>1, <2>2, <2>3, <2>4
<1>7. mem'.cookie = Cardinality(Unfinished')
  BY <1>3, <1>5 DEF Cookie
<1>8. \A h \in Groups \ Unfinished : ~ thread[h][0].last
  BY <1>3 DEF Cookie
<1>9. \A h \in Groups \ Unfinished' : thread'[h][0].last =>
        Unfinished' = {} /\ \A k \in Groups : thread'[k][0].last => k = h
  <2> SUFFICES ASSUME NEW h \in Groups \ Unfinished', thread'[h][0].last
               PROVE  Unfinished' = {} /\ \A k \in Groups : thread'[k][0].last => k = h
    OBVIOUS
  <2>1. h = g
    <3>1. h # g => h \in Groups \ Unfinished /\ thread[h][0].last
      BY <1>1, <1>3
    <3> QED BY <1>8, <3>1
  <2>2. Unfinished' = {}
    BY <1>2, <1>3, <1>6, <2>1
  <2>3. ASSUME NEW k \in Groups, thread'[k][0].last PROVE k = h
    <3>1. k # g => k \in Groups \ Unfinished /\ thread[k][0].last
      BY <1>1, <1>3, <2>2, <2>3
    <3> QED BY <1>8, <2>1, <3>1
  <2> QED BY <2>2, <2>3
<1>10. Unfinished' = {} => \E h \in Groups : thread'[h][0].last
  BY <1>2, <1>3, <1>6
<1> QED BY <1>7, <1>9, <1>10 DEF Cookie

-----------------------------------------------------------------------------
(* The node totals.                                                        *)

\* The lanes and calls that have passed the counter are among those that ask.
LEMMA CountedFacts ==
  ASSUME RecordTypes, Serves
  PROVE  /\ \A w \in Waves : IsFiniteSet(DOMAIN Lane(w)) /\ CountedLanes(w) \subseteq DOMAIN Lane(w)
         /\ \A g \in Groups : IsFiniteSet(1 .. Len(Calls(g))) /\ CountedCalls(g) \subseteq 1 .. Len(Calls(g))
         /\ want \in Scenarios
<1>1. want \in Scenarios
  BY DEF RecordTypes
<1>2. \A w \in Waves : IsFiniteSet(DOMAIN Lane(w)) /\ CountedLanes(w) \subseteq DOMAIN Lane(w)
  BY <1>1, WantFacts DEF CountedLanes, Serves, WaveServes
<1>3. \A g \in Groups : IsFiniteSet(1 .. Len(Calls(g))) /\ CountedCalls(g) \subseteq 1 .. Len(Calls(g))
  <2>1. \A g \in Groups : Len(Calls(g)) \in Nat
    BY <1>1, CallFacts
  <2>2. \A k \in Nat : IsFiniteSet(1 .. k)
    BY FS_Interval
  <2> QED BY <2>1, <2>2 DEF CountedCalls
<1> QED BY <1>1, <1>2, <1>3

\* What a wave and a group have counted are numbers.
LEMMA TotalTypes ==
  ASSUME RecordTypes, Serves, NEW n
  PROVE  /\ \A w \in Waves : WaveTotal(w, n) \in Nat
         /\ \A g \in Groups : GroupTotal(g, n) \in Nat
<1>1. ASSUME NEW w \in Waves PROVE WaveTotal(w, n) \in Nat
  <2>1. IsFiniteSet(CountedLanes(w))
    BY CountedFacts, FS_Subset
  <2>2. \A l \in CountedLanes(w) : CountsOf(Lane(w), n)[l] \in Nat
    BY CountedFacts, CountsFacts
  <2> QED BY <2>1, <2>2, SumFacts DEF WaveTotal
<1>2. ASSUME NEW g \in Groups PROVE GroupTotal(g, n) \in Nat
  <2>1. IsFiniteSet(CountedCalls(g))
    BY CountedFacts, FS_Subset
  <2>2. \A i \in CountedCalls(g) : CountsOf(Calls(g), n)[i] \in Nat
    BY CountedFacts, CountsFacts
  <2> QED BY <2>1, <2>2, SumFacts DEF GroupTotal
<1> QED BY <1>1, <1>2

\* Lanes A of wave w pass the counter.
LEMMA WaveAdds ==
  ASSUME RecordTypes, Serves, Totals, want' = want, thread' = thread,
         NEW w \in Waves, \A u \in Waves \ {w} : wave'[u] = wave[u],
         NEW A, A \subseteq DOMAIN Lane(w), A \cap CountedLanes(w) = {}, CountedLanes(w)' = CountedLanes(w) \cup A,
         \A n \in Nodes : mem'.total[n] = mem.total[n] + SumOver(CountsOf(Lane(w), n), A)
  PROVE  Totals'
<1> SUFFICES ASSUME NEW n \in Nodes
             PROVE  mem'.total[n] = SumOver([u \in Waves |-> WaveTotal(u, n)'], Waves)
                                    + SumOver([g \in Groups |-> GroupTotal(g, n)'], Groups)
  BY DEF Totals
<1> DEFINE f == [u \in Waves |-> WaveTotal(u, n)]
           e == [u \in Waves |-> WaveTotal(u, n)']
           d == SumOver(CountsOf(Lane(w), n), A)
<1>1. \A u \in Waves : Lane(u)' = Lane(u)
  BY WantFixed
<1>2. WaveTotal(w, n)' = WaveTotal(w, n) + d /\ d \in Nat
  <2>1. IsFiniteSet(DOMAIN Lane(w)) /\ CountedLanes(w) \subseteq DOMAIN Lane(w)
        /\ \A l \in DOMAIN Lane(w) : CountsOf(Lane(w), n)[l] \in Nat
    BY CountedFacts, CountsFacts
  <2>2. SumOver(CountsOf(Lane(w), n), CountedLanes(w) \cup A) = WaveTotal(w, n) + d
    BY <2>1, SumUnion DEF WaveTotal
  <2>3. WaveTotal(w, n)' = SumOver(CountsOf(Lane(w), n), CountedLanes(w)')
    BY <1>1 DEF WaveTotal, CountsOf
  <2>4. d \in Nat
    <3>1. IsFiniteSet(A)
      BY <2>1, FS_Subset
    <3> QED BY <2>1, <3>1, SumFacts
  <2> QED BY <2>2, <2>3, <2>4
<1>3. \A u \in Waves \ {w} : WaveTotal(u, n)' = WaveTotal(u, n)
  BY <1>1 DEF WaveTotal, CountsOf, CountedLanes
<1>4. \A g \in Groups : GroupTotal(g, n)' = GroupTotal(g, n)
  BY WantFixed DEF GroupTotal, CountsOf, CountedCalls
<1>5. \A u \in Waves : f[u] \in Nat /\ e[u] \in Nat
  <2>1. \A u \in Waves : WaveTotal(u, n) \in Nat
    BY TotalTypes
  <2>2. ASSUME NEW u \in Waves PROVE WaveTotal(u, n)' \in Nat
    <3>1. WaveTotal(u, n) \in Nat
      BY TotalTypes
    <3>2. CASE u = w
      BY <1>2, <3>1, <3>2
    <3>3. CASE u # w
      BY <1>3, <3>1, <3>3
    <3> QED BY <3>2, <3>3
  <2> QED BY <2>1, <2>2
<1>6. f[w] = WaveTotal(w, n) /\ e[w] = WaveTotal(w, n)' /\ \A u \in Waves \ {w} : e[u] = f[u]
  BY <1>3
<1>7. mem.total[n] = SumOver(f, Waves) + SumOver([g \in Groups |-> GroupTotal(g, n)], Groups)
  BY DEF Totals
<1>8. [g \in Groups |-> GroupTotal(g, n)'] = [g \in Groups |-> GroupTotal(g, n)]
  BY <1>4
<1> HIDE DEF f, e
<1>9. SumOver(e, Waves) = SumOver(f, Waves) - f[w] + e[w]
  BY <1>5, <1>6, SumChanged, NodeRecordsAssumption
<1>10. SumOver(f, Waves) \in Nat
  BY <1>5, SumFacts, NodeRecordsAssumption
<1>11. SumOver([g \in Groups |-> GroupTotal(g, n)], Groups) \in Nat
  BY TotalTypes, SumFacts, NodeRecordsAssumption
<1>12. mem'.total[n] = mem.total[n] + d
  OBVIOUS
<1>13. f[w] \in Nat
  BY <1>5
<1> HIDE DEF d
<1>14. SumOver(e, Waves) = SumOver(f, Waves) + d
  BY <1>2, <1>6, <1>9, <1>10, <1>13
<1>15. mem'.total[n] = SumOver(e, Waves) + SumOver([g \in Groups |-> GroupTotal(g, n)'], Groups)
  BY <1>2, <1>7, <1>8, <1>10, <1>11, <1>12, <1>14
<1> QED BY <1>15 DEF e

\* Calls A of group g pass the counter.
LEMMA GroupAdds ==
  ASSUME RecordTypes, Serves, Totals, want' = want, wave' = wave,
         NEW g \in Groups, \A h \in Groups \ {g} : thread'[h] = thread[h],
         NEW A, A \subseteq 1 .. Len(Calls(g)), A \cap CountedCalls(g) = {}, CountedCalls(g)' = CountedCalls(g) \cup A,
         \A n \in Nodes : mem'.total[n] = mem.total[n] + SumOver(CountsOf(Calls(g), n), A)
  PROVE  Totals'
<1> SUFFICES ASSUME NEW n \in Nodes
             PROVE  mem'.total[n] = SumOver([w \in Waves |-> WaveTotal(w, n)'], Waves)
                                    + SumOver([h \in Groups |-> GroupTotal(h, n)'], Groups)
  BY DEF Totals
<1> DEFINE f == [h \in Groups |-> GroupTotal(h, n)]
           e == [h \in Groups |-> GroupTotal(h, n)']
           d == SumOver(CountsOf(Calls(g), n), A)
<1>1. \A h \in Groups : Calls(h)' = Calls(h)
  BY WantFixed
<1>2. GroupTotal(g, n)' = GroupTotal(g, n) + d /\ d \in Nat
  <2>1. IsFiniteSet(1 .. Len(Calls(g))) /\ CountedCalls(g) \subseteq 1 .. Len(Calls(g))
        /\ \A i \in 1 .. Len(Calls(g)) : CountsOf(Calls(g), n)[i] \in Nat
    BY CountedFacts, CountsFacts
  <2>2. SumOver(CountsOf(Calls(g), n), CountedCalls(g) \cup A) = GroupTotal(g, n) + d
    <3> DEFINE S == 1 .. Len(Calls(g))
               B == CountedCalls(g)
               c == CountsOf(Calls(g), n)
    <3>1. IsFiniteSet(S) /\ B \subseteq S /\ A \subseteq S /\ B \cap A = {} /\ \A i \in S : c[i] \in Nat
      BY <2>1
    <3> HIDE DEF S, B, c
    <3>2. SumOver(c, B \cup A) = SumOver(c, B) + SumOver(c, A)
      BY ONLY <3>1, SumUnion
    <3> QED BY <3>2 DEF GroupTotal, B, c
  <2>3. GroupTotal(g, n)' = SumOver(CountsOf(Calls(g), n), CountedCalls(g)')
    BY <1>1 DEF GroupTotal, CountsOf
  <2>4. d \in Nat
    <3>1. IsFiniteSet(A)
      BY <2>1, FS_Subset
    <3> QED BY <2>1, <3>1, SumFacts
  <2> QED BY <2>2, <2>3, <2>4
<1>3. \A h \in Groups \ {g} : GroupTotal(h, n)' = GroupTotal(h, n)
  BY <1>1 DEF GroupTotal, CountsOf, CountedCalls
<1>4. \A w \in Waves : WaveTotal(w, n)' = WaveTotal(w, n)
  BY WantFixed DEF WaveTotal, CountsOf, CountedLanes
<1>5. \A h \in Groups : f[h] \in Nat /\ e[h] \in Nat
  <2>1. \A h \in Groups : GroupTotal(h, n) \in Nat
    BY TotalTypes
  <2>2. ASSUME NEW h \in Groups PROVE GroupTotal(h, n)' \in Nat
    <3>1. GroupTotal(h, n) \in Nat
      BY TotalTypes
    <3>2. CASE h = g
      BY <1>2, <3>1, <3>2
    <3>3. CASE h # g
      BY <1>3, <3>1, <3>3
    <3> QED BY <3>2, <3>3
  <2> QED BY <2>1, <2>2
<1>6. f[g] = GroupTotal(g, n) /\ e[g] = GroupTotal(g, n)' /\ \A h \in Groups \ {g} : e[h] = f[h]
  BY <1>3
<1>7. mem.total[n] = SumOver([w \in Waves |-> WaveTotal(w, n)], Waves) + SumOver(f, Groups)
  BY DEF Totals
<1>8. [w \in Waves |-> WaveTotal(w, n)'] = [w \in Waves |-> WaveTotal(w, n)]
  BY <1>4
<1> HIDE DEF f, e
<1>9. SumOver(e, Groups) = SumOver(f, Groups) - f[g] + e[g]
  BY <1>5, <1>6, SumChanged, NodeRecordsAssumption
<1>10. SumOver(f, Groups) \in Nat
  BY <1>5, SumFacts, NodeRecordsAssumption
<1>11. SumOver([w \in Waves |-> WaveTotal(w, n)], Waves) \in Nat
  BY TotalTypes, SumFacts, NodeRecordsAssumption
<1>12. mem'.total[n] = mem.total[n] + d
  OBVIOUS
<1>13. f[g] \in Nat
  BY <1>5
<1> HIDE DEF d
<1>14. SumOver(e, Groups) = SumOver(f, Groups) + d
  BY <1>2, <1>6, <1>9, <1>10, <1>13
<1>15. mem'.total[n] = SumOver([w \in Waves |-> WaveTotal(w, n)'], Waves) + SumOver(e, Groups)
  BY <1>2, <1>7, <1>8, <1>10, <1>11, <1>12, <1>14
<1> QED BY <1>15 DEF e

\* The sum of one summand.
LEMMA SumOne ==
  ASSUME NEW f, NEW x, f[x] \in Nat
  PROVE  SumOver(f, {x}) = f[x]
<1>1. IsFiniteSet({x}) /\ {x} \ {x} = {}
  BY FS_Singleton
<1>2. SumOver(f, {x}) = f[x] + SumOver(f, {})
  BY <1>1, SumFacts
<1> QED BY <1>2, SumEmpty

\* A counter that many ask for at once.
LEMMA CountOfLanes ==
  ASSUME RecordTypes, Serves, NEW w \in Waves, NEW A, A \subseteq DOMAIN Lane(w), NEW m,
         \A l \in A : Lane(w)[l].node = m, NEW n
  PROVE  SumOver(CountsOf(Lane(w), n), A) = IF n = m THEN Total(w, A) ELSE 0
<1> DEFINE f == CountsOf(Lane(w), n)
<1>1. IsFiniteSet(A)
  BY CountedFacts, FS_Subset
<1>2. \A l \in A : f[l] = IF n = m THEN LaneCounts(w)[l] ELSE 0
  <2>1. \A l \in DOMAIN Lane(w) : f[l] = IF Lane(w)[l].node = n THEN LaneCounts(w)[l] ELSE 0
    BY CountedFacts, CountsFacts
  <2> HIDE DEF f
  <2> QED BY <2>1
<1> HIDE DEF f
<1>3. CASE n = m
  <2>1. \A l \in A : f[l] = LaneCounts(w)[l]
    BY <1>2, <1>3
  <2>2. SumOver(f, A) = SumOver(LaneCounts(w), A)
    BY <1>1, <2>1, SumSame
  <2> QED BY <1>3, <2>2 DEF Total, f
<1>4. CASE n # m
  <2>1. \A l \in A : f[l] = 0
    BY <1>2, <1>4
  <2>2. SumOver(f, A) = 0
    BY <1>1, <2>1, SumZero
  <2> QED BY <1>4, <2>2 DEF f
<1> QED BY <1>3, <1>4

\* Lanes enter a call: the totals count what was asked.
LEMMA EnterCallTotals ==
  ASSUME RecordTypes, Serves, Totals, NEW w \in Waves, EnterCall(w)
  PROVE  Totals'
<1>1. PICK v \in WaveType :
           /\ wave' = [wave EXCEPT ![w] = v]
           /\ \/ v.pc = "loop" /\ v.looping = wave[w].looping \ Agreeing(w) /\ Total(w, Agreeing(w)) = 0
              \/ v.pc = "payload" /\ v.looping = wave[w].looping
  BY EnterCallMoves
<1>2. mem' = mem /\ want' = want /\ thread' = thread /\ wave[w].pc = "loop" /\ wave[w].looping # {}
  BY DEF EnterCall
<1>3. wave'[w] = v /\ (\A u \in Waves \ {w} : wave'[u] = wave[u]) /\ Lane(w)' = Lane(w)
      /\ wave[w].looping \subseteq DOMAIN Lane(w)
      /\ \A n \in Nodes : mem.total[n] \in Nat
  BY <1>1, <1>2, WantFixed DEF RecordTypes, Serves, WaveServes
<1>4. CASE v.pc = "payload"
  <2>1. CountedLanes(w)' = CountedLanes(w) \cup {}
    BY <1>1, <1>2, <1>3, <1>4 DEF CountedLanes, Counted
  <2>2. \A n \in Nodes : mem'.total[n] = mem.total[n] + SumOver(CountsOf(Lane(w), n), {})
    BY <1>2, <1>3, SumEmpty
  <2>3. {} \subseteq DOMAIN Lane(w) /\ {} \cap CountedLanes(w) = {}
    OBVIOUS
  <2> QED BY <1>2, <1>3, <2>1, <2>2, <2>3, WaveAdds
<1>5. CASE v.pc = "loop"
  <2> DEFINE A == Agreeing(w)
  <2>1. A \subseteq wave[w].looping /\ \A l \in A : Lane(w)[l].node = Lane(w)[Min(A)].node
    BY <1>2, AgreeingFacts
  <2>2. v.looping = wave[w].looping \ A /\ Total(w, A) = 0
    BY <1>1, <1>5
  <2> HIDE DEF A
  <2>3. A \subseteq DOMAIN Lane(w) /\ A \cap CountedLanes(w) = {} /\ CountedLanes(w)' = CountedLanes(w) \cup A
    BY <1>2, <1>3, <1>5, <2>1, <2>2 DEF CountedLanes, Counted
  <2>4. \A n \in Nodes : mem'.total[n] = mem.total[n] + SumOver(CountsOf(Lane(w), n), A)
    <3>1. \A n \in Nodes : SumOver(CountsOf(Lane(w), n), A) = 0
      BY <2>1, <2>2, <2>3, CountOfLanes
    <3> QED BY <1>2, <1>3, <3>1
  <2> QED BY <1>2, <1>3, <2>3, <2>4, WaveAdds
<1> QED BY <1>1, <1>4, <1>5

\* The elected lane executes the body: the totals count what was asked.
LEMMA WaveBodyTotals ==
  ASSUME RecordTypes, Serves, Totals, NEW w \in Waves, WaveBody(w)
  PROVE  Totals'
<1>1. BodyStep(w) /\ w \in Owners /\ Taking(w) = wave[w].alloc /\ wave[w].pc \in BodyPcs /\ PcOf(w) = wave[w].pc
      /\ PcOf(w)' = wave'[w].pc
  BY WaveBodyStep, OwnerFacts DEF WaveBody, PcOf
<1>2. want' = want /\ thread' = thread /\ (\A u \in Waves \ {w} : wave'[u] = wave[u]) /\ Lane(w)' = Lane(w)
      /\ wave'[w].looping = wave[w].looping /\ wave'[w].call = wave[w].call
  BY WantFixed DEF WaveBody, RecordTypes
<1>3. wave'[w].pc = AfterStep[wave[w].pc]
  BY <1>1 DEF BodyStep
<1>4. \A n \in Nodes : mem.total[n] \in Nat
  BY DEF RecordTypes
<1>5. CASE wave[w].pc # "total"
  <2>1. wave'[w].pc \in Counted <=> wave[w].pc \in Counted
    BY <1>1, <1>3, <1>5 DEF BodyPcs, AfterStep, Counted
  <2>2. CountedLanes(w)' = CountedLanes(w) \cup {}
    BY <1>2, <2>1 DEF CountedLanes
  <2>3. mem'.total = mem.total
    BY <1>1, <1>5, BodyEffects
  <2>4. \A n \in Nodes : mem'.total[n] = mem.total[n] + SumOver(CountsOf(Lane(w), n), {})
    BY <1>4, <2>3, SumEmpty
  <2>5. {} \subseteq DOMAIN Lane(w) /\ {} \cap CountedLanes(w) = {}
    OBVIOUS
  <2> QED BY <1>2, <2>2, <2>4, <2>5, WaveAdds
<1>6. CASE wave[w].pc = "total"
  <2> DEFINE A == wave[w].call
             a == wave[w].alloc
  <2>1. A \subseteq wave[w].looping /\ A \subseteq DOMAIN Lane(w) /\ a.count = Total(w, A)
        /\ a.node \in Nodes /\ \A l \in A : Lane(w)[l].node = a.node
    BY <1>6 DEF Serves, WaveServes
  <2>2. mem'.total = [mem.total EXCEPT ![a.node] = @ + a.count]
    BY <1>1, <1>6, BodyEffects
  <2>3. wave'[w].pc \in Counted /\ wave[w].pc \notin Counted
    BY <1>3, <1>6 DEF AfterStep, Counted
  <2>4. CountedLanes(w) = DOMAIN Lane(w) \ wave[w].looping
        /\ CountedLanes(w)' = (DOMAIN Lane(w) \ wave[w].looping) \cup wave[w].call
    BY <1>2, <2>3 DEF CountedLanes
  <2> HIDE DEF A, a
  <2>5. A \cap CountedLanes(w) = {} /\ CountedLanes(w)' = CountedLanes(w) \cup A
    BY <2>1, <2>4 DEF A
  <2>6. \A n \in Nodes : SumOver(CountsOf(Lane(w), n), A) = IF n = a.node THEN a.count ELSE 0
    BY <2>1, CountOfLanes
  <2>7. a.count \in Nat
    BY <2>1, TotalFacts DEF RecordTypes
  <2>8. \A n \in Nodes : mem'.total[n] = mem.total[n] + SumOver(CountsOf(Lane(w), n), A)
    BY <1>4, <2>2, <2>6, <2>7 DEF RecordTypes
  <2> QED BY <1>2, <2>1, <2>5, <2>8, WaveAdds
<1> QED BY <1>5, <1>6

\* Lanes return: the totals count what was asked.
LEMMA WaveReturnTotals ==
  ASSUME RecordTypes, Serves, Totals, NEW w \in Waves, WaveReturn(w)
  PROVE  Totals'
<1> DEFINE v == [wave[w] EXCEPT !.pc = "loop", !.looping = @ \ wave[w].call, !.call = {}, !.alloc = Nothing]
<1>1. /\ wave' = [wave EXCEPT ![w] = v] /\ wave[w].pc = "merge"
      /\ mem' = mem /\ want' = want /\ thread' = thread /\ Lane(w)' = Lane(w)
  BY WantFixed DEF WaveReturn, RecordTypes
<1>2. v.pc = "loop" /\ v.looping = wave[w].looping \ wave[w].call /\ v.call = {}
  BY TypeFacts DEF WaveType
<1> HIDE DEF v
<1>3. wave'[w] = v /\ (\A u \in Waves \ {w} : wave'[u] = wave[u]) /\ \A n \in Nodes : mem.total[n] \in Nat
  BY <1>1 DEF RecordTypes
<1>4. wave[w].call \subseteq DOMAIN Lane(w)
  BY DEF Serves, WaveServes
<1>5. CountedLanes(w)' = CountedLanes(w) \cup {}
  BY <1>1, <1>2, <1>3, <1>4 DEF CountedLanes, Counted
<1>6. \A n \in Nodes : mem'.total[n] = mem.total[n] + SumOver(CountsOf(Lane(w), n), {})
  BY <1>1, <1>3, SumEmpty
<1>7. {} \subseteq DOMAIN Lane(w) /\ {} \cap CountedLanes(w) = {}
  OBVIOUS
<1> QED BY <1>1, <1>3, <1>5, <1>6, <1>7, WaveAdds

\* A lane counts its records: the totals count what was asked.
LEMMA IncrementThreadTotals ==
  ASSUME RecordTypes, Serves, Totals, NEW w \in Waves, NEW l, IncrementThread(w, l)
  PROVE  Totals'
<1> DEFINE v == [wave[w] EXCEPT !.looping = @ \ {l}]
           m == Lane(w)[l].node
           c == Lane(w)[l].count
<1>1. /\ wave' = [wave EXCEPT ![w] = v] /\ wave[w] \in WaveType /\ l \in wave[w].looping
      /\ want' = want /\ thread' = thread /\ want.kind[w] = "increment" /\ Lane(w)' = Lane(w)
  BY TypeFacts, WantFixed DEF IncrementThread
<1>2. wave[w].pc = "loop" /\ wave[w].looping \subseteq DOMAIN Lane(w)
  BY <1>1 DEF Serves, WaveServes
<1>3. v.pc = "loop" /\ v.looping = wave[w].looping \ {l}
  BY <1>1, <1>2 DEF WaveType
<1> HIDE DEF v
<1>4. wave'[w] = v /\ (\A u \in Waves \ {w} : wave'[u] = wave[u]) /\ \A n \in Nodes : mem.total[n] \in Nat
  BY <1>1 DEF RecordTypes
<1>5. {l} \subseteq DOMAIN Lane(w) /\ {l} \cap CountedLanes(w) = {} /\ CountedLanes(w)' = CountedLanes(w) \cup {l}
  BY <1>1, <1>2, <1>3, <1>4 DEF CountedLanes, Counted
<1>6. mem'.total = [mem.total EXCEPT ![m] = @ + c] /\ m \in Nodes /\ c \in Nat
  <2>1. m \in Nodes /\ c \in Nat
    BY <1>1, <1>2, WantFacts, NodeRecordsAssumption DEF RecordTypes, Ask
  <2> QED BY <2>1 DEF IncrementThread, RecordTypes
<1>7. \A n \in Nodes : SumOver(CountsOf(Lane(w), n), {l}) = IF n = m THEN c ELSE 0
  <2> TAKE n \in Nodes
  <2>1. CountsOf(Lane(w), n)[l] = IF m = n THEN c ELSE 0
    BY <1>5 DEF CountsOf
  <2>2. CountsOf(Lane(w), n)[l] \in Nat
    BY <1>6, <2>1
  <2> QED BY <2>1, <2>2, SumOne
<1> HIDE DEF m, c
<1>8. ASSUME NEW n \in Nodes
      PROVE  mem'.total[n] = mem.total[n] + SumOver(CountsOf(Lane(w), n), {l})
  <2>1. mem'.total[n] = mem.total[n] + (IF n = m THEN c ELSE 0)
    BY <1>4, <1>6 DEF RecordTypes
  <2> QED BY <1>7, <2>1
<1> QED BY <1>1, <1>4, <1>5, <1>8, WaveAdds

\* A thread moves on, past no counter.
LEMMA ThreadKeepsTotals ==
  ASSUME RecordTypes, Serves, Totals, want' = want, wave' = wave, mem'.total = mem.total,
         NEW g \in Groups, NEW t \in Thread, NEW v \in ThreadType, thread' = [thread EXCEPT ![g][t] = v],
         t = 0 => \/ /\ v.call = thread[g][0].call
                     /\ v.pc \in Counted \cup Meeting <=> thread[g][0].pc \in Counted \cup Meeting
                  \/ /\ v.call = thread[g][0].call + 1 /\ v.pc \notin Counted \cup Meeting
                     /\ \/ thread[g][0].pc \in Counted \cup Meeting
                        \/ Calls(g)[thread[g][0].call].count = 0 /\ thread[g][0].call <= Len(Calls(g))
  PROVE  Totals'
<1> DEFINE k == thread[g][0].call
<1>1. \A h \in Groups \ {g} : thread'[h] = thread[h]
  BY DEF RecordTypes
<1>2. thread'[g][0] = (IF t = 0 THEN v ELSE thread[g][0]) /\ Calls(g)' = Calls(g)
  BY OwnerFacts, WantFixed DEF RecordTypes
<1>3. k \in 1 .. Len(Calls(g)) + 1 /\ Len(Calls(g)) \in Nat /\ \A n \in Nodes : mem.total[n] \in Nat
  BY OwnerFacts, ThreadFacts DEF RecordTypes
<1> HIDE DEF k
<1>4. CASE \/ t # 0
           \/ v.call = k /\ (v.pc \in Counted \cup Meeting <=> thread[g][0].pc \in Counted \cup Meeting)
           \/ v.call = k + 1 /\ v.pc \notin Counted \cup Meeting /\ thread[g][0].pc \in Counted \cup Meeting
  <2>1. CountedCalls(g)' = CountedCalls(g) \cup {}
    <3>1. CASE t # 0
      BY <1>2, <3>1 DEF CountedCalls
    <3>2. CASE t = 0 /\ v.call = k /\ (v.pc \in Counted \cup Meeting <=> thread[g][0].pc \in Counted \cup Meeting)
      BY <1>2, <3>2 DEF CountedCalls, k
    <3>3. CASE t = 0 /\ v.call = k + 1 /\ v.pc \notin Counted \cup Meeting /\ thread[g][0].pc \in Counted \cup Meeting
      <4>1. CountedCalls(g)' = {i \in 1 .. Len(Calls(g)) : i < k + 1}
        BY <1>2, <3>3 DEF CountedCalls
      <4>2. CountedCalls(g) = {i \in 1 .. Len(Calls(g)) : i < k \/ i = k}
        BY <3>3 DEF CountedCalls, k
      <4>3. \A i \in 1 .. Len(Calls(g)) : i < k + 1 <=> (i < k \/ i = k)
        BY <1>3
      <4> QED BY <4>1, <4>2, <4>3
    <3> QED BY <1>4, <3>1, <3>2, <3>3
  <2>2. \A n \in Nodes : mem'.total[n] = mem.total[n] + SumOver(CountsOf(Calls(g), n), {})
    BY <1>3, SumEmpty
  <2>3. {} \subseteq 1 .. Len(Calls(g)) /\ {} \cap CountedCalls(g) = {}
    OBVIOUS
  <2> QED BY <1>1, <2>1, <2>2, <2>3, GroupAdds
<1>5. CASE t = 0 /\ v.call = k + 1 /\ v.pc \notin Counted \cup Meeting /\ thread[g][0].pc \notin Counted \cup Meeting
           /\ Calls(g)[k].count = 0 /\ k <= Len(Calls(g))
  <2>1. k \in 1 .. Len(Calls(g))
    BY <1>3, <1>5
  <2>2. CountedCalls(g)' = {i \in 1 .. Len(Calls(g)) : i < k + 1} /\ CountedCalls(g) = {i \in 1 .. Len(Calls(g)) : i < k}
    BY <1>2, <1>5 DEF CountedCalls, k
  <2>3. \A i \in 1 .. Len(Calls(g)) : i < k + 1 <=> (i < k \/ i = k)
    BY <1>3
  <2>4. {k} \subseteq 1 .. Len(Calls(g)) /\ {k} \cap CountedCalls(g) = {} /\ CountedCalls(g)' = CountedCalls(g) \cup {k}
    BY <2>1, <2>2, <2>3
  <2>5. \A n \in Nodes : SumOver(CountsOf(Calls(g), n), {k}) = 0
    <3> TAKE n \in Nodes
    <3> DEFINE f == CountsOf(Calls(g), n)
    <3>1. \A i \in 1 .. Len(Calls(g)) : f[i] = IF Calls(g)[i].node = n THEN Calls(g)[i].count ELSE 0
      BY CountedFacts, CountsFacts
    <3> HIDE DEF f
    <3>2. f[k] = 0
      BY <1>5, <2>1, <3>1
    <3>3. SumOver(f, {k}) = f[k]
      BY ONLY <3>2, SumOne
    <3> QED BY <3>2, <3>3 DEF f
  <2>6. ASSUME NEW n \in Nodes
        PROVE  mem'.total[n] = mem.total[n] + SumOver(CountsOf(Calls(g), n), {k})
    <3>1. SumOver(CountsOf(Calls(g), n), {k}) = 0 /\ mem.total[n] \in Nat
      BY <1>3, <2>5
    <3> QED BY <3>1
  <2> QED BY <1>1, <2>4, <2>6, GroupAdds
<1> QED BY <1>4, <1>5 DEF k

\* Waves leave the cookie alone.
LEMMA WavesKeepCookie ==
  ASSUME RecordTypes, Serves, Cookie, NEW w \in Waves, WaveStep(w)
  PROVE  Cookie'
<1>1. mem'.cookie = mem.cookie
  <2>1. CASE EnterCall(w) \/ WaveReturn(w)
    BY <2>1 DEF EnterCall, WaveReturn
  <2>2. CASE WaveBody(w)
    BY <2>2, WaveBodyStep, BodyEffects, OwnerFacts
  <2>3. ASSUME NEW l \in WaveLane, IncrementThread(w, l) PROVE mem'.cookie = mem.cookie
    BY <2>3 DEF IncrementThread, RecordTypes
  <2> QED BY <2>1, <2>2, <2>3 DEF WaveStep
<1>2. thread' = thread
  BY DEF WaveStep, EnterCall, WaveReturn, WaveBody, IncrementThread
<1> QED BY <1>1, <1>2, CookieStays

\* A thread starts an allocation: cookie and totals count what was done.
LEMMA StartAllocateCounts ==
  ASSUME RecordTypes, Serves, Cookie, Totals, NEW g \in Groups, NEW t \in Thread, StartAllocate(g, t)
  PROVE  Cookie' /\ Totals'
<1>1. PICK v \in ThreadType :
           /\ thread' = [thread EXCEPT ![g][t] = v] /\ v.last = thread[g][t].last
           /\ \/ v.pc = "enter" /\ v.call = thread[g][t].call + 1 /\ Empty(g, t)
              \/ v.pc = (IF t = 0 THEN "payload" ELSE "wait") /\ v.call = thread[g][t].call /\ ~ Empty(g, t)
  BY StartAllocateMoves
<1>2. mem' = mem /\ want' = want /\ wave' = wave /\ thread[g][t].pc = "enter" /\ HasCall(g, t)
  BY DEF StartAllocate
<1>3. t = 0 => \/ v.call = thread[g][0].call
                  /\ (v.pc \in Counted \cup Meeting <=> thread[g][0].pc \in Counted \cup Meeting)
               \/ /\ v.call = thread[g][0].call + 1 /\ v.pc \notin Counted \cup Meeting
                  /\ Calls(g)[thread[g][0].call].count = 0 /\ thread[g][0].call <= Len(Calls(g))
  BY <1>1, <1>2 DEF Counted, Meeting, Empty, Current, HasCall
<1>4. t = 0 => /\ v.pc \in Finishing <=> thread[g][0].pc \in Finishing
               /\ v.last = thread[g][0].last
  BY <1>1, <1>2 DEF Finishing
<1>5. Cookie'
  BY <1>1, <1>2, <1>4, ThreadKeepsCookie
<1>6. Totals'
  BY <1>1, <1>2, <1>3, ThreadKeepsTotals
<1> QED BY <1>5, <1>6

\* The first thread executes the body: cookie and totals count what was done.
LEMMA LeaderBodyCounts ==
  ASSUME RecordTypes, Serves, Cookie, Totals, NEW g \in Groups, LeaderBody(g)
  PROVE  Cookie' /\ Totals'
<1> DEFINE k == thread[g][0].call
           a == thread[g][0].alloc
<1>1. BodyStep(g) /\ g \in Owners /\ Taking(g) = a /\ thread[g][0].pc \in BodyPcs /\ PcOf(g) = thread[g][0].pc
      /\ PcOf(g)' = thread'[g][0].pc /\ 0 \in Thread
  BY LeaderBodyStep, OwnerFacts DEF LeaderBody, PcOf
<1>2. want' = want /\ wave' = wave /\ (\A h \in Groups \ {g} : thread'[h] = thread[h]) /\ Calls(g)' = Calls(g)
      /\ thread'[g][0].call = k /\ thread'[g][0].last = thread[g][0].last
  BY <1>1, WantFixed DEF LeaderBody, RecordTypes
<1>3. thread'[g][0].pc = AfterStep[thread[g][0].pc]
  BY <1>1 DEF BodyStep
<1>4. \A n \in Nodes : mem.total[n] \in Nat
  BY DEF RecordTypes
<1>5. Cookie'
  <2>1. mem'.cookie = mem.cookie
    BY <1>1, BodyEffects
  <2>2. thread'[g][0].pc \notin Finishing /\ thread[g][0].pc \notin Finishing
    BY <1>1, <1>3 DEF BodyPcs, AfterStep, Finishing
  <2> QED BY <1>2, <2>1, <2>2, CookieStays
<1>6. CASE thread[g][0].pc # "total"
  <2>1. thread'[g][0].pc \in Counted \cup Meeting <=> thread[g][0].pc \in Counted \cup Meeting
    BY <1>1, <1>3, <1>6 DEF BodyPcs, AfterStep, Counted, Meeting
  <2>2. CountedCalls(g)' = CountedCalls(g) \cup {}
    BY <1>2, <2>1 DEF CountedCalls
  <2>3. mem'.total = mem.total
    BY <1>1, <1>6, BodyEffects
  <2>4. \A n \in Nodes : mem'.total[n] = mem.total[n] + SumOver(CountsOf(Calls(g), n), {})
    BY <1>4, <2>3, SumEmpty
  <2>5. {} \subseteq 1 .. Len(Calls(g)) /\ {} \cap CountedCalls(g) = {}
    OBVIOUS
  <2>6. Totals'
    BY <1>2, <2>2, <2>4, <2>5, GroupAdds
  <2> QED BY <1>5, <2>6
<1>7. CASE thread[g][0].pc = "total"
  <2>1. /\ k \in 1 .. Len(Calls(g)) + 1 /\ k <= Len(Calls(g)) /\ Len(Calls(g)) \in Nat
        /\ a.node = Calls(g)[k].node /\ a.count = Calls(g)[k].count
    BY <1>1, <1>7, ThreadFacts DEF ThreadServes, Allocates, Serving, BodyPcs
  <2>2. mem'.total = [mem.total EXCEPT ![a.node] = @ + a.count]
    BY <1>1, <1>7, BodyEffects
  <2>3. thread'[g][0].pc \in Counted \cup Meeting /\ thread[g][0].pc \notin Counted \cup Meeting
    BY <1>3, <1>7 DEF AfterStep, Counted, Meeting
  <2>4. CountedCalls(g) = {i \in 1 .. Len(Calls(g)) : i < k}
        /\ CountedCalls(g)' = {i \in 1 .. Len(Calls(g)) : i < k \/ i = k}
    BY <1>2, <2>3 DEF CountedCalls
  <2> HIDE DEF a, k
  <2>5. {k} \subseteq 1 .. Len(Calls(g)) /\ {k} \cap CountedCalls(g) = {} /\ CountedCalls(g)' = CountedCalls(g) \cup {k}
    BY <2>1, <2>4
  <2>6. a.node \in Nodes /\ a.count \in Nat
    BY <2>1, CallFacts DEF RecordTypes
  <2>7. ASSUME NEW n \in Nodes
        PROVE  mem'.total[n] = mem.total[n] + SumOver(CountsOf(Calls(g), n), {k})
    <3> DEFINE f == CountsOf(Calls(g), n)
    <3>1. f[k] = IF a.node = n THEN a.count ELSE 0
      BY <2>1, <2>5 DEF CountsOf
    <3>2. f[k] \in Nat
      BY <2>6, <3>1
    <3> HIDE DEF f
    <3>3. SumOver(f, {k}) = f[k]
      BY ONLY <3>2, SumOne
    <3>4. mem'.total[n] = mem.total[n] + (IF a.node = n THEN a.count ELSE 0)
      BY <1>4, <2>2, <2>6 DEF RecordTypes
    <3> QED BY <3>1, <3>3, <3>4 DEF f
  <2>8. Totals'
    BY <1>2, <2>5, <2>7, GroupAdds
  <2> QED BY <1>5, <2>8
<1> QED BY <1>6, <1>7

\* A thread goes on in its call.
LEMMA SameCallCounts ==
  ASSUME RecordTypes, Serves, Cookie, Totals, want' = want, wave' = wave, mem' = mem,
         NEW g \in Groups, NEW t \in Thread, NEW v \in ThreadType, thread' = [thread EXCEPT ![g][t] = v],
         v.call = thread[g][t].call, t = 0 => v.last = thread[g][0].last,
         \/ thread[g][t].pc \in {"merge"} \cup Meeting /\ v.pc \in Meeting
         \/ thread[g][t].pc \in Finishing /\ v.pc \in Finishing
  PROVE  Cookie' /\ Totals'
<1>1. /\ v.pc \in Counted \cup Meeting <=> thread[g][t].pc \in Counted \cup Meeting
      /\ v.pc \in Finishing <=> thread[g][t].pc \in Finishing
  BY DEF Counted, Meeting, Finishing
<1>2. Cookie'
  BY <1>1, ThreadKeepsCookie
<1>3. Totals'
  BY <1>1, ThreadKeepsTotals
<1> QED BY <1>2, <1>3

\* The first thread shares the offset: cookie and totals count what was done.
LEMMA LeaderSharesCounts ==
  ASSUME RecordTypes, Serves, Cookie, Totals, NEW g \in Groups, LeaderShares(g)
  PROVE  Cookie' /\ Totals'
<1> DEFINE v == Arrive(thread[g][0], "wait")
<1>1. /\ thread[g][0].pc = "merge" /\ 0 \in Thread /\ thread[g][0] \in ThreadType
      /\ thread' = [thread EXCEPT ![g][0] = v] /\ mem' = mem /\ want' = want /\ wave' = wave
  BY OwnerFacts, TypeFacts DEF LeaderShares
<1>2. v \in ThreadType /\ v.pc \in Meeting /\ v.call = thread[g][0].call /\ v.last = thread[g][0].last
  BY <1>1, StepFacts DEF Meeting
<1> HIDE DEF v
<1> QED BY <1>1, <1>2, SameCallCounts

\* A thread reads the shared offset: cookie and totals count what was done.
LEMMA ReadSharedCounts ==
  ASSUME RecordTypes, Serves, Cookie, Totals, NEW g \in Groups, NEW t \in Thread, ReadShared(g, t)
  PROVE  Cookie' /\ Totals'
<1> DEFINE v == ReturnAfterBarrier(thread[g][t])
<1>1. /\ thread[g][t].pc = "wait" /\ thread[g][t] \in ThreadType
      /\ thread' = [thread EXCEPT ![g][t] = v] /\ mem' = mem /\ want' = want /\ wave' = wave
  BY TypeFacts DEF ReadShared
<1>2. v \in ThreadType /\ v.pc \in Meeting /\ v.call = thread[g][t].call /\ v.last = thread[g][t].last
      /\ thread[g][t].pc \in Meeting
  BY <1>1, StepFacts DEF Meeting, ReturnAfterBarrier
<1> HIDE DEF v
<1> QED BY <1>1, <1>2, SameCallCounts

\* A thread passes the second barrier: cookie and totals count what was done.
LEMMA LeaveAllocateCounts ==
  ASSUME RecordTypes, Serves, Cookie, Totals, NEW g \in Groups, NEW t \in Thread, LeaveAllocate(g, t)
  PROVE  Cookie' /\ Totals'
<1> DEFINE v == NextCall(thread[g][t])
<1>1. /\ thread[g][t].pc = "leave" /\ thread[g][t] \in ThreadType
      /\ thread' = [thread EXCEPT ![g][t] = v] /\ mem' = mem /\ want' = want /\ wave' = wave
  BY TypeFacts DEF LeaveAllocate
<1>2. v \in ThreadType /\ v.pc = "enter" /\ v.call = thread[g][t].call + 1 /\ v.last = thread[g][t].last
  BY <1>1, StepFacts
<1> HIDE DEF v
<1>3. /\ v.pc \notin Counted \cup Meeting /\ v.pc \notin Finishing
      /\ thread[g][t].pc \in Counted \cup Meeting /\ thread[g][t].pc \notin Finishing
  BY <1>1, <1>2 DEF Counted, Meeting, Finishing
<1>4. Cookie'
  BY <1>1, <1>2, <1>3, ThreadKeepsCookie
<1>5. Totals'
  BY <1>1, <1>2, <1>3, ThreadKeepsTotals
<1> QED BY <1>4, <1>5

\* The first thread counts for its group: cookie and totals count what was done.
LEMMA IncrementGroupCounts ==
  ASSUME RecordTypes, Serves, Cookie, Totals, NEW g \in Groups, NEW t \in Thread, IncrementGroup(g, t)
  PROVE  Cookie' /\ Totals'
<1> DEFINE v == NextCall(thread[g][t])
           k == thread[g][t].call
           m == Calls(g)[k].node
           c == Calls(g)[k].count
<1>1. /\ thread[g][t].pc = "enter" /\ thread[g][t] \in ThreadType /\ k <= Len(Calls(g)) /\ 0 \in Thread
      /\ thread' = [thread EXCEPT ![g][t] = v] /\ want' = want /\ wave' = wave /\ Calls(g)' = Calls(g)
  BY TypeFacts, WantFixed, OwnerFacts DEF IncrementGroup, HasCall
<1>2. v \in ThreadType /\ v.pc = "enter" /\ v.call = k + 1 /\ v.last = thread[g][t].last
  BY <1>1, StepFacts
<1> HIDE DEF v
<1>3. /\ v.pc \notin Counted \cup Meeting /\ v.pc \notin Finishing
      /\ thread[g][t].pc \notin Counted \cup Meeting /\ thread[g][t].pc \notin Finishing
  BY <1>1, <1>2 DEF Counted, Meeting, Finishing
<1>4. mem'.cookie = mem.cookie
  BY DEF IncrementGroup, RecordTypes
<1>5. Cookie'
  BY <1>1, <1>2, <1>3, <1>4, ThreadKeepsCookie
<1>6. CASE t # 0
  <2>1. mem'.total = mem.total
    BY <1>6 DEF IncrementGroup
  <2>2. Totals'
    BY <1>1, <1>2, <1>6, <2>1, ThreadKeepsTotals
  <2> QED BY <1>5, <2>2
<1>7. CASE t = 0
  <2>1. k \in 1 .. Len(Calls(g)) /\ m \in Nodes /\ c \in Nat
    BY <1>1, ThreadFacts DEF Current
  <2>2. mem'.total = [mem.total EXCEPT ![m] = @ + c]
    BY <1>7, <2>1 DEF IncrementGroup, RecordTypes, Current
  <2>3. thread'[g][0] = v /\ (\A h \in Groups \ {g} : thread'[h] = thread[h])
    BY <1>1, <1>7 DEF RecordTypes
  <2>4. CountedCalls(g) = {i \in 1 .. Len(Calls(g)) : i < k}
        /\ CountedCalls(g)' = {i \in 1 .. Len(Calls(g)) : i < k + 1}
    BY <1>1, <1>2, <1>3, <1>7, <2>3 DEF CountedCalls
  <2> HIDE DEF k
  <2>5. \A i \in 1 .. Len(Calls(g)) : i < k + 1 <=> (i < k \/ i = k)
    BY <2>1
  <2>6. {k} \subseteq 1 .. Len(Calls(g)) /\ {k} \cap CountedCalls(g) = {} /\ CountedCalls(g)' = CountedCalls(g) \cup {k}
    BY <2>1, <2>4, <2>5
  <2>7. ASSUME NEW n \in Nodes
        PROVE  mem'.total[n] = mem.total[n] + SumOver(CountsOf(Calls(g), n), {k})
    <3> DEFINE f == CountsOf(Calls(g), n)
    <3>1. f[k] = IF m = n THEN c ELSE 0
      BY <2>6 DEF CountsOf
    <3>2. f[k] \in Nat
      BY <2>1, <3>1
    <3> HIDE DEF f
    <3>3. SumOver(f, {k}) = f[k]
      BY ONLY <3>2, SumOne
    <3> HIDE DEF m, c
    <3>4. mem'.total[n] = mem.total[n] + (IF m = n THEN c ELSE 0)
      BY <2>1, <2>2 DEF RecordTypes
    <3> QED BY <3>1, <3>3, <3>4 DEF f
  <2>8. Totals'
    BY <1>1, <2>3, <2>6, <2>7, GroupAdds
  <2> QED BY <1>5, <2>8
<1> QED BY <1>6, <1>7

\* A thread starts to finish: cookie and totals count what was done.
LEMMA StartFinishCounts ==
  ASSUME RecordTypes, Serves, Cookie, Totals, NEW g \in Groups, NEW t \in Thread, StartFinish(g, t)
  PROVE  Cookie' /\ Totals'
<1>1. PICK v \in ThreadType :
           /\ thread' = [thread EXCEPT ![g][t] = v] /\ v.call = thread[g][t].call
           /\ IF t = 0 THEN v.pc = "publish" /\ v.last = IsLast(mem.cookie) ELSE v.pc = "finish"
  BY StartFinishMoves
<1>2. want' = want /\ wave' = wave /\ thread[g][t].pc = "enter" /\ mem'.total = mem.total
      /\ mem'.cookie = IF t = 0 THEN mem.cookie - 1 ELSE mem.cookie
  BY DEF StartFinish, RecordTypes
<1>3. Cookie'
  <2>1. CASE t = 0
    <3>1. thread[g][0].pc \notin Finishing /\ v.pc \in Finishing
      BY <1>1, <1>2, <2>1 DEF Finishing
    <3> QED BY <1>1, <1>2, <2>1, <3>1, FinishCounts
  <2>2. CASE t # 0
    BY <1>1, <1>2, <2>2, ThreadKeepsCookie
  <2> QED BY <2>1, <2>2
<1>4. t = 0 => v.call = thread[g][0].call
               /\ (v.pc \in Counted \cup Meeting <=> thread[g][0].pc \in Counted \cup Meeting)
  BY <1>1, <1>2 DEF Counted, Meeting
<1>5. Totals'
  BY <1>1, <1>2, <1>4, ThreadKeepsTotals
<1> QED BY <1>3, <1>5

\* The first thread shares whether its group is the last: cookie and totals count what was done.
LEMMA PublishLastCounts ==
  ASSUME RecordTypes, Serves, Cookie, Totals, NEW g \in Groups, PublishLast(g)
  PROVE  Cookie' /\ Totals'
<1> DEFINE v == Arrive(thread[g][0], "finish")
<1>1. /\ thread[g][0].pc = "publish" /\ 0 \in Thread /\ thread[g][0] \in ThreadType
      /\ thread' = [thread EXCEPT ![g][0] = v] /\ mem' = mem /\ want' = want /\ wave' = wave
  BY OwnerFacts, TypeFacts DEF PublishLast
<1>2. v \in ThreadType /\ v.pc \in Finishing /\ v.call = thread[g][0].call /\ v.last = thread[g][0].last
      /\ thread[g][0].pc \in Finishing
  BY <1>1, StepFacts DEF Finishing
<1> HIDE DEF v
<1> QED BY <1>1, <1>2, SameCallCounts

\* A thread reads whether its group is the last: cookie and totals count what was done.
LEMMA ReadLastCounts ==
  ASSUME RecordTypes, Serves, Met, Cookie, Totals, NEW g \in Groups, NEW t \in Thread, ReadLast(g, t)
  PROVE  Cookie' /\ Totals'
<1>1. PICK v \in ThreadType :
           /\ thread' = [thread EXCEPT ![g][t] = v] /\ v.call = thread[g][t].call /\ v.pc = "done"
           /\ t = 0 => v.last = thread[g][0].last
  BY ReadLastMoves
<1>2. mem' = mem /\ want' = want /\ wave' = wave /\ thread[g][t].pc \in Finishing /\ v.pc \in Finishing
  BY <1>1 DEF ReadLast, Finishing
<1> QED BY <1>1, <1>2, SameCallCounts

RecordsParts == RecordTypes /\ Serves /\ Met /\ Memory /\ Cookie /\ Totals

\* The invariant in the parts that the steps preserve.
LEMMA Parts == RecordsInv <=> RecordsParts
BY DEF RecordsInv, RecordsParts, Met, Memory

\* Every step of a wave preserves the invariant.
LEMMA WaveStepKeeps ==
  ASSUME RecordsParts, NEW w \in Waves, WaveStep(w)
  PROVE  RecordsParts'
<1>0. RecordTypes /\ Serves /\ Met /\ Memory /\ Cookie /\ Totals
  BY DEF RecordsParts
<1>1. want' = want /\ thread' = thread /\ shared' = shared
  BY DEF WaveStep, EnterCall, WaveBody, WaveReturn, IncrementThread
<1>2. Met' /\ Cookie'
  BY <1>0, <1>1, WavesMet, WavesKeepCookie
<1>3. RecordTypes' /\ Serves' /\ Memory' /\ Totals'
  <2>1. CASE EnterCall(w)
    BY <1>0, <2>1, EnterCallTypes, EnterCallMemory, EnterCallTotals
  <2>2. CASE WaveBody(w)
    BY <1>0, <2>2, WaveBodyTypes, WaveBodyMemory, WaveBodyTotals
  <2>3. CASE WaveReturn(w)
    BY <1>0, <2>3, WaveReturnTypes, WaveReturnMemory, WaveReturnTotals
  <2>4. CASE \E l \in WaveLane : IncrementThread(w, l)
    BY <1>0, <2>4, IncrementThreadTypes, IncrementThreadMemory, IncrementThreadTotals
  <2> QED BY <2>1, <2>2, <2>3, <2>4 DEF WaveStep
<1> QED BY <1>2, <1>3 DEF RecordsParts

\* Every step of a thread preserves the invariant.
LEMMA ThreadStepKeeps ==
  ASSUME RecordsParts, NEW g \in Groups, NEW t \in Thread, ThreadStep(g, t)
  PROVE  RecordsParts'
<1>0. RecordTypes /\ Serves /\ Met /\ Memory /\ Cookie /\ Totals
  BY DEF RecordsParts
<1> USE DEF RecordsParts
<1>1. CASE StartAllocate(g, t)
  BY <1>0, <1>1, StartAllocateTypes, StartAllocateMet, StartAllocateMemory, StartAllocateCounts
<1>2. CASE ReadShared(g, t)
  BY <1>0, <1>2, ReadSharedTypes, ReadSharedMet, ReadSharedMemory, ReadSharedCounts
<1>3. CASE LeaveAllocate(g, t)
  <2>1. Met'
    BY <1>0, <1>3, NextCallMet DEF LeaveAllocate
  <2> QED BY <1>0, <1>3, <2>1, LeaveAllocateTypes, LeaveAllocateMemory, LeaveAllocateCounts
<1>4. CASE IncrementGroup(g, t)
  <2>1. ~ Allocates(g, thread[g][t].call) /\ thread[g][t].pc = "enter"
    BY <1>4 DEF IncrementGroup, Allocates, Current
  <2>2. want' = want /\ shared' = shared /\ thread' = [thread EXCEPT ![g][t] = NextCall(thread[g][t])]
    BY <1>4 DEF IncrementGroup
  <2>3. Met'
    BY <1>0, <2>1, <2>2, NextCallMet
  <2> QED BY <1>0, <1>4, <2>3, IncrementGroupTypes, IncrementGroupMemory, IncrementGroupCounts
<1>5. CASE StartFinish(g, t)
  BY <1>0, <1>5, StartFinishTypes, StartFinishMet, StartFinishMemory, StartFinishCounts
<1>6. CASE ReadLast(g, t)
  BY <1>0, <1>6, ReadLastTypes, ReadLastMet, ReadLastMemory, ReadLastCounts
<1>7. CASE LeaderBody(g)
  BY <1>0, <1>7, LeaderBodyTypes, LeaderBodyMet, LeaderBodyMemory, LeaderBodyCounts
<1>8. CASE LeaderShares(g)
  BY <1>0, <1>8, LeaderSharesTypes, LeaderSharesMet, LeaderSharesMemory, LeaderSharesCounts
<1>9. CASE PublishLast(g)
  BY <1>0, <1>9, PublishLastTypes, PublishLastMet, PublishLastMemory, PublishLastCounts
<1> QED BY <1>1, <1>2, <1>3, <1>4, <1>5, <1>6, <1>7, <1>8, <1>9 DEF ThreadStep

\* A step that changes nothing preserves the invariant.
LEMMA RecordsStutter == ASSUME RecordsInv, UNCHANGED nvars PROVE RecordsInv'
<1>0. mem' = mem /\ want' = want /\ wave' = wave /\ thread' = thread /\ shared' = shared /\ got' = got
  BY DEF nvars
<1>1. /\ \A o : PcOf(o)' = PcOf(o) /\ Taking(o)' = Taking(o)
      /\ \A o, r : Own(o, r)' <=> Own(o, r)
  BY <1>0 DEF PcOf, Taking, Own
<1>2. \A w \in Waves : Lane(w)' = Lane(w) /\ (\A S : Total(w, S)' = Total(w, S)) /\ CountedLanes(w)' = CountedLanes(w)
  BY <1>0, WantFixed DEF CountedLanes
<1>3. \A g \in Groups : Calls(g)' = Calls(g) /\ CountedCalls(g)' = CountedCalls(g)
        /\ \A k : (Allocates(g, k)' <=> Allocates(g, k)) /\ Behind(g, k)' = Behind(g, k)
  BY <1>0, WantFixed DEF CountedCalls
<1>4. RecordTypes'
  BY <1>0 DEF RecordsInv, RecordTypes
<1>5. Serves'
  BY <1>0, <1>2, <1>3 DEF RecordsInv, Serves, WaveServes, ThreadServes
<1>6. \A g \in Groups : InStep(g)' /\ Shares(g)'
  BY <1>0, <1>3 DEF RecordsInv, InStep, Shares
<1>7. Given'
  BY <1>0 DEF RecordsInv, Given, Lane
<1>8. Regions'
  BY <1>0, <1>1 DEF RecordsInv, Regions, RegionEnd, RecordsDisjoint, Apart
<1>9. Slots'
  BY <1>0, <1>1 DEF RecordsInv, Slots, Covers, Header
<1>10. Cookie'
  BY <1>0 DEF RecordsInv, Cookie, Unfinished
<1>11. Totals'
  BY <1>0, <1>2, <1>3 DEF RecordsInv, Totals, WaveTotal, GroupTotal, CountsOf
<1> QED BY <1>4, <1>5, <1>6, <1>7, <1>8, <1>9, <1>10, <1>11 DEF RecordsInv

\* When nothing runs, every lane and every call has passed the counter.
LEMMA AskedAtTheEnd ==
  ASSUME RecordsInv, Quiet, NEW n \in Nodes
  PROVE  mem.total[n] = AskedOf(n)
<1>1. \A w \in Waves : CountedLanes(w) = DOMAIN Lane(w) /\ WaveTotal(w, n) = SumOver(CountsOf(Lane(w), n), DOMAIN Lane(w))
  BY DEF Quiet, CountedLanes, Counted, WaveTotal
<1>2. ASSUME NEW g \in Groups
      PROVE  CountedCalls(g) = DOMAIN Calls(g) /\ GroupTotal(g, n) = SumOver(CountsOf(Calls(g), n), DOMAIN Calls(g))
  <2>1. ~ (thread[g][0].call <= Len(Calls(g)))
    BY OwnerFacts DEF Quiet, ThreadDone, HasCall
  <2>2. thread[g][0].call = Len(Calls(g)) + 1 /\ Len(Calls(g)) \in Nat /\ DOMAIN Calls(g) = 1 .. Len(Calls(g))
    BY <2>1, OwnerFacts, ThreadFacts, CallFacts DEF RecordsInv, RecordTypes
  <2>3. \A i \in 1 .. Len(Calls(g)) : i < thread[g][0].call
    BY <2>2
  <2>4. CountedCalls(g) = DOMAIN Calls(g)
    BY <2>2, <2>3 DEF CountedCalls
  <2> QED BY <2>4 DEF GroupTotal
<1>3. [w \in Waves |-> WaveTotal(w, n)] = [w \in Waves |-> SumOver(CountsOf(Lane(w), n), DOMAIN Lane(w))]
  BY <1>1
<1>4. [g \in Groups |-> GroupTotal(g, n)] = [g \in Groups |-> SumOver(CountsOf(Calls(g), n), DOMAIN Calls(g))]
  BY <1>2
<1>5. mem.total[n] = SumOver([w \in Waves |-> WaveTotal(w, n)], Waves) + SumOver([g \in Groups |-> GroupTotal(g, n)], Groups)
  BY DEF RecordsInv, Totals
<1>6. AskedOf(n) = SumOver([w \in Waves |-> SumOver(CountsOf(Lane(w), n), DOMAIN Lane(w))], Waves)
                   + SumOver([g \in Groups |-> SumOver(CountsOf(Calls(g), n), DOMAIN Calls(g))], Groups)
  BY DEF AskedOf, CountsOf
<1> QED BY <1>3, <1>4, <1>5, <1>6

\* When nothing runs, the group that counted down to nothing is the last, and all its threads know.
LEMMA LastAtTheEnd == ASSUME RecordsInv PROVE OneGroupIsLast
<1> SUFFICES ASSUME want.finish, Quiet
             PROVE  \E g \in Groups : \A h \in Groups : \A t \in Thread : thread[h][t].last <=> h = g
  BY DEF OneGroupIsLast
<1>1. \A h \in Groups : \A t \in Thread : thread[h][t].pc = "done"
  BY DEF Quiet, ThreadDone
<1>2. \A h \in Groups : \A t \in Thread : thread[h][t].last = thread[h][0].last
  BY <1>1, OwnerFacts DEF RecordsInv, Shares
<1>3. Unfinished = {}
  BY <1>1, OwnerFacts DEF Unfinished, Finishing
<1>4. PICK g \in Groups : thread[g][0].last
  BY <1>3 DEF RecordsInv, Cookie
<1>5. \A h \in Groups : thread[h][0].last => h = g
  BY <1>3, <1>4 DEF RecordsInv, Cookie
<1>6. ASSUME NEW h \in Groups, NEW t \in Thread PROVE thread[h][t].last <=> h = g
  BY <1>2, <1>4, <1>5
<1> QED BY <1>6

\* The invariant implies the property.
LEMMA RecordsEnough == RecordsInv => RecordsSound
<1> SUFFICES ASSUME RecordsInv PROVE RecordsSound
  OBVIOUS
<1>1. RecordsDisjoint
  BY DEF RecordsInv, Regions
<1>2. \A r \in got : r.count > 0 => Listed(r)
  BY DEF RecordsInv, Slots, Covers, Listed
<1> QED BY <1>1, <1>2, AskedAtTheEnd, LastAtTheEnd DEF RecordsSound, ListIsComplete

\* build_allocate_node_records, build_allocate_node_records_waterfall,
\* build_increment_node_count and build_finish_cross_group_sharing: however many
\* waves, lanes, groups and threads ask for records at the same time and in
\* whichever order their atomics, loads, stores and barriers interleave, no two
\* allocations share memory, every record is on the fused list under its node, the
\* node totals are what was asked for when all is done, and exactly one group
\* learns that it is the last.
THEOREM NRRecordsSound == NRSpec => []RecordsSound
<1>1. NRInit => RecordsInv
  BY RecordsInit
<1>2. RecordsInv /\ [NRNext]_nvars => RecordsInv'
  <2> SUFFICES ASSUME RecordsInv, [NRNext]_nvars PROVE RecordsInv'
    OBVIOUS
  <2>1. CASE UNCHANGED nvars
    BY <2>1, RecordsStutter
  <2>2. ASSUME NEW w \in Waves, WaveStep(w) PROVE RecordsInv'
    <3>1. RecordsParts
      BY Parts
    <3>2. RecordsParts'
      BY <2>2, <3>1, WaveStepKeeps
    <3> QED BY <3>2 DEF RecordsInv, RecordsParts, Met, Memory
  <2>3. ASSUME NEW g \in Groups, NEW t \in Thread, ThreadStep(g, t) PROVE RecordsInv'
    <3>1. RecordsParts
      BY Parts
    <3>2. RecordsParts'
      BY <2>3, <3>1, ThreadStepKeeps
    <3> QED BY <3>2 DEF RecordsInv, RecordsParts, Met, Memory
  <2> QED BY <2>1, <2>2, <2>3 DEF NRNext
<1> QED BY <1>1, <1>2, RecordsEnough, PTL DEF NRSpec

=============================================================================
