------------------------ MODULE RecomputeCFG_proofs -------------------------
(***************************************************************************)
(* Proofs about RecomputeCFG: the dominators, the reachability and the     *)
(* dominance frontiers that recompute_cfg leaves are those of the          *)
(* function, for every function and however often it is repeated, unless   *)
(* the run itself has added a branch.                                      *)
(*                                                                         *)
(* The argument.  The recursive functions of the model are replaced by     *)
(* what they solve: the walk up the dominators by the set of blocks it     *)
(* meets (Walk), dominance and reachability by closed sets of blocks       *)
(* (Dom, Reached).  FlowInv says what every traversal leaves: branches     *)
(* that lead to lower post-order numbers and are recorded at both ends,    *)
(* and calls that lead from a loop header to the block that closes the     *)
(* loop (TreeInv), which is why a reducible function is dominated as if    *)
(* it had no back edges.  From there DomInv, ReachInv and FrontInv follow  *)
(* the loops of the passes block by block; what the passes add to the      *)
(* function afterwards stays inside of the live blocks (LinkFlow), so      *)
(* that the next run finds what this one found.                            *)
(***************************************************************************)
EXTENDS RecomputeCFG, CFGVisit_proofs, TLAPS

-----------------------------------------------------------------------------
(* Reachability and dominance in any graph.                                *)

\* The members of a set of branches are pairs.
Pairs(E) == \A e \in E : e = <<e[1], e[2]>>

\* Block b of V is reached from the entry through block a only.
Dom(V, E, a, b) == b \in OnlyThrough(V, E, entry_block, a)

\* What is reached is closed, and in every closed set.
LEMMA ReachedFacts ==
  ASSUME NEW V, NEW E, NEW s \in V
  PROVE  /\ Reached(V, E, s) \subseteq V /\ s \in Reached(V, E, s)
         /\ Reached(V, E, s) \in ClosedSets(V, E, s)
         /\ \A S \in ClosedSets(V, E, s) : Reached(V, E, s) \subseteq S
BY DEF Reached, ClosedSets

\* What is reached from a node: itself and what its successors reach.
LEMMA ReachedEquation ==
  ASSUME NEW V, NEW E, Pairs(E), NEW s \in V
  PROVE  Reached(V, E, s) = {s} \cup UNION {Reached(V, E, t) : t \in {u \in V : <<s, u>> \in E}}
<1> DEFINE next == {u \in V : <<s, u>> \in E}
           S == {s} \cup UNION {Reached(V, E, t) : t \in next}
<1>1. S \in ClosedSets(V, E, s)
  <2>1. S \subseteq V /\ s \in S
    <3>1. \A t \in next : Reached(V, E, t) \subseteq V
      BY ReachedFacts
    <3> QED BY <3>1
  <2>2. ASSUME NEW e \in E, e[1] \in S, e[2] \in V
        PROVE  e[2] \in S
    <3>1. CASE e[1] = s
      <4>1. e[2] \in next
        BY <2>2, <3>1 DEF Pairs
      <4> QED BY <4>1, ReachedFacts
    <3>2. CASE e[1] # s
      <4>1. PICK t \in next : e[1] \in Reached(V, E, t)
        BY <2>2, <3>2
      <4>2. e[2] \in Reached(V, E, t)
        BY <4>1, <2>2, ReachedFacts DEF ClosedSets
      <4> QED BY <4>1, <4>2
    <3> QED BY <3>1, <3>2
  <2> QED BY <2>1, <2>2 DEF ClosedSets
<1>2. \A t \in next : Reached(V, E, t) \subseteq Reached(V, E, s)
  <2> SUFFICES ASSUME NEW t \in next PROVE Reached(V, E, t) \subseteq Reached(V, E, s)
    OBVIOUS
  <2>1. t \in Reached(V, E, s)
    <3>1. <<s, t>> \in E /\ <<s, t>>[1] = s /\ <<s, t>>[2] = t
      OBVIOUS
    <3> QED BY <3>1, ReachedFacts DEF ClosedSets
  <2>2. Reached(V, E, s) \in ClosedSets(V, E, t)
    BY <2>1, ReachedFacts DEF ClosedSets
  <2> QED BY <2>2, ReachedFacts
<1>3. Reached(V, E, s) \subseteq S
  <2> HIDE DEF S
  <2> QED BY <1>1, ReachedFacts
<1>4. S \subseteq Reached(V, E, s)
  <2>1. s \in Reached(V, E, s)
    BY ReachedFacts
  <2> HIDE DEF next
  <2> QED BY <1>2, <2>1
<1> QED BY <1>3, <1>4

\* A block dominates itself, the entry every block, and nothing else the entry.
LEMMA DomBasics ==
  ASSUME NEW V, NEW E, entry_block \in V, NEW a \in V
  PROVE  /\ Dom(V, E, a, a) /\ Dom(V, E, entry_block, a)
         /\ Dom(V, E, a, entry_block) => a = entry_block
         /\ \A n : Dom(V, E, a, n) => n \in V
<1>1. ASSUME a # entry_block
      PROVE  entry_block \in Reached(V \ {a}, E, entry_block)
  BY <1>1, ReachedFacts
<1> QED BY <1>1 DEF Dom, OnlyThrough

\* A block is dominated by itself and by what dominates all its predecessors.
LEMMA DomEquation ==
  ASSUME NEW V, NEW E, Pairs(E), entry_block \in V, NEW a \in V, NEW n \in V, n # entry_block
  PROVE  Dom(V, E, a, n) <=> a = n \/ \A p \in V : <<p, n>> \in E => Dom(V, E, a, p)
<1>1. CASE a = entry_block \/ a = n
  BY <1>1, DomBasics
<1>2. CASE a # entry_block /\ a # n
  <2> DEFINE W == V \ {a}
             R == Reached(W, E, entry_block)
  <2>1. entry_block \in W /\ n \in W
    BY <1>2
  <2>2. \A p \in V : Dom(V, E, a, p) <=> p = a \/ p \notin R
    BY <1>2 DEF Dom, OnlyThrough
  <2>3. /\ R \subseteq W /\ entry_block \in R /\ R \in ClosedSets(W, E, entry_block)
        /\ \A S \in ClosedSets(W, E, entry_block) : R \subseteq S
    BY <2>1, ReachedFacts
  <2> HIDE DEF R, W
  <2>4. ASSUME NEW p \in V, <<p, n>> \in E, ~ Dom(V, E, a, p)
        PROVE  ~ Dom(V, E, a, n)
    <3>1. <<p, n>>[1] \in R /\ <<p, n>>[2] = n
      BY <2>4, <2>2
    <3>2. n \in R
      BY <3>1, <2>1, <2>3, <2>4 DEF ClosedSets
    <3> QED BY <3>2, <2>2, <1>2
  <2>5. ASSUME \A p \in V : <<p, n>> \in E => Dom(V, E, a, p)
        PROVE  Dom(V, E, a, n)
    <3>1. SUFFICES ASSUME n \in R PROVE FALSE
      BY <2>2
    <3>2. ASSUME NEW e \in E, e[1] \in R \ {n}, e[2] \in W
          PROVE  e[2] \in R \ {n}
      <4>1. e[2] \in R
        BY <3>2, <2>3 DEF ClosedSets
      <4>2. e[2] # n
        <5>1. SUFFICES ASSUME e[2] = n PROVE FALSE
          OBVIOUS
        <5>2. <<e[1], n>> \in E
          BY <3>2, <5>1 DEF Pairs
        <5>3. e[1] \in V /\ e[1] # a
          BY <3>2, <2>3 DEF W
        <5> QED BY <5>2, <5>3, <2>5, <2>2, <3>2
      <4> QED BY <4>1, <4>2
    <3>3. R \ {n} \in ClosedSets(W, E, entry_block)
      BY <3>2, <2>3 DEF ClosedSets
    <3> QED BY <3>3, <3>1, <2>3
  <2> QED BY <2>4, <2>5, <1>2
<1> QED BY <1>1, <1>2

-----------------------------------------------------------------------------
(* Graphs whose branches descend, as those of the function without its     *)
(* back edges do.                                                          *)

\* The blocks V have different numbers o up to k, the branches E go from higher to
\* lower ones, and every block but the entry has a predecessor.
Descending(V, E, o, k) ==
  /\ Pairs(E) /\ k \in Nat /\ entry_block \in V
  /\ \A n \in V : o[n] \in 1 .. k
  /\ \A m, n \in V : o[m] = o[n] => m = n
  /\ \A m \in V : \A n : <<m, n>> \in E => n \in V /\ n # entry_block /\ o[n] < o[m]
  /\ \A n \in V : n # entry_block => \E p \in V : <<p, n>> \in E

\* Some members of a set of blocks have the highest and the lowest number.
LEMMA Extremes ==
  ASSUME NEW V, NEW E, NEW o, NEW k, Descending(V, E, o, k), NEW T, T \subseteq V, T # {}
  PROVE  /\ \E x \in T : \A y \in T : o[y] <= o[x]
         /\ \E x \in T : \A y \in T : o[x] <= o[y]
<1>1. \A n \in T : o[n] \in 1 .. k
  BY DEF Descending
<1>2. k \in Nat
  BY DEF Descending
<1>4. PICK x \in {o[n] : n \in T} : \A y \in {o[n] : n \in T} : x <= y
  <2>1. {o[n] : n \in T} \subseteq Nat
    BY <1>1
  <2> QED BY <2>1, Least
<1>5. PICK z \in {k - o[n] : n \in T} : \A y \in {k - o[n] : n \in T} : z <= y
  <2>1. {k - o[n] : n \in T} \subseteq Nat
    BY <1>1, <1>2
  <2> QED BY <2>1, Least
<1>6. \E m \in T : \A y \in T : o[m] <= o[y]
  BY <1>4
<1>7. \E m \in T : \A y \in T : o[y] <= o[m]
  <2>1. PICK m \in T : z = k - o[m]
    BY <1>5
  <2>2. \A y \in T : k - o[m] <= k - o[y]
    BY <1>5, <2>1
  <2>3. \A y \in T : o[y] <= o[m]
    BY <2>2, <1>1, <1>2
  <2> QED BY <2>3
<1> QED BY <1>6, <1>7

\* A block has a higher number than the blocks it dominates.
LEMMA DomOrder ==
  ASSUME NEW V, NEW E, NEW o, NEW k, Descending(V, E, o, k), NEW a \in V, NEW b \in V, Dom(V, E, a, b)
  PROVE  /\ o[b] <= o[a]
         /\ a # b => o[b] < o[a]
<1>1. \A n \in V : o[n] \in Nat
  BY DEF Descending
<1>2. o[b] <= o[a]
  <2> DEFINE T == {n \in V : Dom(V, E, a, n) /\ ~ (o[n] <= o[a])}
  <2>1. SUFFICES ASSUME T # {} PROVE FALSE
    OBVIOUS
  <2>2. PICK n \in T : \A y \in T : o[y] <= o[n]
    <3> HIDE DEF T
    <3>1. T \subseteq V
      BY DEF T
    <3> QED BY <2>1, <3>1, Extremes
  <2>3. n # a /\ n # entry_block
    BY <1>1, DomBasics DEF Descending
  <2>4. PICK p \in V : <<p, n>> \in E
    BY <2>3 DEF Descending
  <2>5. Dom(V, E, a, p) /\ o[n] < o[p]
    BY <2>3, <2>4, DomEquation DEF Descending
  <2>6. p \in T
    BY <2>5, <1>1
  <2> QED BY <2>2, <2>5, <2>6, <1>1
<1>3. a # b => o[a] # o[b]
  BY DEF Descending
<1> QED BY <1>1, <1>2, <1>3

\* Dominance is transitive.
LEMMA DomTrans ==
  ASSUME NEW V, NEW E, NEW o, NEW k, Descending(V, E, o, k), NEW a \in V, NEW b \in V, NEW c \in V,
         Dom(V, E, a, b), Dom(V, E, b, c)
  PROVE  Dom(V, E, a, c)
<1>1. \A n \in V : o[n] \in Nat
  BY DEF Descending
<1> DEFINE T == {n \in V : Dom(V, E, b, n) /\ ~ Dom(V, E, a, n)}
<1>2. SUFFICES ASSUME T # {} PROVE FALSE
  OBVIOUS
<1>3. PICK n \in T : \A y \in T : o[y] <= o[n]
  <2> HIDE DEF T
  <2>1. T \subseteq V
    BY DEF T
  <2> QED BY <1>2, <2>1, Extremes
<1>4. n # b /\ n # entry_block
  BY DomBasics DEF Descending
<1>5. PICK p \in V : <<p, n>> \in E /\ ~ Dom(V, E, a, p)
  BY <1>4, DomEquation DEF Descending
<1>6. Dom(V, E, b, p) /\ o[n] < o[p]
  BY <1>4, <1>5, DomEquation DEF Descending
<1>7. p \in T
  BY <1>5, <1>6
<1> QED BY <1>3, <1>6, <1>7, <1>1

\* The entry and the immediate dominators d of a set of other blocks.
Immediate(V, E, o, d, S) ==
  \A n \in S :
    /\ d[n] \in V
    /\ n = entry_block => d[n] = n
    /\ n # entry_block =>
         /\ o[n] < o[d[n]]
         /\ \A a \in V : Dom(V, E, a, n) <=> a = n \/ Dom(V, E, a, d[n])

\* An immediate dominator dominates all predecessors.
LEMMA ImmediateFacts ==
  ASSUME NEW V, NEW E, NEW o, NEW k, Descending(V, E, o, k), NEW d, NEW S \in SUBSET V,
         Immediate(V, E, o, d, S), NEW n \in S, n # entry_block
  PROVE  /\ d[n] \in V /\ d[n] # n /\ Dom(V, E, d[n], n)
         /\ \A p \in V : <<p, n>> \in E => Dom(V, E, d[n], p)
         /\ \A a \in V : Dom(V, E, a, n) /\ a # n => Dom(V, E, a, d[n])
<1>1. d[n] \in V /\ o[n] < o[d[n]] /\ n \in V
  BY DEF Immediate
<1>2. d[n] # n
  BY <1>1 DEF Descending
<1>3. Dom(V, E, d[n], n)
  <2>1. Dom(V, E, d[n], d[n])
    BY <1>1, DomBasics DEF Descending
  <2> QED BY <1>1, <2>1 DEF Immediate
<1>4. \A p \in V : <<p, n>> \in E => Dom(V, E, d[n], p)
  BY <1>1, <1>2, <1>3, DomEquation DEF Descending
<1>5. \A a \in V : Dom(V, E, a, n) /\ a # n => Dom(V, E, a, d[n])
  BY DEF Immediate
<1> QED BY <1>1, <1>2, <1>3, <1>4, <1>5

\* Between a block and one that it dominates there is one that it dominates
\* immediately.
LEMMA DomChild ==
  ASSUME NEW V, NEW E, NEW o, NEW k, Descending(V, E, o, k), NEW d, Immediate(V, E, o, d, V),
         NEW n \in V, NEW p \in V, Dom(V, E, n, p), p # n
  PROVE  \E c \in V : c # n /\ d[c] = n /\ Dom(V, E, c, p)
<1>1. \A x \in V : o[x] \in Nat
  BY DEF Descending
<1> DEFINE T == {q \in V : Dom(V, E, q, p) /\ Dom(V, E, n, q) /\ q # n}
<1>2. p \in T
  BY DomBasics DEF Descending
<1>3. PICK q \in T : \A y \in T : o[y] <= o[q]
  <2> HIDE DEF T
  <2>1. T \subseteq V
    BY DEF T
  <2> QED BY <1>2, <2>1, Extremes
<1>4. q # entry_block
  BY DomBasics DEF Descending
<1>5. d[q] \in V /\ o[q] < o[d[q]] /\ Dom(V, E, d[q], q) /\ Dom(V, E, n, d[q])
  <2>1. d[q] \in V /\ o[q] < o[d[q]]
    BY <1>4 DEF Immediate
  <2> QED BY <2>1, <1>4, ImmediateFacts
<1>6. Dom(V, E, d[q], p)
  BY <1>5, DomTrans
<1>7. d[q] \notin T
  BY <1>1, <1>3, <1>5
<1>8. d[q] = n
  BY <1>5, <1>6, <1>7
<1> QED BY <1>8

\* A block without successors dominates itself only.
LEMMA DomOfLeaf ==
  ASSUME NEW V, NEW E, NEW o, NEW k, Descending(V, E, o, k), NEW n \in V,
         \A s \in V : <<n, s>> \notin E, NEW p \in V, Dom(V, E, n, p)
  PROVE  p = n
<1>1. \A x \in V : o[x] \in Nat
  BY DEF Descending
<1> DEFINE T == {q \in V : Dom(V, E, n, q) /\ q # n}
<1>2. SUFFICES ASSUME T # {} PROVE FALSE
  OBVIOUS
<1>3. PICK q \in T : \A y \in T : o[y] <= o[q]
  <2> HIDE DEF T
  <2>1. T \subseteq V
    BY DEF T
  <2> QED BY <1>2, <2>1, Extremes
<1>4. q # entry_block
  BY DomBasics DEF Descending
<1>5. PICK x \in V : <<x, q>> \in E
  BY <1>4 DEF Descending
<1>6. Dom(V, E, n, x) /\ o[q] < o[x]
  BY <1>4, <1>5, DomEquation DEF Descending
<1>7. x # n
  BY <1>5
<1> QED BY <1>1, <1>3, <1>6, <1>7

\* Where the dominance of n ends.
Ends(V, E, n) ==
  {s \in V : (n = s \/ ~ Dom(V, E, n, s)) /\ \E p \in V : <<p, s>> \in E /\ Dom(V, E, n, p)}

\* What a block passes on to its immediate dominator m.
EndsAbove(V, E, c, m) == {f \in Ends(V, E, c) : ~ Dom(V, E, m, f)}

\* The frontier of a block: successors that it does not dominate immediately, and
\* what the blocks that it does dominate immediately pass on.
LEMMA EndsEquation ==
  ASSUME NEW V, NEW E, NEW o, NEW k, Descending(V, E, o, k), NEW d, Immediate(V, E, o, d, V),
         NEW n \in V
  PROVE  Ends(V, E, n) = {s \in V : <<n, s>> \in E /\ d[s] # n}
                           \cup UNION {EndsAbove(V, E, c, n) : c \in {x \in V : x # n /\ d[x] = n}}
<1>1. \A x \in V : o[x] \in Nat
  BY DEF Descending
<1> DEFINE C == {x \in V : x # n /\ d[x] = n}
<1>2. ASSUME NEW s \in V, <<n, s>> \in E, d[s] # n
      PROVE  s \in Ends(V, E, n)
  <2>1. s # entry_block /\ o[s] < o[n] /\ s # n
    BY <1>1, <1>2 DEF Descending
  <2>2. ASSUME Dom(V, E, n, s) PROVE FALSE
    <3>1. /\ d[s] \in V /\ Dom(V, E, d[s], n) /\ Dom(V, E, n, d[s])
      BY <1>2, <2>1, <2>2, ImmediateFacts
    <3>2. o[d[s]] < o[n] /\ o[n] < o[d[s]]
      BY <3>1, <1>2, DomOrder
    <3> QED BY <1>1, <3>1, <3>2
  <2>3. Dom(V, E, n, n)
    BY DomBasics DEF Descending
  <2> QED BY <1>2, <2>2, <2>3 DEF Ends
<1>3. ASSUME NEW c \in C, NEW f \in EndsAbove(V, E, c, n)
      PROVE  f \in Ends(V, E, n)
  <2>1. PICK p \in V : <<p, f>> \in E /\ Dom(V, E, c, p)
    BY DEF EndsAbove, Ends
  <2>2. c # entry_block
    BY DEF Immediate
  <2>3. Dom(V, E, n, c)
    BY <2>2, ImmediateFacts
  <2>4. Dom(V, E, n, p)
    BY <2>1, <2>3, DomTrans
  <2> QED BY <2>1, <2>4 DEF EndsAbove, Ends
<1>4. ASSUME NEW s \in Ends(V, E, n), ~ (<<n, s>> \in E /\ d[s] # n)
      PROVE  \E c \in C : s \in EndsAbove(V, E, c, n)
  <2>1. s \in V /\ (n = s \/ ~ Dom(V, E, n, s))
    BY DEF Ends
  <2>2. PICK p \in V : <<p, s>> \in E /\ Dom(V, E, n, p)
    BY DEF Ends
  <2>3. s # entry_block /\ o[s] < o[p] /\ s # p
    BY <1>1, <2>1, <2>2 DEF Descending
  <2>4. o[p] <= o[n]
    BY <2>2, DomOrder
  <2>5. n # s
    BY <1>1, <2>1, <2>2, <2>3, <2>4
  <2>6. ~ Dom(V, E, n, s)
    BY <2>1, <2>5
  <2>7. p # n
    <3>1. SUFFICES ASSUME p = n PROVE FALSE
      OBVIOUS
    <3>2. d[s] = n
      BY <3>1, <2>2, <1>4
    <3>3. Dom(V, E, d[s], s)
      BY <2>1, <2>3, ImmediateFacts
    <3> QED BY <3>2, <3>3, <2>6
  <2>8. PICK c \in V : c # n /\ d[c] = n /\ Dom(V, E, c, p)
    BY <2>2, <2>7, DomChild
  <2>9. c # entry_block
    BY <2>8 DEF Immediate
  <2>10. Dom(V, E, n, c)
    BY <2>8, <2>9, ImmediateFacts
  <2>11. ~ Dom(V, E, c, s)
    BY <2>1, <2>6, <2>10, DomTrans
  <2>12. s \in EndsAbove(V, E, c, n)
    BY <2>1, <2>2, <2>6, <2>8, <2>11 DEF EndsAbove, Ends
  <2> QED BY <2>8, <2>12
<1>5. ASSUME NEW s \in Ends(V, E, n)
      PROVE  s \in {x \in V : <<n, x>> \in E /\ d[x] # n} \cup UNION {EndsAbove(V, E, c, n) : c \in C}
  <2>1. s \in V
    BY DEF Ends
  <2>2. CASE <<n, s>> \in E /\ d[s] # n
    BY <2>1, <2>2
  <2>3. CASE ~ (<<n, s>> \in E /\ d[s] # n)
    BY <2>3, <1>4
  <2> QED BY <2>2, <2>3
<1> QED BY <1>2, <1>3, <1>5

-----------------------------------------------------------------------------
(* Walks up the immediate dominators.                                      *)

\* A set of blocks whose dominators d lead to higher numbers o, up to the entry.
Climbing(V, o, k, d, S) ==
  /\ k \in Nat /\ S \subseteq V
  /\ \A n \in V : o[n] \in 1 .. k
  /\ \A m, n \in V : o[m] = o[n] => m = n
  /\ \A n \in S : /\ d[n] \in S
                  /\ n = entry_block => d[n] = n
                  /\ n # entry_block => o[n] < o[d[n]]

\* The block and those that are met on the way up.
Walk(d, S, n) == Reached(S, {<<m, d[m]>> : m \in S}, n)

\* A member of a set of blocks that has the highest or the lowest number.
LEMMA ClimbingExtremes ==
  ASSUME NEW V, NEW o, NEW k, NEW d, NEW S, Climbing(V, o, k, d, S), NEW T, T \subseteq V, T # {}
  PROVE  /\ \E x \in T : \A y \in T : o[y] <= o[x]
         /\ \E x \in T : \A y \in T : o[x] <= o[y]
<1>1. \A n \in T : o[n] \in 1 .. k
  BY DEF Climbing
<1>2. k \in Nat
  BY DEF Climbing
<1>4. PICK x \in {o[n] : n \in T} : \A y \in {o[n] : n \in T} : x <= y
  <2>1. {o[n] : n \in T} \subseteq Nat
    BY <1>1
  <2> QED BY <2>1, Least
<1>5. PICK z \in {k - o[n] : n \in T} : \A y \in {k - o[n] : n \in T} : z <= y
  <2>1. {k - o[n] : n \in T} \subseteq Nat
    BY <1>1, <1>2
  <2> QED BY <2>1, Least
<1>6. \E m \in T : \A y \in T : o[m] <= o[y]
  BY <1>4
<1>7. \E m \in T : \A y \in T : o[y] <= o[m]
  <2>1. PICK m \in T : z = k - o[m]
    BY <1>5
  <2>2. \A y \in T : k - o[m] <= k - o[y]
    BY <1>5, <2>1
  <2>3. \A y \in T : o[y] <= o[m]
    BY <2>2, <1>1, <1>2
  <2> QED BY <2>3
<1> QED BY <1>6, <1>7

\* A walk starts at its block, goes on from its dominator, and only goes up.
LEMMA WalkFacts ==
  ASSUME NEW V, NEW o, NEW k, NEW d, NEW S, Climbing(V, o, k, d, S), NEW n \in S
  PROVE  /\ Walk(d, S, n) \subseteq S /\ n \in Walk(d, S, n)
         /\ Walk(d, S, n) = {n} \cup Walk(d, S, d[n])
         /\ \A m \in Walk(d, S, n) : d[m] \in Walk(d, S, n)
         /\ \A m \in Walk(d, S, n) : o[n] <= o[m] /\ (m # n => o[n] < o[m])
         /\ entry_block \in Walk(d, S, n)
<1> DEFINE E == {<<m, d[m]>> : m \in S}
<1>1. Pairs(E)
  BY DEF Pairs
<1>2. d[n] \in S /\ \A m \in V : o[m] \in Nat
  BY DEF Climbing
<1>3. {u \in S : <<n, u>> \in E} = {d[n]}
  BY <1>2
<1>4. Walk(d, S, n) = {n} \cup Walk(d, S, d[n])
  <2> HIDE DEF E
  <2>1. Reached(S, E, n) = {n} \cup UNION {Reached(S, E, t) : t \in {u \in S : <<n, u>> \in E}}
    BY <1>1, ReachedEquation
  <2> QED BY <1>3, <2>1 DEF Walk, E
<1>5. Walk(d, S, n) \subseteq S /\ n \in Walk(d, S, n) /\ Walk(d, S, n) \in ClosedSets(S, E, n)
  BY ReachedFacts DEF Walk
<1>6. ASSUME NEW m \in Walk(d, S, n) PROVE d[m] \in Walk(d, S, n)
  <2>1. m \in S /\ d[m] \in S
    BY <1>5 DEF Climbing
  <2>2. <<m, d[m]>> \in E /\ <<m, d[m]>>[1] = m /\ <<m, d[m]>>[2] = d[m]
    BY <2>1
  <2> QED BY <1>5, <2>1, <2>2 DEF ClosedSets
<1>7. \A m \in Walk(d, S, n) : o[n] <= o[m]
  <2> DEFINE U == {m \in S : o[n] <= o[m]}
  <2>1. ASSUME NEW e \in E, e[1] \in U, e[2] \in S
        PROVE  e[2] \in U
    <3>1. e[2] = d[e[1]]
      OBVIOUS
    <3>2. o[e[1]] <= o[e[2]]
      BY <2>1, <3>1, <1>2 DEF Climbing
    <3>3. e[1] \in V /\ e[2] \in V /\ n \in V
      BY <2>1 DEF Climbing
    <3>4. o[n] <= o[e[2]]
      BY <2>1, <3>2, <3>3, <1>2
    <3> QED BY <2>1, <3>4
  <2>2. n \in U
    BY <1>2 DEF Climbing
  <2>3. U \in ClosedSets(S, E, n)
    BY <2>1, <2>2 DEF ClosedSets
  <2>4. Walk(d, S, n) \subseteq U
    <3> HIDE DEF U, E
    <3> QED BY <2>3, ReachedFacts DEF Walk, E
  <2> QED BY <2>4
<1>8. \A m \in Walk(d, S, n) : m # n => o[n] < o[m]
  <2> SUFFICES ASSUME NEW m \in Walk(d, S, n), m # n PROVE o[n] < o[m]
    OBVIOUS
  <2>1. m \in V /\ n \in V
    BY <1>5 DEF Climbing
  <2>2. o[m] # o[n]
    BY <2>1 DEF Climbing
  <2> QED BY <2>1, <2>2, <1>2, <1>7
<1>9. entry_block \in Walk(d, S, n)
  <2>1. Walk(d, S, n) \subseteq V /\ Walk(d, S, n) # {}
    BY <1>5 DEF Climbing
  <2>2. PICK m \in Walk(d, S, n) : \A y \in Walk(d, S, n) : o[y] <= o[m]
    BY <2>1, ClimbingExtremes
  <2>3. d[m] \in Walk(d, S, n)
    BY <1>6
  <2>4. ~ (o[m] < o[d[m]])
    BY <2>1, <2>2, <2>3, <1>2
  <2>5. m = entry_block
    BY <2>4, <1>5 DEF Climbing
  <2> QED BY <2>5
<1> QED BY <1>4, <1>5, <1>6, <1>7, <1>8, <1>9

\* Where two walks meet.
Meeting(o, d, S, x, y) ==
  CHOOSE z \in Walk(d, S, x) \cap Walk(d, S, y) :
    \A w \in Walk(d, S, x) \cap Walk(d, S, y) : o[z] <= o[w]

\* One block of a walk that another one lacks plays no role.
LEMMA MeetingFacts ==
  ASSUME NEW V, NEW o, NEW k, NEW d, NEW S, Climbing(V, o, k, d, S), NEW x \in S, NEW y \in S
  PROVE  /\ x = y => Meeting(o, d, S, x, y) = x
         /\ o[x] < o[y] => /\ d[x] # x
                           /\ Meeting(o, d, S, x, y) = Meeting(o, d, S, d[x], y)
         /\ o[y] < o[x] => /\ d[y] # y
                           /\ Meeting(o, d, S, x, y) = Meeting(o, d, S, x, d[y])
<1>1. \A m \in S : m \in V /\ o[m] \in Nat /\ d[m] \in S
  BY DEF Climbing
<1>2. ASSUME x = y PROVE Meeting(o, d, S, x, y) = x
  <2>1. Walk(d, S, x) \cap Walk(d, S, y) = Walk(d, S, x)
    BY <1>2
  <2>2. \A z \in Walk(d, S, x) : (\A w \in Walk(d, S, x) : o[z] <= o[w]) <=> z = x
    <3> SUFFICES ASSUME NEW z \in Walk(d, S, x)
                 PROVE  (\A w \in Walk(d, S, x) : o[z] <= o[w]) <=> z = x
      OBVIOUS
    <3>1. /\ z \in S /\ x \in Walk(d, S, x) /\ Walk(d, S, x) \subseteq S
          /\ \A w \in Walk(d, S, x) : o[x] <= o[w] /\ (w # x => o[x] < o[w])
      BY WalkFacts
    <3> QED BY <3>1, <1>1
  <2>3. x \in Walk(d, S, x)
    BY WalkFacts
  <2> QED BY <2>1, <2>2, <2>3 DEF Meeting
<1>3. ASSUME NEW a \in S, NEW b \in S, o[a] < o[b]
      PROVE  /\ d[a] # a
             /\ Walk(d, S, a) \cap Walk(d, S, b) = Walk(d, S, d[a]) \cap Walk(d, S, b)
  <2>1. a \notin Walk(d, S, b)
    <3>1. SUFFICES ASSUME a \in Walk(d, S, b) PROVE FALSE
      OBVIOUS
    <3>2. o[b] <= o[a]
      BY <3>1, WalkFacts
    <3> QED BY <3>2, <1>1, <1>3
  <2>2. Walk(d, S, a) = {a} \cup Walk(d, S, d[a])
    BY WalkFacts
  <2>3. a # entry_block
    BY <2>1, WalkFacts
  <2>4. d[a] # a
    BY <2>3, <1>1 DEF Climbing
  <2> QED BY <2>1, <2>2, <2>4
<1>4. ASSUME o[x] < o[y]
      PROVE  d[x] # x /\ Meeting(o, d, S, x, y) = Meeting(o, d, S, d[x], y)
  BY <1>3, <1>4 DEF Meeting
<1>5. ASSUME o[y] < o[x]
      PROVE  d[y] # y /\ Meeting(o, d, S, x, y) = Meeting(o, d, S, x, d[y])
  <2>1. Walk(d, S, x) \cap Walk(d, S, y) = Walk(d, S, x) \cap Walk(d, S, d[y])
    BY <1>3, <1>5
  <2> QED BY <2>1, <1>3, <1>5 DEF Meeting
<1> QED BY <1>2, <1>4, <1>5

-----------------------------------------------------------------------------
(* find_common_dominator.                                                  *)

\* The post-order numbers of the visited blocks.
Numbers == [n \in visited |-> Order(n)]

\* The dominators that are known lead up to the entry.
Climbs == Climbing(visited, Numbers, Len(post_order), idom, Processed)

\* The step of find_common_dominator.
LEMMA CommonDominatorStep ==
  ASSUME Climbs, NEW x \in Processed, NEW y \in Processed
  PROVE  CommonDominator(x, y) =
           CASE x = y -> x
             [] x # y /\ ClimbFirst(x, y) /\ x = idom[x] -> y
             [] x # y /\ ClimbFirst(x, y) /\ x # idom[x] -> CommonDominator(idom[x], y)
             [] x # y /\ ~ ClimbFirst(x, y) /\ y = idom[y] -> x
             [] OTHER -> CommonDominator(x, idom[y])
<1> DEFINE P == Processed \X Processed
           C == CHOOSE C : C = [p \in Processed \X Processed |->
                  CASE p[1] = p[2] -> p[1]
                    [] p[1] # p[2] /\ ClimbFirst(p[1], p[2]) /\ p[1] = idom[p[1]] -> p[2]
                    [] p[1] # p[2] /\ ClimbFirst(p[1], p[2]) /\ p[1] # idom[p[1]] -> C[<<idom[p[1]], p[2]>>]
                    [] p[1] # p[2] /\ ~ ClimbFirst(p[1], p[2]) /\ p[2] = idom[p[2]] -> p[1]
                    [] OTHER -> C[<<p[1], idom[p[2]]>>]]
           f == [p \in Processed \X Processed |-> Meeting(Numbers, idom, Processed, p[1], p[2])]
<1>1. \A a, b : CommonDominator(a, b) = C[<<a, b>>]
  BY Zenon DEF CommonDominator
<1>2. /\ \A n \in Processed : n \in visited /\ idom[n] \in Processed /\ Numbers[n] = Order(n)
                              /\ Numbers[n] \in Nat
      /\ \A m, n \in Processed : Numbers[m] = Numbers[n] => m = n
  BY DEF Climbs, Climbing, Numbers
<1> HIDE DEF C, f
<1>3. \A a, b \in Processed : f[<<a, b>>] = Meeting(Numbers, idom, Processed, a, b)
  BY DEF f
<1>4. ASSUME NEW p \in P
      PROVE  f[p] = CASE p[1] = p[2] -> p[1]
                    [] p[1] # p[2] /\ ClimbFirst(p[1], p[2]) /\ p[1] = idom[p[1]] -> p[2]
                    [] p[1] # p[2] /\ ClimbFirst(p[1], p[2]) /\ p[1] # idom[p[1]] -> f[<<idom[p[1]], p[2]>>]
                    [] p[1] # p[2] /\ ~ ClimbFirst(p[1], p[2]) /\ p[2] = idom[p[2]] -> p[1]
                    [] OTHER -> f[<<p[1], idom[p[2]]>>]
  <2> DEFINE a == p[1]
             b == p[2]
  <2>1. a \in Processed /\ b \in Processed /\ p = <<a, b>>
    OBVIOUS
  <2> HIDE DEF a, b
  <2>2. /\ ClimbFirst(a, b) <=> Numbers[a] < Numbers[b]
        /\ Numbers[a] \in Nat /\ Numbers[b] \in Nat
        /\ idom[a] \in Processed /\ idom[b] \in Processed
    BY <2>1, <1>2 DEF ClimbFirst
  <2>3. f[p] = Meeting(Numbers, idom, Processed, a, b)
    BY <2>1, <1>3
  <2>4. CASE a = b
    <3>1. f[p] = a
      BY <2>1, <2>3, <2>4, MeetingFacts DEF Climbs
    <3> QED BY <3>1, <2>4 DEF a, b
  <2>5. CASE a # b /\ ClimbFirst(a, b)
    <3>1. idom[a] # a /\ f[p] = Meeting(Numbers, idom, Processed, idom[a], b)
      BY <2>1, <2>2, <2>3, <2>5, MeetingFacts DEF Climbs
    <3>2. f[p] = f[<<idom[a], b>>]
      BY <3>1, <2>1, <2>2, <1>3
    <3> QED BY <3>1, <3>2, <2>5, Zenon DEF a, b
  <2>6. CASE a # b /\ ~ ClimbFirst(a, b)
    <3>1. Numbers[b] < Numbers[a]
      BY <1>2, <2>1, <2>2, <2>6
    <3>2. idom[b] # b /\ f[p] = Meeting(Numbers, idom, Processed, a, idom[b])
      BY <3>1, <2>1, <2>2, <2>3, MeetingFacts DEF Climbs
    <3>3. f[p] = f[<<a, idom[b]>>]
      BY <3>2, <2>1, <2>2, <1>3
    <3> QED BY <3>2, <3>3, <2>6, Zenon DEF a, b
  <2> QED BY <2>4, <2>5, <2>6, Zenon
<1>5. f = [p \in Processed \X Processed |->
                  CASE p[1] = p[2] -> p[1]
                    [] p[1] # p[2] /\ ClimbFirst(p[1], p[2]) /\ p[1] = idom[p[1]] -> p[2]
                    [] p[1] # p[2] /\ ClimbFirst(p[1], p[2]) /\ p[1] # idom[p[1]] -> f[<<idom[p[1]], p[2]>>]
                    [] p[1] # p[2] /\ ~ ClimbFirst(p[1], p[2]) /\ p[2] = idom[p[2]] -> p[1]
                    [] OTHER -> f[<<p[1], idom[p[2]]>>]]
  <2>1. f = [p \in P |-> f[p]]
    BY DEF f
  <2> QED BY <2>1, <1>4, Zenon
<1>6. C = [p \in Processed \X Processed |->
                  CASE p[1] = p[2] -> p[1]
                    [] p[1] # p[2] /\ ClimbFirst(p[1], p[2]) /\ p[1] = idom[p[1]] -> p[2]
                    [] p[1] # p[2] /\ ClimbFirst(p[1], p[2]) /\ p[1] # idom[p[1]] -> C[<<idom[p[1]], p[2]>>]
                    [] p[1] # p[2] /\ ~ ClimbFirst(p[1], p[2]) /\ p[2] = idom[p[2]] -> p[1]
                    [] OTHER -> C[<<p[1], idom[p[2]]>>]]
  BY <1>5, Zenon DEF C
<1>7. <<x, y>> \in Processed \X Processed /\ <<x, y>>[1] = x /\ <<x, y>>[2] = y
  OBVIOUS
<1>8. C[<<x, y>>] = CASE x = y -> x
             [] x # y /\ ClimbFirst(x, y) /\ x = idom[x] -> y
             [] x # y /\ ClimbFirst(x, y) /\ x # idom[x] -> C[<<idom[x], y>>]
             [] x # y /\ ~ ClimbFirst(x, y) /\ y = idom[y] -> x
             [] OTHER -> C[<<x, idom[y]>>]
  BY <1>6, <1>7, Zenon
<1> QED BY <1>1, <1>8, Zenon

\* The forward branches, as the traversal has left them, descend.
Descends == Descending(visited, Edges(succ), Numbers, Len(post_order))

\* Dominance by the forward branches.
ForwardDom(a, b) == Dom(visited, Edges(succ), a, b)

\* The dominators that are known are immediate.
Immediates == Immediate(visited, Edges(succ), Numbers, idom, Processed)

\* One step up from the lower of two blocks loses no common dominator.
LEMMA ClimbOne ==
  ASSUME Climbs, Descends, Immediates, NEW x \in Processed, NEW y \in Processed, Order(x) < Order(y)
  PROVE  /\ idom[x] \in Processed /\ idom[x] # x /\ Order(x) < Order(idom[x])
         /\ \A a \in visited : ForwardDom(a, x) /\ ForwardDom(a, y)
                                 <=> ForwardDom(a, idom[x]) /\ ForwardDom(a, y)
<1>1. /\ x \in visited /\ y \in visited /\ idom[x] \in Processed /\ idom[x] \in visited
      /\ Numbers[x] = Order(x) /\ Numbers[y] = Order(y) /\ Numbers[idom[x]] = Order(idom[x])
      /\ Numbers[x] \in Nat /\ Numbers[y] \in Nat
  BY DEF Climbs, Climbing, Numbers
<1>2. x # entry_block
  <2>1. SUFFICES ASSUME x = entry_block PROVE FALSE
    OBVIOUS
  <2>2. entry_block \in Walk(idom, Processed, y)
    BY WalkFacts DEF Climbs
  <2>3. Numbers[y] <= Numbers[x]
    BY <2>1, <2>2, WalkFacts DEF Climbs
  <2> QED BY <2>3, <1>1
<1>3. Order(x) < Order(idom[x]) /\ idom[x] # x
  BY <1>1, <1>2 DEF Climbs, Climbing
<1>4. ~ ForwardDom(x, y)
  <2>1. SUFFICES ASSUME ForwardDom(x, y) PROVE FALSE
    OBVIOUS
  <2>2. Numbers[y] <= Numbers[x]
    BY <2>1, <1>1, DomOrder DEF Descends, ForwardDom
  <2> QED BY <2>2, <1>1
<1>5. \A a \in visited : ForwardDom(a, x) <=> a = x \/ ForwardDom(a, idom[x])
  BY <1>2 DEF Immediates, Immediate, ForwardDom
<1>6. ~ ForwardDom(x, idom[x]) \/ ~ ForwardDom(x, y)
  BY <1>4
<1> QED BY <1>1, <1>3, <1>4, <1>5

\* What dominates the common dominator dominates both blocks.
CommonIsRight(x, y) ==
  /\ CommonDominator(x, y) \in Processed
  /\ \A a \in visited : ForwardDom(a, CommonDominator(x, y)) <=> ForwardDom(a, x) /\ ForwardDom(a, y)

\* find_common_dominator finds the block that all common dominators dominate.
LEMMA CommonDominatorFacts ==
  ASSUME Climbs, Descends, Immediates, NEW x \in Processed, NEW y \in Processed
  PROVE  CommonIsRight(x, y)
<1> DEFINE k == Len(post_order)
           Wrong == {p \in Processed \X Processed : ~ CommonIsRight(p[1], p[2])}
           M == {2 * k - (Numbers[p[1]] + Numbers[p[2]]) : p \in Wrong}
<1>1. /\ k \in Nat
      /\ \A n \in Processed : /\ n \in visited /\ Numbers[n] = Order(n) /\ Numbers[n] \in 1 .. k
                              /\ idom[n] \in Processed
      /\ \A m, n \in Processed : Numbers[m] = Numbers[n] => m = n
  BY DEF Climbs, Climbing, Numbers
<1>2. SUFFICES ASSUME Wrong # {} PROVE FALSE
  <2>1. <<x, y>> \in Processed \X Processed /\ <<x, y>>[1] = x /\ <<x, y>>[2] = y
    OBVIOUS
  <2> QED BY <2>1
<1> HIDE DEF k
<1>3. M \subseteq Nat /\ M # {}
  <2>1. ASSUME NEW p \in Wrong
        PROVE  2 * k - (Numbers[p[1]] + Numbers[p[2]]) \in Nat
    <3>1. Numbers[p[1]] \in 1 .. k /\ Numbers[p[2]] \in 1 .. k
      BY <1>1
    <3> QED BY <3>1, <1>1
  <2> QED BY <2>1, <1>2
<1>4. PICK m \in M : \A l \in M : m <= l
  <2> HIDE DEF M
  <2> QED BY <1>3, Least
<1>5. PICK p \in Wrong : m = 2 * k - (Numbers[p[1]] + Numbers[p[2]])
  OBVIOUS
<1> DEFINE a == p[1]
           b == p[2]
<1>6. a \in Processed /\ b \in Processed /\ ~ CommonIsRight(a, b)
  OBVIOUS
<1>7. ASSUME NEW c \in Processed, NEW d \in Processed, Numbers[a] + Numbers[b] < Numbers[c] + Numbers[d]
      PROVE  CommonIsRight(c, d)
  <2>1. SUFFICES ASSUME ~ CommonIsRight(c, d) PROVE FALSE
    OBVIOUS
  <2>2. <<c, d>> \in Wrong /\ <<c, d>>[1] = c /\ <<c, d>>[2] = d
    BY <2>1
  <2>3. 2 * k - (Numbers[c] + Numbers[d]) \in M
    BY <2>2
  <2>4. 2 * k - (Numbers[a] + Numbers[b]) <= 2 * k - (Numbers[c] + Numbers[d])
    BY <2>3, <1>4, <1>5
  <2>5. Numbers[a] \in Nat /\ Numbers[b] \in Nat /\ Numbers[c] \in Nat /\ Numbers[d] \in Nat
    BY <1>1, <1>6
  <2> HIDE DEF a, b, M, Wrong
  <2> QED BY <2>4, <2>5, <1>1, <1>7
<1> HIDE DEF a, b, M, Wrong
<1>8. /\ Order(a) \in Nat /\ Order(b) \in Nat
      /\ a \in visited /\ b \in visited
      /\ Numbers[a] = Order(a) /\ Numbers[b] = Order(b)
      /\ idom[a] \in Processed /\ idom[b] \in Processed
      /\ Numbers[idom[a]] = Order(idom[a]) /\ Numbers[idom[b]] = Order(idom[b])
      /\ Order(idom[a]) \in Nat /\ Order(idom[b]) \in Nat
  BY <1>1, <1>6
<1>9. CASE a = b
  <2>1. CommonDominator(a, b) = a
    BY <1>6, <1>9, CommonDominatorStep
  <2> QED BY <2>1, <1>6, <1>9 DEF CommonIsRight
<1>10. CASE Order(a) < Order(b)
  <2>1. /\ idom[a] # a /\ Order(a) < Order(idom[a])
        /\ \A z \in visited : ForwardDom(z, a) /\ ForwardDom(z, b)
                                <=> ForwardDom(z, idom[a]) /\ ForwardDom(z, b)
    BY <1>6, <1>10, ClimbOne
  <2>2. a # b /\ ClimbFirst(a, b) /\ a # idom[a]
    BY <1>10, <1>8, <2>1 DEF ClimbFirst
  <2>3. CommonDominator(a, b) = CommonDominator(idom[a], b)
    BY <1>6, <2>2, CommonDominatorStep
  <2>4. CommonIsRight(idom[a], b)
    <3>1. Numbers[a] + Numbers[b] < Numbers[idom[a]] + Numbers[b]
      BY <2>1, <1>8
    <3> QED BY <3>1, <1>6, <1>7, <1>8
  <2> QED BY <2>1, <2>3, <2>4, <1>6 DEF CommonIsRight
<1>11. CASE Order(b) < Order(a)
  <2>1. /\ idom[b] # b /\ Order(b) < Order(idom[b])
        /\ \A z \in visited : ForwardDom(z, b) /\ ForwardDom(z, a)
                                <=> ForwardDom(z, idom[b]) /\ ForwardDom(z, a)
    BY <1>6, <1>11, ClimbOne
  <2>2. a # b /\ ~ ClimbFirst(a, b) /\ b # idom[b]
    BY <1>11, <1>8, <2>1 DEF ClimbFirst
  <2>3. CommonDominator(a, b) = CommonDominator(a, idom[b])
    BY <1>6, <2>2, CommonDominatorStep, Zenon
  <2>4. CommonIsRight(a, idom[b])
    <3>1. Numbers[a] + Numbers[b] < Numbers[a] + Numbers[idom[b]]
      BY <2>1, <1>8
    <3> QED BY <3>1, <1>6, <1>7, <1>8
  <2> QED BY <2>1, <2>3, <2>4, <1>6 DEF CommonIsRight
<1>12. a = b \/ Order(a) < Order(b) \/ Order(b) < Order(a)
  BY <1>1, <1>6, <1>8
<1> QED BY <1>9, <1>10, <1>11, <1>12

-----------------------------------------------------------------------------
(* recompute_immediate_dominator.                                          *)

\* The common dominators of the first k elements of s.
Folding(s, k, f) ==
  /\ f = [i \in 1 .. k |-> f[i]]
  /\ \A i \in 1 .. k : f[i] = IF i = 1 THEN s[1] ELSE CommonDominator(f[i - 1], s[i])

\* The recursive definition of FoldPairs has a solution.
LEMMA FoldingExists ==
  ASSUME NEW s, NEW n \in Nat
  PROVE  \E f : Folding(s, n, f)
<1> DEFINE P == {k \in Nat : \E f : Folding(s, k, f)}
<1>1. 0 \in P
  <2>1. Folding(s, 0, [i \in 1 .. 0 |-> << >>])
    BY DEF Folding
  <2> QED BY <2>1, Zenon
<1>2. ASSUME NEW k \in 0 .. n - 1, k \in P PROVE k + 1 \in P
  <2>1. PICK f : Folding(s, k, f)
    BY <1>2
  <2> DEFINE last == IF k = 0 THEN s[1] ELSE CommonDominator(f[k], s[k + 1])
             g == [i \in 1 .. k + 1 |-> IF i = k + 1 THEN last ELSE f[i]]
  <2>2. k \in Nat /\ k + 1 \in Nat
    OBVIOUS
  <2>3. g[k + 1] = last /\ \A i \in 1 .. k : g[i] = f[i]
    BY <2>2
  <2>4. g = [i \in 1 .. k + 1 |-> g[i]]
    OBVIOUS
  <2>5. ASSUME NEW i \in 1 .. k + 1
        PROVE  g[i] = IF i = 1 THEN s[1] ELSE CommonDominator(g[i - 1], s[i])
    <3> HIDE DEF g
    <3>1. CASE i = k + 1 /\ k = 0
      BY <2>2, <2>3, <3>1
    <3>2. CASE i = k + 1 /\ k # 0
      <4>1. i # 1 /\ i - 1 = k /\ k \in 1 .. k
        BY <2>2, <3>2
      <4> QED BY <2>3, <3>2, <4>1
    <3>3. CASE i \in 2 .. k
      <4>1. i - 1 \in 1 .. k /\ i \in 1 .. k /\ i # 1
        BY <2>2, <3>3
      <4> QED BY <2>1, <2>3, <4>1 DEF Folding
    <3>4. CASE i = 1 /\ k # 0
      <4>1. i \in 1 .. k
        BY <2>2, <3>4
      <4> QED BY <2>1, <2>3, <3>4, <4>1 DEF Folding
    <3> QED BY <2>2, <3>1, <3>2, <3>3, <3>4
  <2> HIDE DEF g
  <2>6. Folding(s, k + 1, g)
    BY <2>4, <2>5 DEF Folding
  <2> QED BY <2>2, <2>6, Zenon
<1> HIDE DEF P
<1>3. 0 .. n \subseteq P
  BY <1>1, <1>2, SetInduction
<1> QED BY <1>3 DEF P

\* The immediate dominator of a block with predecessors is the last element of it.
LEMMA DominatorFolded ==
  ASSUME NEW S, NEW n, pred[n] \in Seq(S), pred[n] # << >>
  PROVE  \E f : Folding(pred[n], Len(pred[n]), f) /\ ImmediateDominator(n) = f[Len(pred[n])]
<1> DEFINE s == pred[n]
           F == CHOOSE f : f = [k \in 1 .. Len(pred[n]) |->
                  IF k = 1 THEN pred[n][1] ELSE CommonDominator(f[k - 1], pred[n][k])]
<1>1. ImmediateDominator(n) = F[Len(s)]
  BY Zenon DEF ImmediateDominator, FoldPairs
<1>2. Len(s) \in Nat
  OBVIOUS
<1>3. PICK f : Folding(s, Len(s), f)
  <2> HIDE DEF s
  <2> QED BY <1>2, FoldingExists
<1>4. f = [k \in 1 .. Len(s) |-> IF k = 1 THEN s[1] ELSE CommonDominator(f[k - 1], s[k])]
  <2> HIDE DEF s
  <2>1. f = [k \in 1 .. Len(s) |-> f[k]]
    BY <1>3 DEF Folding
  <2> QED BY <1>3, <2>1, Zenon DEF Folding
<1>5. F = [k \in 1 .. Len(s) |-> IF k = 1 THEN s[1] ELSE CommonDominator(F[k - 1], s[k])]
  BY <1>4, Zenon
<1> HIDE DEF F
<1>6. Folding(s, Len(s), F)
  <2> HIDE DEF s
  <2>1. F = [k \in 1 .. Len(s) |-> F[k]]
    BY <1>5
  <2>2. ASSUME NEW k \in 1 .. Len(s)
        PROVE  F[k] = IF k = 1 THEN s[1] ELSE CommonDominator(F[k - 1], s[k])
    BY <1>5, Zenon
  <2> QED BY <2>1, <2>2, Zenon DEF Folding
<1> QED BY <1>1, <1>6, Zenon

\* It is dominated by what dominates all predecessors.
LEMMA ImmediateDominatorFacts ==
  ASSUME Climbs, Descends, Immediates, NEW n, pred[n] \in Seq(Nodes), pred[n] # << >>,
         Elements(pred[n]) \subseteq Processed
  PROVE  /\ ImmediateDominator(n) \in Processed
         /\ \A a \in visited : ForwardDom(a, ImmediateDominator(n))
                                 <=> \A p \in Elements(pred[n]) : ForwardDom(a, p)
<1> DEFINE s == pred[n]
<1>1. PICK f : Folding(s, Len(s), f) /\ ImmediateDominator(n) = f[Len(s)]
  BY DominatorFolded
<1>2. Len(s) \in Nat /\ Len(s) # 0 /\ DOMAIN s = 1 .. Len(s)
  OBVIOUS
<1>3. \A i \in 1 .. Len(s) : s[i] \in Processed
  BY <1>2 DEF Elements
<1> HIDE DEF s
<1> DEFINE Right(i) == /\ f[i] \in Processed
                       /\ \A a \in visited : ForwardDom(a, f[i])
                                               <=> \A j \in 1 .. i : ForwardDom(a, s[j])
           P == {i \in Nat : i = 0 \/ i > Len(s) \/ Right(i)}
<1>4. ASSUME NEW i \in 0 .. Len(s) - 1, i \in P PROVE i + 1 \in P
  <2>0. i \in Nat /\ i + 1 \in 1 .. Len(s)
    BY <1>2
  <2>1. CASE i = 0
    <3>0. 1 \in 1 .. Len(s)
      BY <1>2
    <3>1. f[1] = s[1] /\ 1 \in 1 .. Len(s)
      BY <1>1, <3>0, Zenon DEF Folding
    <3>2. \A j \in 1 .. 1 : j = 1
      OBVIOUS
    <3>3. Right(1)
      <4>1. f[1] \in Processed
        BY <3>1, <1>3
      <4>2. ASSUME NEW a \in visited
            PROVE  ForwardDom(a, f[1]) <=> \A j \in 1 .. 1 : ForwardDom(a, s[j])
        <5>1. 1 \in 1 .. 1
          OBVIOUS
        <5> QED BY <5>1, <3>1, <3>2, Zenon
      <4> QED BY <4>1, <4>2
    <3> QED BY <3>3, <2>1
  <2>2. CASE i # 0
    <3>1. i \in 1 .. Len(s) /\ i + 1 \in 2 .. Len(s) /\ (i + 1) - 1 = i /\ i + 1 # 1
      BY <2>0, <2>2, <1>2
    <3>2. f[i + 1] = CommonDominator(f[i], s[i + 1])
      <4>1. f[i + 1] = CommonDominator(f[(i + 1) - 1], s[i + 1])
        BY <1>1, <3>1, <2>0, Zenon DEF Folding
      <4> QED BY <4>1, <3>1
    <3>3. Right(i)
      BY <1>4, <2>2, <3>1
    <3>4. s[i + 1] \in Processed
      BY <1>3, <2>0
    <3>5. CommonIsRight(f[i], s[i + 1])
      BY <3>3, <3>4, CommonDominatorFacts
    <3>6. ASSUME NEW a \in visited
          PROVE  ForwardDom(a, f[i + 1]) <=> \A j \in 1 .. i + 1 : ForwardDom(a, s[j])
      <4>1. ForwardDom(a, f[i + 1]) <=> ForwardDom(a, f[i]) /\ ForwardDom(a, s[i + 1])
        BY <3>2, <3>5 DEF CommonIsRight
      <4>2. ForwardDom(a, f[i]) <=> \A j \in 1 .. i : ForwardDom(a, s[j])
        BY <3>3
      <4>3. \A j : j \in 1 .. i + 1 <=> j \in 1 .. i \/ j = i + 1
        BY <2>0
      <4> QED BY <4>1, <4>2, <4>3, Zenon
    <3>7. f[i + 1] \in Processed
      BY <3>2, <3>5 DEF CommonIsRight
    <3>8. Right(i + 1)
      BY <3>6, <3>7
    <3> HIDE DEF Right
    <3> QED BY <3>8, <2>0
  <2> QED BY <2>1, <2>2
<1>5. 0 \in P
  OBVIOUS
<1>6. 0 .. Len(s) \subseteq P
  <2> HIDE DEF P
  <2> QED BY <1>2, <1>4, <1>5, SetInduction
<1>7. Right(Len(s))
  <2> HIDE DEF Right
  <2>1. Len(s) \in 0 .. Len(s)
    BY <1>2
  <2> QED BY <2>1, <1>2, <1>6
<1>8. \A a \in visited : (\A j \in 1 .. Len(s) : ForwardDom(a, s[j]))
                            <=> \A p \in Elements(s) : ForwardDom(a, p)
  BY <1>2 DEF Elements
<1> QED BY <1>1, <1>7, <1>8 DEF s

-----------------------------------------------------------------------------
(* CFGNode::dominates.                                                     *)

\* The step of CFGNode::dominates.
LEMMA DominatesStep ==
  ASSUME idom \in [Nodes -> Nodes \cup {Null}], Null \notin Nodes, NEW a, NEW n \in Nodes
  PROVE  Dominates(a, n) <=> n = a \/ (idom[n] \notin {Null, n} /\ Dominates(a, idom[n]))
<1> DEFINE E == {<<m, idom[m]>> : m \in {x \in Nodes : idom[x] \notin {Null, x}}}
           f == [m \in Nodes |-> a \in Reached(Nodes, E, m)]
           Up == CHOOSE g : g = [m \in Nodes |-> m = a \/ (idom[m] \notin {Null, m} /\ g[idom[m]])]
<1>1. \A b : Dominates(a, b) = Up[b]
  BY Zenon DEF Dominates
<1>2. ASSUME NEW m \in Nodes
      PROVE  f[m] = (m = a \/ (idom[m] \notin {Null, m} /\ f[idom[m]]))
  <2> DEFINE next == {u \in Nodes : <<m, u>> \in E}
  <2>1. Reached(Nodes, E, m) = {m} \cup UNION {Reached(Nodes, E, t) : t \in next}
    <3>1. Pairs(E)
      BY DEF Pairs
    <3> HIDE DEF E
    <3> QED BY <3>1, ReachedEquation, Zenon
  <2>2. CASE idom[m] \in {Null, m}
    <3>1. next = {}
      BY <2>2
    <3> QED BY <3>1, <2>1, <2>2
  <2>3. CASE idom[m] \notin {Null, m}
    <3>1. idom[m] \in Nodes /\ next = {idom[m]}
      BY <2>3
    <3>2. Reached(Nodes, E, m) = {m} \cup Reached(Nodes, E, idom[m])
      <4> HIDE DEF next, E
      <4> QED BY <3>1, <2>1
    <3>3. f[m] <=> a \in Reached(Nodes, E, m)
      OBVIOUS
    <3>4. f[idom[m]] <=> a \in Reached(Nodes, E, idom[m])
      BY <3>1
    <3>5. (f[m] \in BOOLEAN) /\ (f[idom[m]] \in BOOLEAN)
      BY <3>1
    <3> HIDE DEF next, E, f
    <3>6. a \in Reached(Nodes, E, m) <=> a = m \/ a \in Reached(Nodes, E, idom[m])
      BY <3>2
    <3> QED BY <3>3, <3>4, <3>5, <3>6, <2>3
  <2> QED BY <2>2, <2>3
<1>3. f = [m \in Nodes |-> m = a \/ (idom[m] \notin {Null, m} /\ f[idom[m]])]
  <2>1. f = [m \in Nodes |-> f[m]]
    OBVIOUS
  <2> HIDE DEF f
  <2> QED BY <1>2, <2>1, Zenon
<1> HIDE DEF f
<1>4. Up = [m \in Nodes |-> m = a \/ (idom[m] \notin {Null, m} /\ Up[idom[m]])]
  BY <1>3, Zenon
<1> HIDE DEF Up
<1>5. Up[n] = (n = a \/ (idom[n] \notin {Null, n} /\ Up[idom[n]]))
  BY <1>4, Zenon
<1> QED BY <1>1, <1>5, Zenon

\* What the known dominators are, in one place.
LEMMA ClimbsFacts ==
  ASSUME Climbs
  PROVE  /\ \A m \in Processed : /\ m \in visited /\ m \in Nodes
                                 /\ Numbers[m] = Order(m) /\ Numbers[m] \in Nat
                                 /\ idom[m] \in Processed
         /\ \A l, m \in Processed : Numbers[l] = Numbers[m] => l = m
         /\ \A m \in Processed : m # entry_block => Numbers[m] < Numbers[idom[m]]
         /\ \A m \in Processed : m = entry_block => idom[m] = m
<1>1. Processed \subseteq Nodes
  BY DEF Processed
<1>2. /\ Processed \subseteq visited
      /\ \A n \in visited : Numbers[n] \in 1 .. Len(post_order)
      /\ \A m, n \in visited : Numbers[m] = Numbers[n] => m = n
      /\ \A n \in Processed : /\ idom[n] \in Processed
                              /\ n = entry_block => idom[n] = n
                              /\ n # entry_block => Numbers[n] < Numbers[idom[n]]
  BY DEF Climbs, Climbing
<1>3. \A n \in visited : Numbers[n] = Order(n)
  BY DEF Numbers
<1> QED BY <1>1, <1>2, <1>3

\* A block that dominates() names has a higher number.
LEMMA DominatesOrder ==
  ASSUME Climbs, idom \in [Nodes -> Nodes \cup {Null}], Null \notin Nodes,
         NEW a, NEW n \in Processed, Dominates(a, n)
  PROVE  a \in Processed /\ (a # n => Order(n) < Order(a))
<1>1. /\ \A m \in Processed : /\ m \in visited /\ m \in Nodes /\ Numbers[m] = Order(m) /\ Numbers[m] \in Nat
                              /\ idom[m] \in Processed
      /\ \A l, m \in Processed : Numbers[l] = Numbers[m] => l = m
      /\ \A m \in Processed : m # entry_block => Numbers[m] < Numbers[idom[m]]
      /\ \A m \in Processed : m = entry_block => idom[m] = m
  BY ClimbsFacts
<1> DEFINE T == {m \in Processed : Dominates(a, m) /\ ~ (a \in Processed /\ Numbers[m] <= Numbers[a])}
<1>2. ASSUME T # {} PROVE FALSE
  <2>1. PICK m \in T : \A y \in T : Numbers[y] <= Numbers[m]
    <3>1. T \subseteq visited
      BY <1>1
    <3> HIDE DEF T
    <3> QED BY <3>1, <1>2, ClimbingExtremes DEF Climbs
  <2>2. m # a
    BY <1>1
  <2>3. idom[m] # m /\ Dominates(a, idom[m])
    BY <2>2, <1>1, DominatesStep
  <2>4. Numbers[m] < Numbers[idom[m]] /\ idom[m] \in Processed
    BY <2>3, <1>1
  <2>5. idom[m] \in T
    BY <2>3, <2>4, <1>1
  <2> QED BY <2>1, <2>4, <2>5, <1>1
<1>3. a \in Processed /\ Numbers[n] <= Numbers[a]
  BY <1>2
<1>4. a # n => Numbers[a] # Numbers[n]
  BY <1>1, <1>3
<1> QED BY <1>1, <1>3, <1>4

\* With immediate dominators, dominates() is dominance.
LEMMA DominatesIsDominance ==
  ASSUME Climbs, Descends, Immediates, idom \in [Nodes -> Nodes \cup {Null}], Null \notin Nodes,
         NEW a \in visited, NEW n \in Processed
  PROVE  Dominates(a, n) <=> ForwardDom(a, n)
<1>1. /\ \A m \in Processed : /\ m \in visited /\ m \in Nodes /\ Numbers[m] = Order(m) /\ Numbers[m] \in Nat
                              /\ idom[m] \in Processed
      /\ \A m \in Processed : m # entry_block => Numbers[m] < Numbers[idom[m]]
      /\ \A m \in Processed : m = entry_block => idom[m] = m
      /\ entry_block \in visited
  BY ClimbsFacts DEF Descends, Descending
<1> DEFINE T == {m \in Processed : ~ (Dominates(a, m) <=> ForwardDom(a, m))}
<1>2. ASSUME T # {} PROVE FALSE
  <2>1. PICK m \in T : \A y \in T : Numbers[y] <= Numbers[m]
    <3>1. T \subseteq visited
      BY <1>1
    <3> HIDE DEF T
    <3> QED BY <3>1, <1>2, ClimbingExtremes DEF Climbs
  <2>2. Dominates(a, m) <=> m = a \/ (idom[m] # m /\ Dominates(a, idom[m]))
    BY <1>1, DominatesStep
  <2>3. ForwardDom(a, m) <=> m = a \/ (idom[m] # m /\ ForwardDom(a, idom[m]))
    <3>1. CASE m = entry_block
      <4>1. ForwardDom(a, m) <=> a = m
        BY <1>1, <3>1, DomBasics DEF ForwardDom
      <4> QED BY <4>1, <3>1, <1>1
    <3>2. CASE m # entry_block
      <4>1. ForwardDom(a, m) <=> a = m \/ ForwardDom(a, idom[m])
        BY <3>2 DEF Immediates, Immediate, ForwardDom
      <4>2. Numbers[m] < Numbers[idom[m]]
        BY <3>2, <1>1
      <4>3. idom[m] # m
        BY <4>2, <1>1
      <4> QED BY <4>1, <4>3
    <3> QED BY <3>1, <3>2
  <2>4. idom[m] \in T /\ idom[m] # m
    BY <1>1, <2>2, <2>3
  <2>5. Numbers[m] < Numbers[idom[m]]
    BY <1>1, <2>4
  <2> QED BY <2>1, <2>4, <2>5, <1>1
<1> QED BY <1>2

-----------------------------------------------------------------------------
(* visit_reachability.                                                     *)

\* The numbers are the places in the post-order.
LEMMA OrderFacts ==
  ASSUME post_order \in Seq(Nodes), Distinct(post_order)
  PROVE  /\ \A n \in Elements(post_order) :
              Order(n) \in 1 .. Len(post_order) /\ post_order[Order(n)] = n
         /\ \A k \in 1 .. Len(post_order) :
              post_order[k] \in Elements(post_order) /\ Order(post_order[k]) = k
         /\ \A m, n \in Elements(post_order) : Order(m) = Order(n) => m = n
<1>1. DOMAIN post_order = 1 .. Len(post_order)
  OBVIOUS
<1>2. \A n \in Elements(post_order) :
        Order(n) \in 1 .. Len(post_order) /\ post_order[Order(n)] = n
  BY <1>1 DEF Order, Elements
<1>3. \A k \in 1 .. Len(post_order) : post_order[k] \in Elements(post_order)
  BY <1>1 DEF Elements
<1>4. ASSUME NEW k \in 1 .. Len(post_order) PROVE Order(post_order[k]) = k
  <2>1. Order(post_order[k]) \in 1 .. Len(post_order) /\ post_order[Order(post_order[k])] = post_order[k]
    BY <1>2, <1>3
  <2> QED BY <2>1, <1>1 DEF Distinct
<1> QED BY <1>2, <1>3, <1>4

\* The forward branches are the pairs of a block and one of its successors.
LEMMA EdgesAre ==
  ASSUME succ \in [Nodes -> Seq(Nodes)]
  PROVE  /\ Pairs(Edges(succ))
         /\ \A m, n : <<m, n>> \in Edges(succ) <=> m \in Nodes /\ n \in Elements(succ[m])
<1>1. \A m \in Nodes : Elements(succ[m]) \subseteq Nodes
  BY DEF Elements
<1> QED BY <1>1 DEF Edges, Pairs

\* The same as ReachedEquation, for each block.
LEMMA ReachedBlocks ==
  ASSUME NEW V, NEW E, Pairs(E), NEW s \in V, NEW b
  PROVE  b \in Reached(V, E, s) <=> b = s \/ \E t \in V : <<s, t>> \in E /\ b \in Reached(V, E, t)
<1>1. Reached(V, E, s) = {s} \cup UNION {Reached(V, E, t) : t \in {u \in V : <<s, u>> \in E}}
  BY ReachedEquation
<1> QED BY <1>1

\* A row of the bitset names what its block reaches by forward branches.
LEMMA ReachabilityRowsFacts ==
  ASSUME succ \in [Nodes -> Seq(Nodes)], post_order \in Seq(Nodes), Distinct(post_order),
         visited = Elements(post_order), Descends
  PROVE  \A n \in visited : ReachabilityRows[n] = Reached(visited, Edges(succ), n)
<1> DEFINE k == Len(post_order)
           Rows == CHOOSE R : R = [i \in DOMAIN post_order |->
                     {post_order[i]} \cup UNION {R[Order(s)] : s \in Elements(succ[post_order[i]])}]
           f == [i \in DOMAIN post_order |-> Reached(visited, Edges(succ), post_order[i])]
<1>1. ReachabilityRows = [n \in Nodes |-> IF n \in visited THEN Rows[Order(n)] ELSE {}]
  BY Zenon DEF ReachabilityRows
<1>2. /\ DOMAIN post_order = 1 .. k /\ visited \subseteq Nodes
      /\ \A n \in visited : /\ Order(n) \in 1 .. k /\ post_order[Order(n)] = n /\ Numbers[n] = Order(n)
                            /\ Order(n) \in Nat
      /\ \A i \in 1 .. k : post_order[i] \in visited /\ Order(post_order[i]) = i
  BY OrderFacts DEF Numbers, Elements
<1>3. ASSUME NEW n \in visited
      PROVE  /\ Elements(succ[n]) \subseteq visited
             /\ \A s \in Elements(succ[n]) : Numbers[s] < Numbers[n]
             /\ Reached(visited, Edges(succ), n)
                  = {n} \cup UNION {Reached(visited, Edges(succ), s) : s \in Elements(succ[n])}
  <2>1. \A s : <<n, s>> \in Edges(succ) <=> s \in Elements(succ[n])
    BY <1>2, EdgesAre
  <2>2. \A s \in Elements(succ[n]) : s \in visited /\ Numbers[s] < Numbers[n]
    BY <2>1 DEF Descends, Descending
  <2>3. ASSUME NEW b
        PROVE  b \in Reached(visited, Edges(succ), n)
                 <=> b = n \/ \E t \in Elements(succ[n]) : b \in Reached(visited, Edges(succ), t)
    <3>1. Pairs(Edges(succ))
      BY EdgesAre
    <3>2. b \in Reached(visited, Edges(succ), n)
            <=> b = n \/ \E t \in visited : <<n, t>> \in Edges(succ) /\ b \in Reached(visited, Edges(succ), t)
      BY <3>1, ReachedBlocks
    <3> QED BY <3>2, <2>1, <2>2
  <2> QED BY <2>2, <2>3
<1> HIDE DEF Rows, f, k
<1>4. \A s \in visited : f[Order(s)] = Reached(visited, Edges(succ), s)
  BY <1>2 DEF f
<1>5. ASSUME NEW i \in DOMAIN post_order
      PROVE  f[i] = {post_order[i]} \cup UNION {f[Order(s)] : s \in Elements(succ[post_order[i]])}
  <2>1. post_order[i] \in visited /\ f[i] = Reached(visited, Edges(succ), post_order[i])
    BY <1>2 DEF f
  <2>2. {Reached(visited, Edges(succ), s) : s \in Elements(succ[post_order[i]])}
          = {f[Order(s)] : s \in Elements(succ[post_order[i]])}
    <3>1. \A s \in Elements(succ[post_order[i]]) : f[Order(s)] = Reached(visited, Edges(succ), s)
      BY <2>1, <1>3, <1>4
    <3> QED BY <3>1
  <2>3. Reached(visited, Edges(succ), post_order[i])
          = {post_order[i]} \cup UNION {Reached(visited, Edges(succ), s) : s \in Elements(succ[post_order[i]])}
    BY <2>1, <1>3
  <2> QED BY <2>1, <2>2, <2>3
<1>6. f = [i \in DOMAIN post_order |->
             {post_order[i]} \cup UNION {f[Order(s)] : s \in Elements(succ[post_order[i]])}]
  <2>1. f = [i \in DOMAIN post_order |-> f[i]]
    BY DEF f
  <2> QED BY <2>1, <1>5, Zenon
<1>7. Rows = [i \in DOMAIN post_order |->
                {post_order[i]} \cup UNION {Rows[Order(s)] : s \in Elements(succ[post_order[i]])}]
  BY <1>6, Zenon DEF Rows
<1> DEFINE T == {n \in visited : Rows[Order(n)] # Reached(visited, Edges(succ), n)}
<1>8. ASSUME T # {} PROVE FALSE
  <2>1. PICK n \in T : \A y \in T : Numbers[n] <= Numbers[y]
    <3>1. T \subseteq visited
      OBVIOUS
    <3> HIDE DEF T
    <3> QED BY <3>1, <1>8, Extremes DEF Descends
  <2>2. ASSUME NEW s \in Elements(succ[n])
        PROVE  Rows[Order(s)] = Reached(visited, Edges(succ), s)
    <3>1. s \in visited /\ Numbers[s] < Numbers[n]
      BY <1>3
    <3>2. s \notin T
      BY <3>1, <2>1, <1>2
    <3> QED BY <3>1, <3>2
  <2>3. Rows[Order(n)] = {n} \cup UNION {Rows[Order(s)] : s \in Elements(succ[n])}
    <3>1. Order(n) \in DOMAIN post_order /\ post_order[Order(n)] = n
      BY <1>2
    <3> QED BY <3>1, <1>7, Zenon
  <2>4. {Rows[Order(s)] : s \in Elements(succ[n])} = {Reached(visited, Edges(succ), s) : s \in Elements(succ[n])}
    BY <2>2
  <2> QED BY <2>3, <2>4, <1>3
<1> QED BY <1>1, <1>2, <1>8

-----------------------------------------------------------------------------
(* Back edges.                                                             *)

\* Block l closes a loop with header h: the other blocks of some set lead on in it.
ClosesLoop(V, E, h, l) ==
  \E S \in SUBSET V : h \in S /\ l \in S /\ \A x \in S : x # l => \E y \in S : <<x, y>> \in E

\* With more branches there is no more dominance.
LEMMA DomMonotone ==
  ASSUME NEW V, NEW E, NEW B, E \subseteq B, entry_block \in V, NEW a \in V, NEW b, Dom(V, B, a, b)
  PROVE  Dom(V, E, a, b)
<1>1. CASE a = entry_block \/ b = a
  BY <1>1 DEF Dom, OnlyThrough
<1>2. CASE a # entry_block /\ b # a
  <2> DEFINE W == V \ {a}
  <2>1. entry_block \in W
    BY <1>2
  <2> HIDE DEF W
  <2>2. ClosedSets(W, B, entry_block) \subseteq ClosedSets(W, E, entry_block)
    BY DEF ClosedSets
  <2>3. Reached(W, E, entry_block) \subseteq Reached(W, B, entry_block)
    BY <2>1, <2>2, ReachedFacts
  <2> QED BY <1>2, <2>3 DEF Dom, OnlyThrough, W
<1> QED BY <1>1, <1>2

\* A reducible function has the dominators that it has without its back edges.
LEMMA ReducibleDominance ==
  ASSUME NEW V, NEW E, NEW o, NEW k, Descending(V, E, o, k), NEW B, Pairs(B), E \subseteq B,
         \A l, h \in V : <<l, h>> \in B => <<l, h>> \in E \/ ClosesLoop(V, E, h, l),
         ReducibleGraph(V, B), NEW a \in V, NEW b
  PROVE  Dom(V, B, a, b) <=> Dom(V, E, a, b)
<1>1. /\ entry_block \in V /\ Pairs(E)
      /\ \A n \in V : o[n] \in Nat
  BY DEF Descending
<1>2. \A c \in V : \A x : Dom(V, B, c, x) => Dom(V, E, c, x)
  BY <1>1, DomMonotone
<1>3. ASSUME NEW l \in V, NEW h \in V, <<l, h>> \in B, <<l, h>> \notin E
      PROVE  Dom(V, E, h, l)
  <2>1. PICK S \in SUBSET V : h \in S /\ l \in S /\ \A x \in S : x # l => \E y \in S : <<x, y>> \in E
    BY <1>3 DEF ClosesLoop
  <2>2. Acyclic(V, {e \in B \cap (V \X V) : ~ Dom(V, B, e[2], e[1])})
    <3> DEFINE dom == [c \in V |-> OnlyThrough(V, B, entry_block, c)]
    <3>1. {e \in B \cap (V \X V) : e[1] \notin dom[e[2]]} = {e \in B \cap (V \X V) : ~ Dom(V, B, e[2], e[1])}
      BY DEF Dom
    <3>2. Acyclic(V, {e \in B \cap (V \X V) : e[1] \notin dom[e[2]]})
      BY Zenon DEF ReducibleGraph
    <3> QED BY <3>1, <3>2, Zenon
  <2>3. PICK x \in S : \A y \in S : <<x, y>> \notin {e \in B \cap (V \X V) : ~ Dom(V, B, e[2], e[1])}
    BY <2>1, <2>2 DEF Acyclic
  <2>4. \A y \in S : <<x, y>> \in B => Dom(V, B, y, x)
    <3> SUFFICES ASSUME NEW y \in S, <<x, y>> \in B PROVE Dom(V, B, y, x)
      OBVIOUS
    <3>1. <<x, y>> \in B \cap (V \X V) /\ <<x, y>>[1] = x /\ <<x, y>>[2] = y
      BY <2>1
    <3> QED BY <3>1, <2>3
  <2>5. x = l
    <3>1. SUFFICES ASSUME x # l PROVE FALSE
      OBVIOUS
    <3>2. PICK y \in S : <<x, y>> \in E
      BY <2>1, <3>1
    <3>3. Dom(V, E, y, x)
      BY <3>2, <2>4, <1>2
    <3>4. o[x] <= o[y]
      BY <3>3, DomOrder
    <3>5. o[y] < o[x]
      BY <3>2 DEF Descending
    <3> QED BY <3>4, <3>5, <1>1
  <2> QED BY <2>1, <2>4, <2>5, <1>2, <1>3
<1>4. ASSUME Dom(V, E, a, b) PROVE Dom(V, B, a, b)
  <2>0. b \in V
    BY <1>1, <1>4, DomBasics
  <2>1. CASE a = entry_block \/ b = a
    BY <2>0, <2>1 DEF Dom, OnlyThrough
  <2>2. CASE a # entry_block /\ b # a
    <3> DEFINE W == V \ {a}
               S == {x \in W : ~ Dom(V, E, a, x)}
    <3>1. entry_block \in S
      BY <1>1, <2>2, DomBasics
    <3>2. ASSUME NEW e \in B, e[1] \in S, e[2] \in W
          PROVE  e[2] \in S
      <4>1. SUFFICES ASSUME Dom(V, E, a, e[2]) PROVE FALSE
        BY <3>2
      <4>2. e = <<e[1], e[2]>> /\ e[1] \in V /\ e[2] \in V /\ e[2] # a /\ ~ Dom(V, E, a, e[1])
        BY <3>2 DEF Pairs
      <4>3. CASE e \in E
        <5>1. e[2] # entry_block
          BY <4>2, <4>3 DEF Descending
        <5>2. <<e[1], e[2]>> \in E
          BY <4>2, <4>3
        <5> HIDE DEF S, W
        <5> QED BY <5>1, <5>2, <4>1, <4>2, <1>1, DomEquation
      <4>4. CASE e \notin E
        <5>1. <<e[1], e[2]>> \in B /\ <<e[1], e[2]>> \notin E
          BY <4>2, <4>4, <3>2
        <5>2. Dom(V, E, e[2], e[1])
          BY <5>1, <4>2, <1>3
        <5> HIDE DEF S, W
        <5> QED BY <5>2, <4>1, <4>2, DomTrans
      <4> QED BY <4>3, <4>4
    <3>3. S \in ClosedSets(W, B, entry_block)
      BY <3>1, <3>2 DEF ClosedSets
    <3>4. b \notin S
      BY <1>4
    <3>5. b \notin Reached(W, B, entry_block)
      <4> HIDE DEF S, W
      <4>1. entry_block \in W
        BY <3>1 DEF S
      <4> QED BY <3>3, <3>4, <4>1, ReachedFacts
    <3> QED BY <3>5, <2>0 DEF Dom, OnlyThrough
  <2> QED BY <2>1, <2>2
<1> QED BY <1>2, <1>4

-----------------------------------------------------------------------------
(* Walks over the graph that find the exits of loops.                      *)

\* The first k steps of a closure.
Closing(next, S, k, f) ==
  /\ f = [i \in 0 .. k |-> f[i]]
  /\ \A i \in 0 .. k : f[i] = IF i = 0 THEN S ELSE UNION {{n} \cup next[n] : n \in f[i - 1]}

\* The recursive definition of Closure has a solution.
LEMMA ClosingExists ==
  ASSUME NEW next, NEW S, NEW n \in Nat
  PROVE  \E f : Closing(next, S, n, f)
<1> DEFINE P == {k \in Nat : \E f : Closing(next, S, k, f)}
<1>1. 0 \in P
  <2>1. Closing(next, S, 0, [i \in 0 .. 0 |-> S])
    BY DEF Closing
  <2> QED BY <2>1, Zenon
<1>2. ASSUME NEW k \in 0 .. n - 1, k \in P PROVE k + 1 \in P
  <2>1. PICK f : Closing(next, S, k, f)
    BY <1>2
  <2> DEFINE last == UNION {{m} \cup next[m] : m \in f[k]}
             g == [i \in 0 .. k + 1 |-> IF i = k + 1 THEN last ELSE f[i]]
  <2>2. k \in Nat /\ k + 1 \in Nat
    OBVIOUS
  <2>3. g[k + 1] = last /\ \A i \in 0 .. k : g[i] = f[i]
    BY <2>2
  <2>4. g = [i \in 0 .. k + 1 |-> g[i]]
    OBVIOUS
  <2>5. ASSUME NEW i \in 0 .. k + 1
        PROVE  g[i] = IF i = 0 THEN S ELSE UNION {{m} \cup next[m] : m \in g[i - 1]}
    <3> HIDE DEF g
    <3>1. CASE i = k + 1
      <4>1. i # 0 /\ i - 1 = k /\ k \in 0 .. k
        BY <2>2, <3>1
      <4>2. g[i - 1] = f[k] /\ g[i] = last
        BY <2>3, <3>1, <4>1
      <4> QED BY <4>1, <4>2, Zenon
    <3>2. CASE i \in 1 .. k
      <4>1. i - 1 \in 0 .. k /\ i \in 0 .. k /\ i # 0
        BY <2>2, <3>2
      <4>2. g[i - 1] = f[i - 1] /\ g[i] = f[i]
        BY <2>3, <4>1
      <4>3. f[i] = UNION {{m} \cup next[m] : m \in f[i - 1]}
        BY <2>1, <4>1, Zenon DEF Closing
      <4> QED BY <4>1, <4>2, <4>3, Zenon
    <3>3. CASE i = 0
      BY <2>1, <2>2, <2>3, <3>3 DEF Closing
    <3> QED BY <2>2, <3>1, <3>2, <3>3
  <2> HIDE DEF g
  <2>6. Closing(next, S, k + 1, g)
    BY <2>4, <2>5 DEF Closing
  <2> QED BY <2>2, <2>6, Zenon
<1> HIDE DEF P
<1>3. 0 .. n \subseteq P
  BY <1>1, <1>2, SetInduction
<1> QED BY <1>3 DEF P

\* What leads nowhere else is closed.
LEMMA ClosureIn ==
  ASSUME num_nodes \in Nat, NEW next, NEW S, NEW T, S \subseteq T, \A n \in T : next[n] \subseteq T
  PROVE  Closure(next, S) \subseteq T
<1> DEFINE R == CHOOSE f : f = [k \in 0 .. num_nodes |->
                  IF k = 0 THEN S ELSE UNION {{n} \cup next[n] : n \in f[k - 1]}]
<1>1. Closure(next, S) = R[num_nodes]
  BY Zenon DEF Closure
<1>2. PICK f : Closing(next, S, num_nodes, f)
  BY ClosingExists
<1>3. f = [k \in 0 .. num_nodes |-> IF k = 0 THEN S ELSE UNION {{n} \cup next[n] : n \in f[k - 1]}]
  <2>1. f = [k \in 0 .. num_nodes |-> f[k]]
    BY <1>2 DEF Closing
  <2> QED BY <1>2, <2>1, Zenon DEF Closing
<1>4. R = [k \in 0 .. num_nodes |-> IF k = 0 THEN S ELSE UNION {{n} \cup next[n] : n \in R[k - 1]}]
  BY <1>3, Zenon
<1> HIDE DEF R
<1> DEFINE P == {k \in Nat : k > num_nodes \/ R[k] \subseteq T}
<1>5. 0 \in P
  <2>1. 0 \in 0 .. num_nodes
    OBVIOUS
  <2>2. R[0] = S
    BY <1>4, <2>1, Zenon
  <2> QED BY <2>2
<1>6. ASSUME NEW k \in 0 .. num_nodes - 1, k \in P PROVE k + 1 \in P
  <2>1. k \in Nat /\ k + 1 \in 0 .. num_nodes /\ k + 1 # 0 /\ (k + 1) - 1 = k /\ R[k] \subseteq T
    BY <1>6
  <2>2. R[k + 1] = UNION {{n} \cup next[n] : n \in R[(k + 1) - 1]}
    BY <1>4, <2>1, Zenon
  <2>3. R[k + 1] = UNION {{n} \cup next[n] : n \in R[k]}
    BY <2>1, <2>2
  <2>4. R[k + 1] \subseteq T
    BY <2>1, <2>3
  <2> QED BY <2>1, <2>4
<1>7. num_nodes \in P
  <2> HIDE DEF P
  <2>1. 0 .. num_nodes \subseteq P
    BY <1>5, <1>6, SetInduction
  <2> QED BY <2>1
<1> QED BY <1>1, <1>7

-----------------------------------------------------------------------------
(* Branches at both of their ends, in a function that recompute_cfg has     *)
(* changed.                                                                *)

\* The blocks of L lead to each other only, and their branches are recorded at both
\* ends.  The predecessors of a block of L may be missing if they are not in L.
LiveEnds(L) ==
  /\ L \subseteq Nodes /\ entry_block \in L /\ visited \subseteq L
  /\ \A a \in L : \A b \in Nodes : Branch(a, b) => b \in L
  /\ \A a, b \in L : Branch(a, b) <=> a \in Elements(pred[b]) \/ pred_back_edge[b] = a
  /\ \A a, b \in Nodes : succ_back_edge[a] = b <=> pred_back_edge[b] = a
  /\ \A n \in Nodes : Distinct(pred[n])
  /\ \A n \in Nodes : pred_back_edge[n] # Null => n \in visited
  /\ \A n \in Elements(post_order) : pred_back_edge[n] \notin Elements(pred[n])

\* A visit passes a branch.
LEMMA VisitSuccLive ==
  ASSUME VisitInv, ListsInv, phase = "visit", VisitSucc, NEW L, LiveEnds(L)
  PROVE  ListsInv' /\ LiveEnds(L)'
<1>1. TypeInv /\ CallInv /\ stack # << >> /\ Top.next <= Len(succ[Top.node])
  BY DEF VisitInv, VisitSucc, MoreSucc
<1>2. Top.node \in Nodes /\ Top.next \in Nat \ {0} /\ Top.node \in Traversing
  BY <1>1, AdvanceFacts DEF Top
<1>3. NextSucc \in Nodes /\ NextSucc \in Elements(succ[Top.node])
  <2>1. succ[Top.node] \in Seq(Nodes)
    BY <1>1, <1>2 DEF TypeInv
  <2>2. Top.next \in DOMAIN succ[Top.node]
    BY <1>1, <1>2, <2>1
  <2> QED BY <2>1, <2>2 DEF NextSucc, Elements
<1>4. NextSucc \in L
  BY <1>1, <1>2, <1>3 DEF LiveEnds, CallInv, Branch
<1>5. UNCHANGED <<phase, visits, num_nodes, succ, pred, fake_pred, succ_back_edge, pred_back_edge, post_order>>
  BY DEF VisitSucc, graphVars, backEdgeVars
<1>6. visited \subseteq visited' /\ visited' \subseteq L
  BY <1>4 DEF VisitSucc, LiveEnds
<1>7. Nodes' = Nodes /\ \A a, b : Branch(a, b)' <=> Branch(a, b)
  BY <1>5 DEF Nodes, Branch, Elements
<1>8. ListsInv'
  BY <1>5, <1>7 DEF ListsInv
<1>9. \A n : Elements(pred'[n]) = Elements(pred[n]) /\ Distinct(pred'[n]) = Distinct(pred[n])
  BY <1>5
<1>10. Elements(post_order)' = Elements(post_order)
  BY <1>5 DEF Elements
<1> QED BY <1>5, <1>6, <1>7, <1>8, <1>9, <1>10 DEF LiveEnds, Elements, Distinct

\* A visit finds a back edge.
LEMMA VisitBackEdgeLive ==
  ASSUME VisitInv, ListsInv, VisitBackEdge, NEW L, LiveEnds(L)
  PROVE  ListsInv' /\ (phase' = "visit" => LiveEnds(L)')
<1> DEFINE n == Top.node
           s == NextSucc
<1>1. TypeInv /\ GraphInv /\ CallInv /\ stack # << >> /\ Top.next <= Len(succ[n]) /\ phase = "visit"
  BY DEF VisitInv, VisitBackEdge, MoreSucc
<1>2. n \in Nodes /\ Top.next \in Nat \ {0} /\ n \in Traversing
  BY <1>1, AdvanceFacts DEF Top
<1>3. s \in Nodes /\ s \in Elements(succ[n])
  <2>1. succ[n] \in Seq(Nodes)
    BY <1>1, <1>2 DEF TypeInv
  <2>2. Top.next \in DOMAIN succ[n]
    BY <1>1, <1>2, <2>1
  <2> QED BY <2>1, <2>2 DEF NextSucc, Elements
<1>4. /\ UNCHANGED <<visits, num_nodes, succ, pred, visited, post_order, fake_pred>>
      /\ s \in Traversing
  BY DEF VisitBackEdge, graphVars
<1>5. Nodes' = Nodes
  BY <1>4 DEF Nodes
<1>6. Blocks \subseteq Nodes /\ Null \notin Nodes
  BY <1>1, BlocksAreNodes DEF TypeInv, ListsInv
<1>7. CASE UNCHANGED <<succ_back_edge, pred_back_edge>>
            /\ phase' \in {"block has two back edges", "header has two back edges"}
  <2>1. ListsInv'
    BY <1>1, <1>4, <1>5, <1>7 DEF ListsInv
  <2> QED BY <1>7, <2>1
<1>8. CASE /\ succ_back_edge[n] \in {Null, s} /\ pred_back_edge[s] \in {Null, n}
           /\ succ_back_edge' = [succ_back_edge EXCEPT ![n] = s]
           /\ pred_back_edge' = [pred_back_edge EXCEPT ![s] = n]
           /\ phase' = phase
  <2>1. /\ succ_back_edge'[n] = s /\ pred_back_edge'[s] = n
        /\ \A m \in Nodes : m # n => succ_back_edge'[m] = succ_back_edge[m]
        /\ \A m \in Nodes : m # s => pred_back_edge'[m] = pred_back_edge[m]
        /\ pred_back_edge' \in [Nodes -> Nodes \cup {Null}]
    BY <1>1, <1>2, <1>3, <1>8 DEF TypeInv, ListsInv
  <2>2. \A a, b \in Nodes : Branch(a, b)' <=> Branch(a, b)
    <3>1. Branch(n, s)
      BY <1>3 DEF Branch
    <3>2. \A a : Elements(succ[a])' = Elements(succ[a])
      BY <1>4 DEF Elements
    <3> QED BY <1>6, <1>8, <2>1, <3>1, <3>2 DEF Branch
  <2>3. ListsInv'
    BY <1>1, <1>4, <1>5, <1>8, <2>1 DEF ListsInv
  <2>4. n \in visited /\ s \in visited /\ n \notin Elements(post_order) /\ s \notin Elements(post_order)
    BY <1>1, <1>2, <1>4 DEF CallInv
  <2>5. L \subseteq Nodes /\ n \in L /\ s \in L
    BY <2>4 DEF LiveEnds
  <2>6. \A a : Elements(pred[a])' = Elements(pred[a])
    BY <1>4 DEF Elements
  <2>7. \A a, b \in Nodes : succ_back_edge'[a] = b <=> pred_back_edge'[b] = a
    <3>1. \A a, b \in Nodes : succ_back_edge[a] = b <=> pred_back_edge[b] = a
      BY DEF LiveEnds
    <3> QED BY <1>2, <1>3, <1>6, <1>8, <2>1, <3>1
  <2>8. \A a, b \in L : Branch(a, b)' <=> (a \in Elements(pred[b]) \/ pred_back_edge'[b] = a)
    <3>1. \A a, b \in L : Branch(a, b) <=> (a \in Elements(pred[b]) \/ pred_back_edge[b] = a)
      BY DEF LiveEnds
    <3>2. Branch(n, s)
      BY <1>3 DEF Branch
    <3> QED BY <1>2, <1>3, <1>6, <1>8, <2>1, <2>2, <2>5, <3>1, <3>2
  <2>9. \A m \in Nodes : pred_back_edge'[m] # Null => m \in visited
    BY <2>1, <2>4 DEF LiveEnds
  <2>10. \A m \in Elements(post_order) : pred_back_edge'[m] \notin Elements(pred[m])
    <3>1. \A m \in Elements(post_order) : m \in Nodes
      BY <1>1 DEF TypeInv, Elements
    <3> QED BY <2>1, <2>4, <3>1 DEF LiveEnds
  <2>11. \A m \in Nodes : Distinct(pred[m])
    BY DEF LiveEnds
  <2>12. \A a \in L : \A b \in Nodes : Branch(a, b)' => b \in L
    BY <2>2, <2>5 DEF LiveEnds
  <2>13. LiveEnds(L)'
    <3>1. visited' \subseteq L /\ entry_block \in L
      BY <1>4 DEF LiveEnds
    <3> QED BY <1>4, <1>5, <2>5, <2>6, <2>7, <2>8, <2>9, <2>10, <2>11, <2>12, <3>1
            DEF LiveEnds, Elements, Distinct
  <2> QED BY <2>3, <2>13
<1> QED BY <1>7, <1>8, Zenon DEF VisitBackEdge, backEdgeVars

\* A call of a visit returns.
LEMMA ReturnFromVisitLive ==
  ASSUME VisitInv, ListsInv, ReturnFromVisit, NEW L, LiveEnds(L)
  PROVE  ListsInv' /\ LiveEnds(L)'
<1> DEFINE n == Top.node
<1>1. TypeInv /\ GraphInv /\ stack # << >> /\ phase = "visit"
  BY DEF VisitInv, ReturnFromVisit, Returns
<1>2. n \in Nodes
  BY <1>1, AdvanceFacts DEF Top
<1>3. /\ UNCHANGED <<visits, num_nodes, succ_back_edge, pred_back_edge, fake_pred, visited>>
      /\ succ' = [succ EXCEPT ![n] = ForwardSucc(n)]
      /\ pred' = [pred EXCEPT ![n] = ForwardPred(n)]
      /\ post_order' = Append(post_order, n)
      /\ phase' \in {"visit", "visited"}
  BY DEF ReturnFromVisit, backEdgeVars
<1>4. Nodes' = Nodes /\ Null \notin Nodes
  BY <1>1, <1>3, BlocksAreNodes DEF TypeInv, ListsInv, Nodes
<1>5. /\ succ[n] \in Seq(Nodes) /\ Distinct(succ[n])
      /\ pred[n] \in Seq(Nodes) /\ Distinct(pred[n])
  BY <1>1, <1>2 DEF TypeInv, GraphInv, ListsInv, LiveEnds
<1>6. Elements(ForwardSucc(n)) = Elements(succ[n]) \ {succ_back_edge[n]}
  BY <1>5, EraseFacts DEF ForwardSucc
<1>7. /\ ForwardPred(n) \in Seq(Nodes) /\ Distinct(ForwardPred(n))
      /\ Elements(ForwardPred(n)) = Elements(pred[n]) \ {pred_back_edge[n]}
  BY <1>5, EraseFacts DEF ForwardPred
<1>8. /\ succ'[n] = ForwardSucc(n) /\ pred'[n] = ForwardPred(n)
      /\ \A m \in Nodes : m # n => succ'[m] = succ[m] /\ pred'[m] = pred[m]
      /\ pred' \in [Nodes -> Seq(Nodes)]
  BY <1>1, <1>2, <1>3, <1>7 DEF TypeInv, ListsInv
<1>9. Elements(post_order') = Elements(post_order) \cup {n} /\ Elements(post_order) \subseteq Nodes
  <2>1. post_order \in Seq(Nodes)
    BY <1>1 DEF TypeInv
  <2>2. Elements(post_order) \subseteq Nodes
    BY <2>1 DEF Elements
  <2> QED BY <1>2, <1>3, <2>1, <2>2, AppendFacts
<1>10. \A a, b \in Nodes : Branch(a, b)' <=> Branch(a, b)
  BY <1>3, <1>6, <1>8 DEF Branch
<1>11. ListsInv'
  BY <1>1, <1>3, <1>4, <1>8 DEF ListsInv
<1>12. LiveEnds(L)'
  <2>1. \A m \in Nodes : Distinct(pred'[m])
    BY <1>7, <1>8 DEF LiveEnds
  <2>2. \A b \in Nodes : \A a : (a \in Elements(pred'[b]) \/ pred_back_edge[b] = a)
                                <=> (a \in Elements(pred[b]) \/ pred_back_edge[b] = a)
    BY <1>7, <1>8
  <2>3. L \subseteq Nodes
    BY DEF LiveEnds
  <2>4. \A a, b \in L : Branch(a, b)' <=> (a \in Elements(pred'[b]) \/ pred_back_edge[b] = a)
    BY <1>10, <2>2, <2>3 DEF LiveEnds
  <2>5. \A m \in Elements(post_order') : pred_back_edge[m] \notin Elements(pred'[m])
    <3> SUFFICES ASSUME NEW m \in Elements(post_order') PROVE pred_back_edge[m] \notin Elements(pred'[m])
      OBVIOUS
    <3>1. CASE m = n
      BY <1>7, <1>8, <3>1
    <3>2. CASE m # n
      BY <1>8, <1>9, <3>2 DEF LiveEnds
    <3> QED BY <3>1, <3>2
  <2>6. \A a \in L : \A b \in Nodes : Branch(a, b)' => b \in L
    BY <1>10, <2>3 DEF LiveEnds
  <2> QED BY <1>3, <1>4, <2>1, <2>3, <2>4, <2>5, <2>6 DEF LiveEnds
<1> QED BY <1>11, <1>12

\* The variables of a traversal that has begun are as VisitInv asks, whatever the
\* branches of the last one were.
LEMMA RecomputeVisits ==
  ASSUME TypeInv, GraphInv, phase \in {"visit", "visited"} => CallInv, Recompute
  PROVE  VisitInv'
<1>2. /\ num_nodes' = num_nodes /\ phase' = "visit" /\ post_order' = << >>
      /\ succ' = [n \in Nodes |-> PushUnlessNull(succ[n], succ_back_edge[n])]
      /\ succ_back_edge' = [n \in Nodes |-> Null]
      /\ stack' = <<Frame(entry_block)>> /\ visited' = {entry_block}
  BY DEF Recompute, RestoreBackEdges, Enter
<1>3. Nodes' = Nodes /\ entry_block \in Nodes
  BY <1>2 DEF Nodes, TypeInv, entry_block
<1>4. ASSUME NEW n \in Nodes
      PROVE  succ'[n] \in Seq(Nodes) /\ Distinct(succ'[n])
  <2>1. succ[n] \in Seq(Nodes) /\ Distinct(succ[n])
    BY DEF TypeInv, GraphInv
  <2>2. CASE succ_back_edge[n] = Null
    BY <1>2, <2>1, <2>2 DEF PushUnlessNull
  <2>3. CASE succ_back_edge[n] # Null
    <3>1. phase = "visited"
      BY <2>3 DEF Recompute, GraphInv
    <3>2. CallInv /\ stack = << >>
      BY <3>1 DEF CallInv
    <3>3. Traversing = {}
      BY <3>2 DEF Traversing
    <3>4. n \in Elements(post_order)
      BY <2>3, <3>2, <3>3 DEF CallInv, GraphInv
    <3>5. succ_back_edge[n] \in Nodes /\ succ_back_edge[n] \notin Elements(succ[n])
      BY <2>3, <3>1, <3>4 DEF TypeInv, GraphInv
    <3>6. succ'[n] = Append(succ[n], succ_back_edge[n])
      BY <1>2, <2>3 DEF PushUnlessNull
    <3> QED BY <2>1, <3>5, <3>6, AppendFacts
  <2> QED BY <2>2, <2>3
<1>5. Frame(entry_block) \in [node : Nodes, next : Nat \ {0}]
  BY <1>3 DEF Frame
<1>6. /\ stack' \in Seq([node : Nodes, next : Nat \ {0}]) /\ DOMAIN stack' = {1}
      /\ stack'[1].node = entry_block /\ stack'[1].next = 1
  BY <1>2, <1>5 DEF Frame
<1>7. TypeInv'
  <2>1. succ' \in [Nodes -> Seq(Nodes)]
    BY <1>2, <1>4
  <2> QED BY <1>2, <1>3, <1>6, <2>1 DEF TypeInv
<1>8. DOMAIN post_order' = {} /\ Elements(post_order)' = {}
  BY <1>2 DEF Elements
<1>9. GraphInv'
  BY <1>2, <1>3, <1>4, <1>8 DEF GraphInv
<1>10. CallInv'
  <2>1. Traversing' = {entry_block}
    BY <1>6 DEF Traversing
  <2> QED BY <1>2, <1>6, <1>8, <2>1 DEF CallInv, Distinct
<1>11. ReturnedInv'
  BY <1>8 DEF ReturnedInv
<1>12. PassedInv'
  <2>1. \A j \in DOMAIN succ'[entry_block] : ~ (j < 1)
    BY <1>3, <1>4
  <2> QED BY <1>6, <2>1 DEF PassedInv
<1> QED BY <1>7, <1>9, <1>10, <1>11, <1>12 DEF VisitInv

\* The visited blocks when a traversal is over.
LEMMA AllReturned ==
  ASSUME CallInv, phase = "visited"
  PROVE  visited = Elements(post_order) /\ stack = << >>
<1>1. stack = << >>
  BY DEF CallInv
<1>2. Traversing = {}
  BY <1>1 DEF Traversing
<1> QED BY <1>1, <1>2 DEF CallInv

\* reset_traversal records every branch at the same ends as before.
LEMMA RestoreLive ==
  ASSUME TypeInv, GraphInv, ListsInv, phase = "visited" => CallInv, Recompute, NEW L, LiveEnds(L),
         NEW n \in Nodes
  PROVE  /\ succ'[n] = PushUnlessNull(succ[n], succ_back_edge[n])
         /\ pred'[n] = PushUnlessNull(pred[n], pred_back_edge[n])
         /\ pred'[n] \in Seq(Nodes) /\ Distinct(pred'[n])
         /\ \A x \in Nodes : x \in Elements(succ'[n]) <=> Branch(n, x)
         /\ \A x \in Nodes : x \in Elements(pred'[n]) <=> x \in Elements(pred[n]) \/ pred_back_edge[n] = x
<1>1. Null \notin Nodes
  BY BlocksAreNodes DEF TypeInv, ListsInv
<1>2. succ'[n] = PushUnlessNull(succ[n], succ_back_edge[n]) /\ pred'[n] = PushUnlessNull(pred[n], pred_back_edge[n])
  BY DEF Recompute, RestoreBackEdges
<1>3. succ_back_edge[n] # Null => succ_back_edge[n] \notin Elements(succ[n])
  <2>1. CASE phase = "analysis"
    BY <2>1 DEF GraphInv
  <2>2. CASE phase = "visited"
    BY <2>2, AllReturned DEF GraphInv
  <2> QED BY <2>1, <2>2 DEF Recompute
<1>4. pred_back_edge[n] # Null => pred_back_edge[n] \notin Elements(pred[n])
  <2>1. CASE phase = "analysis"
    <3> SUFFICES ASSUME pred_back_edge[n] # Null PROVE FALSE
      OBVIOUS
    <3>1. PICK a : a = pred_back_edge[n]
      OBVIOUS
    <3>2. a \in Nodes
      BY <3>1 DEF ListsInv
    <3>3. succ_back_edge[a] = n
      BY <3>1, <3>2 DEF LiveEnds
    <3> QED BY <1>1, <2>1, <3>2, <3>3 DEF GraphInv
  <2>2. CASE phase = "visited"
    BY <2>2, AllReturned DEF LiveEnds
  <2> QED BY <2>1, <2>2 DEF Recompute
<1>5. /\ succ[n] \in Seq(Nodes) /\ Distinct(succ[n]) /\ succ_back_edge[n] \in Nodes \cup {Null}
      /\ pred[n] \in Seq(Nodes) /\ Distinct(pred[n]) /\ pred_back_edge[n] \in Nodes \cup {Null}
  BY DEF TypeInv, GraphInv, ListsInv, LiveEnds
<1>6. \A x \in Nodes : x \in Elements(succ'[n]) <=> x \in Elements(succ[n]) \/ x = succ_back_edge[n]
  <2>1. \A x \in Nodes : x \in Elements(PushUnlessNull(succ[n], succ_back_edge[n]))
                           <=> x \in Elements(succ[n]) \/ x = succ_back_edge[n]
    BY <1>1, <1>3, <1>5, PushFacts
  <2> QED BY <1>2, <2>1
<1>7. /\ pred'[n] \in Seq(Nodes) /\ Distinct(pred'[n])
      /\ \A x \in Nodes : x \in Elements(pred'[n]) <=> x \in Elements(pred[n]) \/ x = pred_back_edge[n]
  <2>1. /\ PushUnlessNull(pred[n], pred_back_edge[n]) \in Seq(Nodes)
        /\ Distinct(PushUnlessNull(pred[n], pred_back_edge[n]))
        /\ \A x \in Nodes : x \in Elements(PushUnlessNull(pred[n], pred_back_edge[n]))
                              <=> x \in Elements(pred[n]) \/ x = pred_back_edge[n]
    BY <1>1, <1>4, <1>5, PushFacts
  <2> QED BY <1>2, <2>1
<1> QED BY <1>2, <1>6, <1>7 DEF Branch

\* The next traversal starts with the branches that were recorded before.
LEMMA RecomputeLive ==
  ASSUME TypeInv, GraphInv, ListsInv, phase = "visited" => CallInv, Recompute, NEW L, LiveEnds(L)
  PROVE  ListsInv' /\ LiveEnds(L)'
<1>2. /\ UNCHANGED num_nodes /\ phase' = "visit" /\ post_order' = << >>
      /\ visits < MaxVisits /\ visits' = visits + 1
      /\ succ_back_edge' = [n \in Nodes |-> Null]
      /\ pred_back_edge' = [n \in Nodes |-> Null]
      /\ fake_pred' = [n \in Nodes |-> << >>]
      /\ DOMAIN pred' = Nodes /\ DOMAIN succ' = Nodes
      /\ pred' = [n \in Nodes |-> pred'[n]] /\ visited' = {entry_block}
  BY DEF Recompute, RestoreBackEdges, Enter
<1>3. Nodes' = Nodes /\ Null \notin Nodes
  BY <1>2, BlocksAreNodes DEF TypeInv, ListsInv, Nodes
<1>4. \A n \in Nodes :
        /\ pred'[n] \in Seq(Nodes) /\ Distinct(pred'[n])
        /\ \A x \in Nodes : x \in Elements(succ'[n]) <=> Branch(n, x)
        /\ \A x \in Nodes : x \in Elements(pred'[n]) <=> x \in Elements(pred[n]) \/ pred_back_edge[n] = x
  BY RestoreLive
<1>5. \A a, b \in Nodes : Branch(a, b)' <=> Branch(a, b)
  BY <1>2, <1>3, <1>4 DEF Branch
<1>6. ListsInv'
  <2>1. pred' \in [Nodes -> Seq(Nodes)]
    BY <1>2, <1>4
  <2>2. visits' \in 0 .. MaxVisits
    <3>1. MaxVisits \in Nat /\ visits \in 0 .. MaxVisits
      BY CVConstants DEF ListsInv
    <3> QED BY <1>2, <3>1
  <2>3. fake_pred' \in [Nodes -> Seq(Nodes)] /\ pred_back_edge' \in [Nodes -> Nodes \cup {Null}]
    BY <1>2
  <2>4. num_nodes >= NumBlocks
    BY DEF ListsInv
  <2> QED BY <1>2, <1>3, <2>1, <2>2, <2>3, <2>4 DEF ListsInv
<1>7. LiveEnds(L)'
  <2>1. L \subseteq Nodes /\ entry_block \in L
    BY DEF LiveEnds
  <2>2. \A a, b \in L : Branch(a, b)' <=> (a \in Elements(pred'[b]) \/ pred_back_edge'[b] = a)
    <3>1. \A a, b \in L : Branch(a, b) <=> (a \in Elements(pred[b]) \/ pred_back_edge[b] = a)
      BY DEF LiveEnds
    <3>2. \A a, b \in Nodes : pred_back_edge'[b] # a
      BY <1>2, <1>3
    <3> QED BY <1>4, <1>5, <2>1, <3>1, <3>2
  <2>3. Elements(post_order') = {}
    BY <1>2 DEF Elements
  <2>4. \A n \in Nodes : succ_back_edge'[n] = Null /\ pred_back_edge'[n] = Null
    BY <1>2
  <2>5. \A a \in L : \A b \in Nodes : Branch(a, b)' => b \in L
    BY <1>5, <2>1 DEF LiveEnds
  <2> QED BY <1>2, <1>3, <1>4, <2>1, <2>2, <2>3, <2>4, <2>5 DEF LiveEnds
<1> QED BY <1>6, <1>7

\* All branches are recorded at both ends when the analysis is over.
LEMMA LiveAtFirst ==
  ASSUME TypeInv, EdgesInv, phase = "analysis"
  PROVE  LiveEnds(Nodes)
<1>1. entry_block \in Nodes
  BY DEF TypeInv, Nodes, entry_block
<1>2. \A n \in Elements(post_order) : n \in Nodes
  BY DEF TypeInv, Elements
<1>3. ListsInv /\ EndsInv
  BY DEF EdgesInv
<1>4. Null \notin Nodes
  BY <1>3, BlocksAreNodes DEF TypeInv, ListsInv
<1>5. \A n \in Nodes : pred_back_edge[n] = Null
  BY <1>3 DEF EndsInv
<1>6. \A n \in Nodes : Elements(pred[n]) \subseteq Nodes
  <2>1. \A n \in Nodes : pred[n] \in Seq(Nodes)
    BY <1>3 DEF ListsInv
  <2> QED BY <2>1 DEF Elements
<1> QED BY <1>1, <1>2, <1>3, <1>4, <1>5, <1>6 DEF TypeInv, EndsInv, LiveEnds

-----------------------------------------------------------------------------
(* The calls of a visit are a tree.                                        *)

\* The open call of x waits for that of y.
Waits(x, y) == \E i \in 1 .. Len(stack) - 1 : stack[i].node = x /\ stack[i + 1].node = y

\* The call of x has begun that of y.
Calls(x, y) ==
  /\ y \in Elements(succ[x]) /\ y # succ_back_edge[x]
  /\ y \in Elements(post_order) \/ Waits(x, y)

\* From h calls lead to l, which branches back to h.
CallsClose(h, l) ==
  \E S \in SUBSET visited : h \in S /\ l \in S /\ \A x \in S : x # l => \E y \in S : Calls(x, y)

\* All visited blocks but the entry were called, and a block that closes a loop was
\* reached from its header by calls.
TreeInv ==
  /\ entry_block \in visited
  /\ \A n \in visited : n # entry_block => \E x \in visited : Calls(x, n)
  /\ \A x, y : Waits(x, y) => Calls(x, y)
  /\ \A n \in visited : \A h \in Nodes : succ_back_edge[n] = h => CallsClose(h, n)

\* No branch leads to the entry block.
EntryInv ==
  \A n \in Nodes : entry_block \notin Elements(succ[n]) /\ succ_back_edge[n] # entry_block

\* With more calls all loops stay closed.
LEMMA LoopsKept ==
  ASSUME visited \subseteq visited', \A x, y : Calls(x, y) => Calls(x, y)',
         NEW h, NEW l, CallsClose(h, l)
  PROVE  CallsClose(h, l)'
<1>1. PICK S \in SUBSET visited : h \in S /\ l \in S /\ \A x \in S : x # l => \E y \in S : Calls(x, y)
  BY DEF CallsClose
<1>2. \A x \in S : x # l => \E y \in S : Calls(x, y)'
  BY <1>1
<1> QED BY <1>1, <1>2 DEF CallsClose

\* A call that begins is one of the tree.
LEMMA TreeGrows ==
  ASSUME TreeInv, \A x, y : Calls(x, y) => Calls(x, y)', \A x, y : Waits(x, y)' => Calls(x, y)',
         visited \subseteq visited', \A n \in visited' \ visited : \E x \in visited : Calls(x, n)',
         UNCHANGED <<succ_back_edge, num_nodes>>, \A n \in visited' \ visited : succ_back_edge[n] = Null,
         Null \notin Nodes
  PROVE  TreeInv'
<1>1. \A n \in visited' : n # entry_block => \E x \in visited' : Calls(x, n)'
  BY DEF TreeInv
<1>2. ASSUME NEW n \in visited', NEW h \in Nodes, succ_back_edge[n] = h PROVE CallsClose(h, n)'
  <2>1. n \in visited
    BY <1>2
  <2>2. CallsClose(h, n)
    BY <1>2, <2>1 DEF TreeInv
  <2> QED BY <2>2, LoopsKept
<1>3. Nodes' = Nodes
  BY DEF Nodes
<1> QED BY <1>1, <1>2, <1>3 DEF TreeInv

\* A visit passes a branch.
LEMMA VisitSuccTree ==
  ASSUME VisitInv, ListsInv, phase = "visit", TreeInv, VisitSucc
  PROVE  TreeInv'
<1> DEFINE n == Top.node
           s == NextSucc
           L == Len(stack)
<1>1. TypeInv /\ GraphInv /\ CallInv /\ stack # << >> /\ Top.next <= Len(succ[n])
  BY DEF VisitInv, VisitSucc, MoreSucc
<1>2. /\ n \in Nodes /\ Top.next \in Nat \ {0} /\ n \in Traversing
      /\ L \in Nat \ {0} /\ DOMAIN stack = 1 .. L /\ stack[L].node = n
  BY <1>1, AdvanceFacts DEF Top
<1>3. s \in Nodes /\ s \in Elements(succ[n])
  <2>1. succ[n] \in Seq(Nodes)
    BY <1>1, <1>2 DEF TypeInv
  <2>2. Top.next \in DOMAIN succ[n]
    BY <1>1, <1>2, <2>1
  <2> QED BY <2>1, <2>2 DEF NextSucc, Elements
<1>4. UNCHANGED <<num_nodes, succ, succ_back_edge, post_order>> /\ s \notin Traversing
  BY DEF VisitSucc, graphVars, backEdgeVars
<1>5. Elements(post_order)' = Elements(post_order) /\ \A x : Elements(succ[x])' = Elements(succ[x])
  BY <1>4 DEF Elements
<1>6. Null \notin Nodes
  BY <1>1, BlocksAreNodes DEF TypeInv, ListsInv
<1>7. (\A x, y : Waits(x, y) => Waits(x, y)') => \A x, y : Calls(x, y) => Calls(x, y)'
  BY <1>4, <1>5 DEF Calls
<1>8. CASE s \in visited
  <2>1. stack' = Advance /\ visited' = visited
    BY <1>8 DEF VisitSucc
  <2>2. Len(stack') = L /\ DOMAIN stack' = 1 .. L /\ \A i \in 1 .. L : stack'[i].node = stack[i].node
    BY <1>1, <2>1, AdvancedCalls
  <2>3. \A x, y : Waits(x, y)' <=> Waits(x, y)
    <3>1. \A i \in 1 .. L - 1 : i \in 1 .. L /\ i + 1 \in 1 .. L
      BY <1>2
    <3> QED BY <2>2, <3>1 DEF Waits
  <2> QED BY <1>4, <1>6, <1>7, <2>1, <2>3, TreeGrows DEF TreeInv
<1>9. CASE s \notin visited
  <2>1. stack' = Append(Advance, Frame(s)) /\ visited' = visited \cup {s}
    BY <1>9 DEF VisitSucc
  <2>2. /\ Len(stack') = L + 1 /\ DOMAIN stack' = 1 .. L + 1
        /\ \A i \in 1 .. L : stack'[i].node = stack[i].node
        /\ stack'[L + 1].node = s
    BY <1>1, <1>3, <2>1, EnteredCalls
  <2>3. \A i \in 1 .. L - 1 : i \in 1 .. L /\ i + 1 \in 1 .. L
    BY <1>2
  <2>4. \A x, y : Waits(x, y) => Waits(x, y)'
    <3>1. \A i \in 1 .. L - 1 : i \in 1 .. Len(stack') - 1
      BY <1>2, <2>2
    <3> QED BY <2>2, <2>3, <3>1 DEF Waits
  <2>5. \A x, y : Waits(x, y)' => Waits(x, y) \/ (x = n /\ y = s)
    <3> SUFFICES ASSUME NEW i \in 1 .. L
                 PROVE  \/ i \in 1 .. L - 1 /\ stack'[i].node = stack[i].node /\ stack'[i + 1].node = stack[i + 1].node
                        \/ stack'[i].node = n /\ stack'[i + 1].node = s
      <4>1. Len(stack') - 1 = L
        BY <1>2, <2>2
      <4> QED BY <4>1 DEF Waits
    <3>1. CASE i = L
      BY <1>2, <2>2, <3>1
    <3>2. CASE i # L
      <4>1. i \in 1 .. L - 1
        <5>1. L \in Nat
          BY <1>2
        <5> HIDE DEF L
        <5> QED BY <3>2, <5>1
      <4>2. i \in 1 .. L /\ i + 1 \in 1 .. L
        BY <2>3, <4>1
      <4> QED BY <2>2, <4>1, <4>2
    <3> QED BY <3>1, <3>2
  <2>6. s # succ_back_edge[n]
    <3> SUFFICES ASSUME s = succ_back_edge[n] PROVE FALSE
      OBVIOUS
    <3>1. n \in visited
      BY <1>1, <1>2 DEF CallInv
    <3>2. CallsClose(s, n)
      BY <1>3, <3>1 DEF TreeInv
    <3> QED BY <1>9, <3>2 DEF CallsClose
  <2>7. \A x, y : x = n /\ y = s => Calls(x, y)'
    <3> SUFFICES ASSUME NEW x, NEW y, x = n, y = s PROVE Calls(x, y)'
      OBVIOUS
    <3>1. L \in 1 .. Len(stack') - 1 /\ stack'[L].node = x /\ stack'[L + 1].node = y
      BY <1>2, <2>2
    <3>2. Waits(x, y)'
      BY <3>1 DEF Waits
    <3>3. y \in Elements(succ[x])' /\ y # succ_back_edge'[x]
      BY <1>3, <1>4, <1>5, <2>6
    <3> QED BY <3>2, <3>3 DEF Calls
  <2>8. \A x, y : Waits(x, y)' => Calls(x, y)'
    BY <1>7, <2>4, <2>5, <2>7 DEF TreeInv
  <2>9. \A m \in visited' \ visited : \E x \in visited : Calls(x, m)'
    <3>1. n \in visited
      BY <1>1, <1>2 DEF CallInv
    <3> QED BY <2>1, <2>7, <3>1
  <2>10. \A m \in visited' \ visited : succ_back_edge[m] = Null
    BY <1>1, <1>3, <2>1 DEF GraphInv
  <2> QED BY <1>4, <1>6, <1>7, <2>1, <2>4, <2>8, <2>9, <2>10, TreeGrows
<1> QED BY <1>8, <1>9

\* A visit finds a back edge: the calls from its header on are those of the stack.
LEMMA VisitBackEdgeTree ==
  ASSUME VisitInv, ListsInv, TreeInv, VisitBackEdge, phase' = "visit"
  PROVE  TreeInv'
<1> DEFINE n == Top.node
           s == NextSucc
           L == Len(stack)
<1>1. TypeInv /\ GraphInv /\ CallInv /\ stack # << >> /\ Top.next <= Len(succ[n]) /\ phase = "visit"
  BY DEF VisitInv, VisitBackEdge, MoreSucc
<1>2. /\ n \in Nodes /\ Top.next \in Nat \ {0} /\ n \in Traversing
      /\ L \in Nat \ {0} /\ DOMAIN stack = 1 .. L /\ stack[L].node = n
  BY <1>1, AdvanceFacts DEF Top
<1>3. s \in Nodes /\ s \in Elements(succ[n])
  <2>1. succ[n] \in Seq(Nodes)
    BY <1>1, <1>2 DEF TypeInv
  <2>2. Top.next \in DOMAIN succ[n]
    BY <1>1, <1>2, <2>1
  <2> QED BY <2>1, <2>2 DEF NextSucc, Elements
<1>4. /\ UNCHANGED <<num_nodes, succ, visited, post_order>>
      /\ s \in Traversing
      /\ succ_back_edge' = [succ_back_edge EXCEPT ![n] = s]
      /\ stack' = Advance
  BY <1>1 DEF VisitBackEdge, graphVars
<1>5. Elements(post_order)' = Elements(post_order) /\ \A x : Elements(succ[x])' = Elements(succ[x])
  BY <1>4 DEF Elements
<1>6. Null \notin Nodes /\ Nodes' = Nodes
  BY <1>1, <1>4, BlocksAreNodes DEF TypeInv, ListsInv, Nodes
<1>7. Len(stack') = L /\ DOMAIN stack' = 1 .. L /\ \A i \in 1 .. L : stack'[i].node = stack[i].node
  BY <1>1, <1>4, AdvancedCalls
<1>8. \A i \in 1 .. L - 1 : i \in 1 .. L /\ i + 1 \in 1 .. L /\ i < L
  <2>1. L \in Nat
    BY <1>2
  <2> HIDE DEF L
  <2> QED BY <2>1
<1>9. \A x, y : Waits(x, y)' <=> Waits(x, y)
  BY <1>7, <1>8 DEF Waits
<1>10. /\ succ_back_edge'[n] = s
       /\ \A m \in Nodes : m # n => succ_back_edge'[m] = succ_back_edge[m]
       /\ \A m : m # n => succ_back_edge'[m] = succ_back_edge[m]
  BY <1>1, <1>2, <1>4 DEF TypeInv
<1>11. \A y : ~ Waits(n, y)
  <2>1. \A i \in 1 .. L - 1 : stack[i].node # n
    BY <1>1, <1>2, <1>8 DEF CallInv
  <2> QED BY <2>1 DEF Waits
<1>12. s \notin Elements(post_order)
  BY <1>1, <1>4 DEF CallInv
<1>13. \A x, y : Calls(x, y) => Calls(x, y)'
  <2> SUFFICES ASSUME NEW x, NEW y, Calls(x, y) PROVE Calls(x, y)'
    OBVIOUS
  <2>1. CASE x = n
    BY <1>5, <1>9, <1>10, <1>11, <1>12, <2>1 DEF Calls
  <2>2. CASE x # n
    BY <1>5, <1>9, <1>10, <2>2 DEF Calls
  <2> QED BY <2>1, <2>2
<1>14. \A h, l : h = s /\ l = n => CallsClose(h, l)'
  <2>1. PICK k \in 1 .. L : stack[k].node = s
    BY <1>2, <1>4 DEF Traversing
  <2> DEFINE S == {stack[i].node : i \in k .. L}
  <2>2. S \subseteq visited
    <3>1. \A i \in k .. L : i \in DOMAIN stack
      BY <1>2
    <3> QED BY <1>1, <3>1 DEF CallInv, Traversing
  <2>3. s \in S /\ n \in S
    BY <1>2, <2>1
  <2>4. ASSUME NEW x \in S, x # n PROVE \E y \in S : Calls(x, y)'
    <3>1. PICK i \in k .. L : stack[i].node = x
      OBVIOUS
    <3>2. i \in 1 .. L - 1 /\ i + 1 \in k .. L
      BY <1>2, <2>4, <3>1
    <3>3. Waits(x, stack[i + 1].node)
      BY <3>1, <3>2 DEF Waits
    <3>4. PICK y : y = stack[i + 1].node
      OBVIOUS
    <3>5. y \in S /\ Calls(x, y)
      BY <3>2, <3>3, <3>4 DEF TreeInv
    <3> QED BY <1>13, <3>5
  <2> HIDE DEF S
  <2> SUFFICES ASSUME NEW h, NEW l, h = s, l = n PROVE CallsClose(h, l)'
    OBVIOUS
  <2>5. \A x \in S : x # l => \E y \in S : Calls(x, y)'
    BY <2>4
  <2> QED BY <1>4, <2>2, <2>3, <2>5 DEF CallsClose
<1>15. \A x, y : Waits(x, y)' => Calls(x, y)'
  BY <1>9, <1>13 DEF TreeInv
<1>16. \A m \in visited' : m # entry_block => \E x \in visited' : Calls(x, m)'
  BY <1>4, <1>13 DEF TreeInv
<1>17. ASSUME NEW m \in visited', NEW h \in Nodes, succ_back_edge'[m] = h PROVE CallsClose(h, m)'
  <2>1. CASE m = n
    BY <1>10, <1>14, <1>17, <2>1
  <2>2. CASE m # n
    <3>1. CallsClose(h, m)
      BY <1>4, <1>10, <1>17, <2>2 DEF TreeInv
    <3> QED BY <1>4, <1>13, <3>1, LoopsKept
  <2> QED BY <2>1, <2>2
<1>18. entry_block \in visited'
  BY <1>4 DEF TreeInv
<1> HIDE DEF n, s, L
<1> QED BY <1>6, <1>15, <1>16, <1>17, <1>18 DEF TreeInv

\* A call of a visit returns.
LEMMA ReturnFromVisitTree ==
  ASSUME VisitInv, TreeInv, ReturnFromVisit
  PROVE  TreeInv'
<1> DEFINE n == Top.node
           L == Len(stack)
<1>1. TypeInv /\ GraphInv /\ CallInv /\ stack # << >> /\ phase = "visit"
  BY DEF VisitInv, ReturnFromVisit, Returns
<1>2. /\ n \in Nodes /\ n \in Traversing
      /\ L \in Nat \ {0} /\ DOMAIN stack = 1 .. L /\ stack[L].node = n
  BY <1>1, AdvanceFacts DEF Top
<1>3. /\ UNCHANGED <<num_nodes, succ_back_edge, visited>>
      /\ succ' = [succ EXCEPT ![n] = ForwardSucc(n)]
      /\ post_order' = Append(post_order, n)
      /\ stack' = Pop
  BY DEF ReturnFromVisit, backEdgeVars
<1>4. succ[n] \in Seq(Nodes) /\ Distinct(succ[n])
  BY <1>1, <1>2 DEF TypeInv, GraphInv
<1>5. Elements(ForwardSucc(n)) = Elements(succ[n]) \ {succ_back_edge[n]}
  BY <1>4, EraseFacts DEF ForwardSucc
<1>6. succ'[n] = ForwardSucc(n) /\ \A m : m # n => succ'[m] = succ[m]
  BY <1>1, <1>2, <1>3 DEF TypeInv
<1>7. Elements(post_order') = Elements(post_order) \cup {n}
  BY <1>1, <1>2, <1>3, AppendFacts DEF TypeInv
<1>8. Nodes' = Nodes
  BY <1>3 DEF Nodes
<1>9. /\ DOMAIN stack' = 1 .. L - 1 /\ Len(stack') = L - 1
      /\ \A i \in 1 .. L - 1 : stack'[i] = stack[i]
  BY <1>1, <1>3, PoppedCalls
<1>10. \A x, y : Waits(x, y)' => Waits(x, y)
  <2>1. \A i \in 1 .. Len(stack') - 1 : i \in 1 .. L - 1 /\ i + 1 \in 1 .. L - 1
    BY <1>2, <1>9
  <2> QED BY <1>9, <2>1 DEF Waits
<1>11. \A x, y : Waits(x, y) => Waits(x, y)' \/ y = n
  <2> SUFFICES ASSUME NEW i \in 1 .. L - 1, stack[i + 1].node # n
               PROVE  i \in 1 .. Len(stack') - 1 /\ stack'[i] = stack[i] /\ stack'[i + 1] = stack[i + 1]
    BY DEF Waits
  <2>1. i + 1 # L
    BY <1>2
  <2>2. i + 1 \in 1 .. L - 1 /\ i \in 1 .. Len(stack') - 1
    BY <1>2, <1>9, <2>1
  <2> QED BY <1>9, <2>2
<1>12. \A x, y : Calls(x, y) => Calls(x, y)'
  <2> SUFFICES ASSUME NEW x, NEW y, Calls(x, y) PROVE Calls(x, y)'
    OBVIOUS
  <2>1. y \in Elements(succ'[x]) /\ y # succ_back_edge'[x]
    BY <1>3, <1>5, <1>6 DEF Calls
  <2>2. y \in Elements(post_order') \/ Waits(x, y)'
    BY <1>7, <1>11 DEF Calls
  <2>3. Elements(post_order)' = Elements(post_order') /\ Elements(succ[x])' = Elements(succ'[x])
    BY DEF Elements
  <2> QED BY <2>1, <2>2, <2>3 DEF Calls
<1>13. \A x, y : Waits(x, y)' => Calls(x, y)'
  BY <1>10, <1>12 DEF TreeInv
<1>14. \A m \in visited' : m # entry_block => \E x \in visited' : Calls(x, m)'
  BY <1>3, <1>12 DEF TreeInv
<1>15. ASSUME NEW m \in visited', NEW h \in Nodes, succ_back_edge'[m] = h PROVE CallsClose(h, m)'
  <2>1. CallsClose(h, m)
    BY <1>3, <1>15 DEF TreeInv
  <2> QED BY <1>3, <1>12, <2>1, LoopsKept
<1>16. entry_block \in visited'
  BY <1>3 DEF TreeInv
<1> HIDE DEF n, L
<1> QED BY <1>8, <1>13, <1>14, <1>15, <1>16 DEF TreeInv

\* The first call of a visit.
LEMMA RecomputeTree ==
  ASSUME TypeInv, ListsInv, Recompute
  PROVE  TreeInv'
<1>1. visited' = {entry_block} /\ stack' = <<Frame(entry_block)>> /\ num_nodes' = num_nodes
      /\ succ_back_edge' = [n \in Nodes |-> Null]
  BY DEF Recompute, Enter
<1>2. entry_block \in Nodes /\ Null \notin Nodes /\ Nodes' = Nodes
  BY <1>1, BlocksAreNodes DEF TypeInv, ListsInv, Nodes, entry_block
<1>3. succ_back_edge'[entry_block] = Null
  BY <1>1, <1>2
<1>4. Len(stack') = 1
  BY <1>1
<1>5. \A x, y : ~ Waits(x, y)'
  BY <1>4 DEF Waits
<1> QED BY <1>1, <1>2, <1>3, <1>5 DEF TreeInv

\* The entry block is nobody's successor to begin with.
LEMMA EntryInit == CVInit => EntryInv
<1> SUFFICES ASSUME CVInit, NEW n \in Nodes
             PROVE  entry_block \notin Elements(succ[n]) /\ succ_back_edge[n] # entry_block
  BY DEF EntryInv
<1>1. succ \in Inputs /\ num_nodes = NumBlocks /\ succ_back_edge = [m \in Blocks |-> Null]
  BY DEF CVInit, FunctionInit
<1>2. n \in Blocks
  BY <1>1 DEF Nodes, Blocks
<1>3. succ[n] \in Seq(Blocks \ {entry_block})
  BY <1>1, <1>2, CVConstants DEF IsFunction
<1> QED BY <1>1, <1>2, <1>3 DEF Elements, Null, entry_block

\* A header that gets a merge block is not the entry block.
LEMMA EntryAnalysis ==
  ASSUME VisitInv, EdgesInv, EntryInv, ReturnFromAnalysis
  PROVE  EntryInv'
<1>1. phase = "analysis" /\ stack # << >>
  BY DEF ReturnFromAnalysis, Returns
<1>2. PICK n : n = Top.node
  OBVIOUS
<1>3. CASE ~ NeedsMerge(n)
  <2>1. UNCHANGED <<num_nodes, succ, succ_back_edge>>
    BY <1>2, <1>3 DEF ReturnFromAnalysis, graphVars, backEdgeVars
  <2> QED BY <2>1 DEF EntryInv, Nodes, Elements
<1>4. CASE NeedsMerge(n)
  <2>1. PICK new, latches : new = num_nodes + 1 /\ latches = Elements(fake_pred[n])
    OBVIOUS
  <2>2. NeedsMerge(Top.node) /\ MergeBackEdges(Top.node)
    BY <1>2, <1>4 DEF ReturnFromAnalysis
  <2>3. MergedGraph(n, new, latches)
    BY <1>1, <1>2, <2>1, <2>2, MergeFacts, Zenon
  <2>4. /\ new \notin Nodes /\ Nodes' = Nodes \cup {new} /\ n \in Blocks /\ latches \subseteq Blocks
        /\ Blocks \subseteq Nodes
        /\ \A l \in latches : Branch(l, n)
        /\ \A m \in Nodes' : succ_back_edge'[m] = Null
        /\ Elements(succ'[new]) = {n}
        /\ \A l \in latches : Elements(succ'[l]) = (Elements(succ[l]) \ {n}) \cup {new}
        /\ \A m \in Nodes \ latches : succ'[m] = succ[m]
    BY <2>3 DEF MergedGraph
  <2>5. \E l : l \in latches
    <3>1. ListsInv
      BY DEF EdgesInv
    <3>2. fake_pred[n] \in Seq(Nodes) /\ Len(fake_pred[n]) >= 2
      BY <1>4, <2>4, <3>1 DEF ListsInv, NeedsMerge
    <3>3. 1 \in DOMAIN fake_pred[n]
      BY <3>2
    <3> QED BY <2>1, <3>3 DEF Elements
  <2>6. n # entry_block /\ new # entry_block
    <3>1. PICK l : l \in latches
      BY <2>5
    <3>2. Branch(l, n) /\ l \in Nodes
      BY <2>4, <3>1
    <3>3. n # entry_block
      BY <3>2 DEF EntryInv, Branch
    <3>4. entry_block \in Nodes
      BY DEF VisitInv, TypeInv, Nodes, entry_block
    <3> QED BY <2>4, <3>3, <3>4
  <2>7. ASSUME NEW m \in Nodes' PROVE entry_block \notin Elements(succ'[m])
    <3>1. CASE m = new
      BY <2>4, <2>6, <3>1
    <3>2. CASE m \in latches
      BY <2>4, <2>6, <3>2 DEF EntryInv
    <3>3. CASE m \in Nodes \ latches
      BY <2>4, <3>3 DEF EntryInv
    <3> QED BY <2>4, <3>1, <3>2, <3>3
  <2>8. \A m \in Nodes' : succ_back_edge'[m] # entry_block
    BY <2>4 DEF Null, entry_block
  <2> QED BY <2>7, <2>8 DEF EntryInv, Elements
<1> QED BY <1>3, <1>4

\* A back edge was a branch.
LEMMA EntryVisit ==
  ASSUME VisitInv, EntryInv, VisitBackEdge \/ ReturnFromVisit
  PROVE  EntryInv'
<1> DEFINE n == Top.node
           s == NextSucc
<1>1. TypeInv /\ GraphInv /\ stack # << >>
  BY DEF VisitInv, VisitBackEdge, ReturnFromVisit, MoreSucc, Returns
<1>2. n \in Nodes /\ Top.next \in Nat \ {0}
  BY <1>1, AdvanceFacts DEF Top
<1>3. succ[n] \in Seq(Nodes) /\ Distinct(succ[n])
  BY <1>1, <1>2 DEF TypeInv, GraphInv
<1>4. CASE VisitBackEdge
  <2>1. s \in Elements(succ[n])
    <3>0. Top.next <= Len(succ[n])
      BY <1>4 DEF VisitBackEdge, MoreSucc
    <3>1. Top.next \in DOMAIN succ[n]
      BY <1>2, <1>3, <3>0
    <3> QED BY <3>1 DEF NextSucc, Elements
  <2>2. UNCHANGED <<num_nodes, succ>> /\ \/ UNCHANGED succ_back_edge
                                         \/ succ_back_edge' = [succ_back_edge EXCEPT ![n] = s]
    BY <1>4 DEF VisitBackEdge, graphVars, backEdgeVars
  <2>3. \A m \in Nodes : succ_back_edge'[m] # entry_block
    <3>1. \A m \in Nodes : succ_back_edge[m] # entry_block
      BY DEF EntryInv
    <3>2. s # entry_block
      BY <1>2, <2>1 DEF EntryInv
    <3> QED BY <1>1, <1>2, <2>2, <3>1, <3>2 DEF TypeInv
  <2> HIDE DEF n, s
  <2> QED BY <2>2, <2>3 DEF EntryInv, Nodes, Elements
<1>5. CASE ReturnFromVisit
  <2>1. /\ UNCHANGED <<num_nodes, succ_back_edge>>
        /\ succ' = [succ EXCEPT ![n] = ForwardSucc(n)]
    BY <1>5 DEF ReturnFromVisit, backEdgeVars
  <2>2. Elements(ForwardSucc(n)) = Elements(succ[n]) \ {succ_back_edge[n]}
    BY <1>3, EraseFacts DEF ForwardSucc
  <2>3. succ'[n] = ForwardSucc(n) /\ \A m : m # n => succ'[m] = succ[m]
    BY <1>1, <1>2, <2>1 DEF TypeInv
  <2>4. \A m \in Nodes : entry_block \notin Elements(succ'[m]) /\ succ_back_edge'[m] # entry_block
    BY <2>1, <2>2, <2>3 DEF EntryInv
  <2> HIDE DEF n, s
  <2> QED BY <2>1, <2>4 DEF EntryInv, Nodes, Elements
<1> QED BY <1>4, <1>5

\* reset_traversal puts a back edge back.
LEMMA EntryRecompute ==
  ASSUME TypeInv, GraphInv, ListsInv, phase = "visited" => CallInv, Recompute, NEW L, LiveEnds(L), EntryInv
  PROVE  EntryInv'
<1>1. num_nodes' = num_nodes /\ succ_back_edge' = [n \in Nodes |-> Null]
  BY DEF Recompute
<1>2. Nodes' = Nodes /\ entry_block \in Nodes
  BY <1>1 DEF TypeInv, Nodes, entry_block
<1>3. \A n \in Nodes : \A x \in Nodes : x \in Elements(succ'[n]) <=> Branch(n, x)
  BY RestoreLive
<1>4. \A n \in Nodes : ~ Branch(n, entry_block)
  BY DEF Branch, EntryInv
<1>5. \A n \in Nodes : succ_back_edge'[n] # entry_block
  BY <1>1 DEF Null, entry_block
<1> QED BY <1>2, <1>3, <1>4, <1>5 DEF EntryInv, Elements

-----------------------------------------------------------------------------
(* The function between the passes of recompute_cfg.                       *)

\* What is known of the function.  A run that has added a branch leaves branches
\* that may lead anywhere, but its successor finds them recorded at both ends.
FlowInv ==
  /\ TypeInv /\ GraphInv /\ ListsInv /\ EntryInv
  /\ phase = "analysis" => EdgesInv
  /\ phase \in {"visit", "visited"} => CallInv /\ \E L : LiveEnds(L)
  /\ phase = "visited" => \A n \in visited : Elements(succ[n]) \subseteq visited
  /\ ~ grew => VisitInv /\ (phase \in {"visit", "visited"} => TreeInv)

\* The passes follow the traversal, and add branches only after the dominators.
StageInv ==
  /\ stage \in {"visit", "dominators", "backward", "link", "backward again", "post-dominators",
                "no post-dominator", "frontiers", "post-frontiers", "done"}
  /\ stage # "visit" => phase = "visited"
  /\ stage \in {"visit", "dominators"} => ~ grew

\* Branches lead to blocks that have returned.
LEMMA ReturnedVisited ==
  ASSUME VisitInv, phase = "visited"
  PROVE  \A n \in visited : Elements(succ[n]) \subseteq visited
<1>1. TypeInv /\ CallInv /\ ReturnedInv
  BY DEF VisitInv
<1>2. visited = Elements(post_order)
  BY <1>1, AllReturned
<1> SUFFICES ASSUME NEW n \in visited, NEW s \in Elements(succ[n]) PROVE s \in visited
  OBVIOUS
<1>3. PICK k \in DOMAIN post_order : post_order[k] = n
  BY <1>2 DEF Elements
<1>4. PICK j \in 1 .. k - 1 : post_order[j] = s
  BY <1>1, <1>3 DEF ReturnedInv
<1>5. j \in DOMAIN post_order
  <2>1. post_order \in Seq(Nodes)
    BY <1>1 DEF TypeInv
  <2> QED BY <1>3, <1>4, <2>1
<1> QED BY <1>2, <1>4, <1>5 DEF Elements

\* The same of the state that a step leads to.
LEMMA ReturnedVisitedNext ==
  ASSUME VisitInv', phase' = "visited"
  PROVE  \A n \in visited' : Elements(succ[n])' \subseteq visited'
<1>1. TypeInv' /\ CallInv' /\ ReturnedInv'
  BY DEF VisitInv
<1>2. visited' = Elements(post_order)'
  <2>1. stack' = << >>
    BY <1>1 DEF CallInv
  <2>2. Traversing' = {}
    BY <2>1 DEF Traversing
  <2> QED BY <1>1, <2>2 DEF CallInv
<1> SUFFICES ASSUME NEW n \in visited', NEW s \in Elements(succ'[n]) PROVE s \in visited'
  BY DEF Elements
<1>3. PICK k \in DOMAIN post_order' : post_order'[k] = n
  BY <1>2 DEF Elements
<1>4. PICK j \in 1 .. k - 1 : post_order'[j] = s
  BY <1>1, <1>3 DEF ReturnedInv, Elements
<1>5. j \in DOMAIN post_order'
  <2>1. post_order' \in Seq(Nodes')
    BY <1>1 DEF TypeInv
  <2> QED BY <1>3, <1>4, <2>1
<1> QED BY <1>2, <1>4, <1>5 DEF Elements

\* A step of a traversal.
LEMMA TraverseFlow ==
  ASSUME FlowInv, StageInv, Traverse
  PROVE  FlowInv' /\ StageInv'
<1>1. UNCHANGED <<stage, grew>>
  BY DEF Traverse, analysisVars, backVars
<1>2. phase \in {"analysis", "visit"}
  BY DEF Traverse, VisitSucc, RecordBackEdge, ReturnFromAnalysis, VisitBackEdge, ReturnFromVisit
<1>3. stage = "visit" /\ ~ grew
  BY <1>2 DEF StageInv
<1>4. StageInv'
  BY <1>1, <1>3 DEF StageInv
<1>5. VisitInv /\ ListsInv /\ EntryInv /\ (phase = "analysis" => EdgesInv) /\ (phase = "visit" => TreeInv)
  BY <1>3 DEF FlowInv
<1>6. phase = "visit" => \E L : LiveEnds(L)
  BY DEF FlowInv
<1>7. VisitInv'
  BY <1>5, VisitSuccInv, RecordBackEdgeInv, ReturnFromAnalysisInv, VisitBackEdgeInv, ReturnFromVisitInv DEF Traverse
<1>8. EntryInv'
  <2>1. CASE VisitSucc \/ RecordBackEdge
    <3>1. UNCHANGED <<num_nodes, succ, succ_back_edge>>
      BY <2>1 DEF VisitSucc, RecordBackEdge, graphVars, backEdgeVars
    <3> QED BY <1>5, <3>1 DEF EntryInv, Nodes, Elements
  <2>2. CASE ReturnFromAnalysis
    <3>1. phase = "analysis"
      BY <2>2 DEF ReturnFromAnalysis
    <3> QED BY <1>5, <2>2, <3>1, EntryAnalysis
  <2>3. CASE VisitBackEdge \/ ReturnFromVisit
    BY <1>5, <2>3, EntryVisit
  <2> QED BY <2>1, <2>2, <2>3 DEF Traverse
<1>9. CASE phase = "analysis"
  <2>1. VisitSucc \/ RecordBackEdge \/ ReturnFromAnalysis
    BY <1>9 DEF Traverse, VisitBackEdge, ReturnFromVisit
  <2>2. EdgesInv'
    BY <1>5, <1>9, <2>1, VisitSuccEdges, RecordBackEdgeEdges, ReturnFromAnalysisEdges
  <2>3. phase' = "analysis"
    BY <1>9, <2>1 DEF VisitSucc, RecordBackEdge, ReturnFromAnalysis
  <2>4. ListsInv'
    BY <2>2 DEF EdgesInv
  <2> QED BY <1>4, <1>7, <1>8, <2>2, <2>3, <2>4 DEF FlowInv, VisitInv
<1>10. CASE phase = "visit"
  <2>1. PICK L : LiveEnds(L)
    BY <1>6, <1>10
  <2>2. VisitSucc \/ VisitBackEdge \/ ReturnFromVisit
    BY <1>10 DEF Traverse, RecordBackEdge, ReturnFromAnalysis
  <2>3. ListsInv'
    BY <1>5, <1>10, <2>1, <2>2, VisitSuccLive, VisitBackEdgeLive, ReturnFromVisitLive
  <2>4. phase' # "analysis"
    <3>1. CASE VisitSucc
      BY <1>10, <3>1 DEF VisitSucc
    <3>2. CASE VisitBackEdge
      BY <1>10, <3>2 DEF VisitBackEdge
    <3>3. CASE ReturnFromVisit
      BY <1>10, <3>3 DEF ReturnFromVisit
    <3> QED BY <2>2, <3>1, <3>2, <3>3
  <2>5. phase' \in {"visit", "visited"} => LiveEnds(L)' /\ TreeInv'
    <3>1. CASE VisitSucc
      BY <1>5, <1>10, <2>1, <3>1, VisitSuccLive, VisitSuccTree
    <3>2. CASE VisitBackEdge
      <4>1. phase' # "visited"
        BY <1>10, <3>2 DEF VisitBackEdge
      <4> QED BY <1>5, <1>10, <2>1, <3>2, <4>1, VisitBackEdgeLive, VisitBackEdgeTree
    <3>3. CASE ReturnFromVisit
      BY <1>5, <1>10, <2>1, <3>3, ReturnFromVisitLive, ReturnFromVisitTree
    <3> QED BY <2>2, <3>1, <3>2, <3>3
  <2>6. phase' = "visited" => \A n \in visited' : Elements(succ[n])' \subseteq visited'
    BY <1>7, ReturnedVisitedNext
  <2>7. phase' \in {"visit", "visited"} => CallInv'
    BY <1>7 DEF VisitInv
  <2>8. TypeInv' /\ GraphInv'
    BY <1>7 DEF VisitInv
  <2> QED BY <1>4, <1>7, <1>8, <2>3, <2>4, <2>5, <2>6, <2>7, <2>8 DEF FlowInv, Elements
<1> QED BY <1>2, <1>9, <1>10

\* recompute_cfg starts a traversal.
LEMMA RecomputeFlow ==
  ASSUME FlowInv, StageInv, RecomputeAll
  PROVE  FlowInv' /\ StageInv'
<1>1. Recompute /\ stage' = "visit" /\ grew' = FALSE
  BY DEF RecomputeAll
<1>2. TypeInv /\ GraphInv /\ ListsInv /\ EntryInv /\ (phase \in {"visit", "visited"} => CallInv)
  BY DEF FlowInv
<1>3. phase' = "visit"
  BY <1>1 DEF Recompute
<1>4. PICK L : LiveEnds(L)
  <2>1. CASE phase = "analysis"
    BY <1>2, <2>1, LiveAtFirst DEF FlowInv
  <2>2. CASE phase = "visited"
    BY <2>2 DEF FlowInv
  <2> QED BY <1>1, <2>1, <2>2 DEF Recompute
<1>5. VisitInv'
  BY <1>1, <1>2, RecomputeVisits
<1>6. ListsInv' /\ LiveEnds(L)'
  BY <1>1, <1>2, <1>4, RecomputeLive
<1>7. EntryInv'
  BY <1>1, <1>2, <1>4, EntryRecompute
<1>8. TreeInv'
  BY <1>1, <1>2, RecomputeTree
<1>9. TypeInv' /\ GraphInv' /\ CallInv'
  BY <1>3, <1>5 DEF VisitInv
<1>10. FlowInv'
  BY <1>3, <1>5, <1>6, <1>7, <1>8, <1>9 DEF FlowInv
<1> QED BY <1>1, <1>10 DEF StageInv

\* The predecessors of the visited blocks are known.
PrunedInv ==
  stage = "dominators" =>
    \A b \in visited : Elements(pred[b]) = {a \in visited : b \in Elements(succ[a])}

\* A traversal that is over knows the predecessors of the visited blocks.
LEMMA LivePredecessors ==
  ASSUME VisitInv, ListsInv, phase = "visited", NEW L, LiveEnds(L),
         NEW a \in visited, NEW b \in visited
  PROVE  a \in Elements(pred[b]) <=> b \in Elements(succ[a])
<1>1. TypeInv /\ GraphInv /\ CallInv
  BY DEF VisitInv
<1>2. visited = Elements(post_order) /\ visited \subseteq Nodes /\ a \in L /\ b \in L
  BY <1>1, AllReturned DEF TypeInv, LiveEnds
<1>3. Branch(a, b) <=> a \in Elements(pred[b]) \/ pred_back_edge[b] = a
  BY <1>2 DEF LiveEnds
<1>4. succ_back_edge[a] = b <=> pred_back_edge[b] = a
  BY <1>2 DEF LiveEnds
<1>5. pred_back_edge[b] \notin Elements(pred[b])
  BY <1>2 DEF LiveEnds
<1>6. succ_back_edge[a] \notin Elements(succ[a])
  BY <1>1, <1>2 DEF GraphInv
<1> QED BY <1>3, <1>4, <1>5, <1>6 DEF Branch

\* No branch leaves the visited blocks, back edges included.
LEMMA VisitedClosed ==
  ASSUME VisitInv, TreeInv, phase = "visited", NEW a \in visited, NEW b \in Nodes, Branch(a, b)
  PROVE  b \in visited
<1>1. CASE b \in Elements(succ[a])
  BY <1>1, ReturnedVisited
<1>2. CASE succ_back_edge[a] = b
  BY <1>2 DEF TreeInv, CallsClose
<1> QED BY <1>1, <1>2 DEF Branch

\* prune_dead_preds.
LEMMA PruneFlow ==
  ASSUME FlowInv, StageInv, PruneDeadPreds
  PROVE  FlowInv' /\ StageInv' /\ PrunedInv'
<1>1. /\ stage = "visit" /\ stage' = "dominators" /\ phase = "visited"
      /\ pred' = [n \in Nodes |-> IF n \in visited THEN LivePreds(n) ELSE pred[n]]
      /\ UNCHANGED <<phase, visits, num_nodes, succ, succ_back_edge, pred_back_edge, fake_pred,
                     visited, stack, post_order, grew>>
  BY DEF PruneDeadPreds, backEdgeVars, backVars
<1>2. ~ grew /\ VisitInv /\ TreeInv /\ ListsInv /\ EntryInv
  BY <1>1 DEF StageInv, FlowInv
<1>3. PICK L : LiveEnds(L)
  BY <1>1 DEF FlowInv
<1>4. StageInv'
  BY <1>1, <1>2 DEF StageInv
<1>5. TypeInv /\ GraphInv /\ CallInv /\ ReturnedInv /\ PassedInv
  BY <1>1, <1>2 DEF VisitInv
<1>6. Nodes' = Nodes /\ visited \subseteq Nodes /\ visited = Elements(post_order) /\ Null \notin Nodes
  BY <1>1, <1>2, <1>5, AllReturned, BlocksAreNodes DEF Nodes, TypeInv, ListsInv
<1>7. VisitInv'
  <2>1. Traversing' = Traversing /\ Elements(post_order)' = Elements(post_order)
    BY <1>1 DEF Traversing, Elements
  <2>2. TypeInv'
    BY <1>1, <1>5, <1>6 DEF TypeInv
  <2>3. GraphInv'
    BY <1>1, <1>5, <1>6 DEF GraphInv, Distinct, Elements
  <2>4. CallInv'
    BY <1>1, <1>5, <2>1 DEF CallInv, Distinct
  <2>5. ReturnedInv'
    BY <1>1, <1>5 DEF ReturnedInv, Elements
  <2>6. PassedInv'
    BY <1>1, <1>5, <2>1 DEF PassedInv
  <2> QED BY <2>2, <2>3, <2>4, <2>5, <2>6 DEF VisitInv
<1>8. TreeInv'
  <2>1. \A x, y : Waits(x, y)' <=> Waits(x, y)
    BY <1>1 DEF Waits
  <2>2. \A x, y : Calls(x, y)' <=> Calls(x, y)
    BY <1>1, <2>1 DEF Calls, Elements
  <2>3. \A h, l : CallsClose(h, l) => CallsClose(h, l)'
    BY <1>1, <2>2, LoopsKept
  <2>4. entry_block \in visited' /\ \A x, y : Waits(x, y)' => Calls(x, y)'
    BY <1>1, <1>2, <2>1, <2>2 DEF TreeInv
  <2>5. \A n \in visited' : n # entry_block => \E x \in visited' : Calls(x, n)'
    BY <1>1, <1>2, <2>2 DEF TreeInv
  <2>6. \A n \in visited' : \A h \in Nodes : succ_back_edge'[n] = h => CallsClose(h, n)'
    BY <1>1, <1>2, <2>3 DEF TreeInv
  <2> QED BY <1>6, <2>4, <2>5, <2>6 DEF TreeInv
<1>9. ASSUME NEW n \in visited
      PROVE  /\ pred'[n] \in Seq(Nodes) /\ Distinct(pred'[n])
             /\ Elements(pred'[n]) = Elements(pred[n]) \ (Nodes \ visited)
  <2>1. pred[n] \in Seq(Nodes) /\ Distinct(pred[n]) /\ n \in Nodes
    BY <1>2, <1>3, <1>6, <1>9 DEF ListsInv, LiveEnds
  <2>2. pred'[n] = EraseAll(pred[n], Nodes \ visited)
    BY <1>1, <2>1 DEF LivePreds
  <2> QED BY <2>1, <2>2, EraseAllFacts
<1>10. \A n \in Nodes \ visited : pred'[n] = pred[n]
  BY <1>1
<1>11. \A n \in Nodes : pred'[n] \in Seq(Nodes) /\ Distinct(pred'[n])
  BY <1>2, <1>3, <1>9, <1>10 DEF ListsInv, LiveEnds
<1>12. ListsInv'
  <2>1. pred' = [n \in Nodes |-> pred'[n]]
    BY <1>1
  <2>2. pred' \in [Nodes -> Seq(Nodes)]
    BY <1>11, <2>1
  <2> QED BY <1>1, <1>2, <1>6, <2>2 DEF ListsInv
<1>13. \A a, b \in visited : a \in Elements(pred'[b]) <=> a \in Elements(pred[b])
  BY <1>9
<1>14. \A a, b : Branch(a, b)' <=> Branch(a, b)
  BY <1>1 DEF Branch, Elements
<1>15. PICK V : V = visited
  OBVIOUS
<1>16. LiveEnds(V)'
  <2>1. V \subseteq Nodes' /\ entry_block \in V /\ visited' \subseteq V
    BY <1>1, <1>2, <1>6, <1>15 DEF TreeInv
  <2>2. \A a \in V : \A b \in Nodes : Branch(a, b)' => b \in V
    BY <1>1, <1>2, <1>14, <1>15, VisitedClosed
  <2>3. \A a, b \in V : Branch(a, b)' <=> a \in Elements(pred'[b]) \/ pred_back_edge'[b] = a
    <3>1. V \subseteq L
      BY <1>3, <1>15 DEF LiveEnds
    <3>2. \A a, b \in V : Branch(a, b) <=> a \in Elements(pred[b]) \/ pred_back_edge[b] = a
      BY <1>3, <3>1 DEF LiveEnds
    <3> QED BY <1>1, <1>13, <1>14, <1>15, <3>2
  <2>4. \A n \in Elements(post_order') : pred_back_edge'[n] \notin Elements(pred'[n])
    <3>1. \A n \in visited : pred_back_edge[n] \notin Elements(pred[n])
      BY <1>3, <1>6 DEF LiveEnds
    <3>2. Elements(post_order') = visited
      BY <1>1, <1>6
    <3> QED BY <1>1, <1>9, <3>1, <3>2
  <2>5. /\ \A a, b \in Nodes : succ_back_edge'[a] = b <=> pred_back_edge'[b] = a
        /\ \A n \in Nodes : pred_back_edge'[n] # Null => n \in visited'
    BY <1>1, <1>3 DEF LiveEnds
  <2>6. \A n \in Nodes : Distinct(pred'[n])
    BY <1>11
  <2> HIDE <1>1
  <2> QED BY <1>6, <2>1, <2>2, <2>3, <2>4, <2>5, <2>6 DEF LiveEnds, Distinct, Elements
<1>17. EntryInv'
  BY <1>1, <1>2, <1>6 DEF EntryInv, Elements
<1>18. FlowInv'
  <2>1. \A n \in visited : Elements(succ[n]) \subseteq visited
    BY <1>1, <1>2, ReturnedVisited
  <2>2. TypeInv' /\ GraphInv' /\ CallInv'
    BY <1>1, <1>7 DEF VisitInv
  <2>3. \A n \in visited' : Elements(succ[n])' \subseteq visited'
    BY <1>1, <2>1 DEF Elements
  <2> QED BY <1>1, <1>7, <1>8, <1>12, <1>16, <1>17, <2>2, <2>3 DEF FlowInv
<1>19. PrunedInv'
  <2>1. ASSUME NEW b \in visited PROVE Elements(pred'[b]) = {a \in visited : b \in Elements(succ[a])}
    <3>1. Elements(pred[b]) \subseteq Nodes
      <4>1. pred[b] \in Seq(Nodes)
        BY <1>2, <1>6 DEF ListsInv
      <4> QED BY <4>1 DEF Elements
    <3>2. \A a \in visited : a \in Elements(pred[b]) <=> b \in Elements(succ[a])
      BY <1>1, <1>2, <1>3, <2>1, LivePredecessors
    <3> QED BY <1>9, <3>1, <3>2
  <2>2. \A a : Elements(succ[a])' = Elements(succ[a])
    BY <1>1 DEF Elements
  <2>3. \A b : Elements(pred[b])' = Elements(pred'[b])
    BY DEF Elements
  <2>4. \A b \in visited' : Elements(pred[b])' = {a \in visited' : b \in Elements(succ[a])'}
    <3>1. visited' = visited
      BY <1>1
    <3> QED BY <2>1, <2>2, <2>3, <3>1
  <2> QED BY <2>4 DEF PrunedInv
<1> QED BY <1>4, <1>18, <1>19

\* A step that leaves the function alone.
LEMMA FlowStays ==
  ASSUME FlowInv, UNCHANGED visitVars, grew' = grew \/ ~ grew
  PROVE  FlowInv'
<1>1. UNCHANGED <<phase, visits, origin, num_nodes, succ, pred, succ_back_edge, pred_back_edge, fake_pred,
                  visited, stack, post_order>>
  BY DEF visitVars, graphVars, backEdgeVars
<1>2. Nodes' = Nodes /\ Traversing' = Traversing /\ Elements(post_order)' = Elements(post_order)
  BY <1>1 DEF Nodes, Traversing, Elements
<1>3. (TypeInv' <=> TypeInv) /\ (ListsInv' <=> ListsInv)
  BY <1>1, <1>2 DEF TypeInv, ListsInv
<1>4. GraphInv => GraphInv'
  BY <1>1, <1>2 DEF GraphInv, Distinct, Elements
<1>5. CallInv => CallInv'
  BY <1>1, <1>2 DEF CallInv, Distinct
<1>6. ReturnedInv => ReturnedInv'
  BY <1>1 DEF ReturnedInv, Elements
<1>7. PassedInv => PassedInv'
  BY <1>1, <1>2 DEF PassedInv
<1>8. VisitInv => VisitInv'
  BY <1>1, <1>3, <1>4, <1>5, <1>6, <1>7 DEF VisitInv
<1>9. EntryInv => EntryInv'
  BY <1>1, <1>2 DEF EntryInv, Elements
<1>10. \A a, b : Branch(a, b)' <=> Branch(a, b)
  BY <1>1 DEF Branch, Elements
<1>11. \A n : Elements(succ[n])' = Elements(succ[n]) /\ Elements(pred[n])' = Elements(pred[n])
              /\ Distinct(pred[n])' = Distinct(pred[n])
  BY <1>1 DEF Elements, Distinct
<1>12. \A L : LiveEnds(L) => LiveEnds(L)'
  BY <1>1, <1>2, <1>10, <1>11 DEF LiveEnds
<1>13. EdgesInv => EdgesInv'
  <2>1. EndsInv => EndsInv'
    BY <1>1, <1>2, <1>10, <1>11 DEF EndsInv
  <2>2. OriginInv => OriginInv'
    <3> SUFFICES ASSUME OriginInv, ListsInv, TypeInv PROVE OriginInv'
      BY DEF FlowInv
    <3>1. Blocks \subseteq Nodes
      BY BlocksAreNodes DEF TypeInv, ListsInv
    <3>2. \A a, b \in Nodes : Branch(a, b)' <=> Branch(a, b)
      BY <1>10
    <3> QED BY <1>1, <3>1, <3>2, OriginKept
  <2>3. LatchInv => LatchInv'
    <3>1. \A n : Elements(fake_pred[n])' = Elements(fake_pred[n]) /\ Distinct(fake_pred[n])' = Distinct(fake_pred[n])
      BY <1>1 DEF Elements, Distinct
    <3> QED BY <1>1, <1>2, <1>11, <3>1 DEF LatchInv, BranchPassed, Elements
  <2> QED BY <1>1, <1>3, <2>1, <2>2, <2>3 DEF EdgesInv
<1>14. TreeInv => TreeInv'
  <2> SUFFICES ASSUME TreeInv PROVE TreeInv'
    OBVIOUS
  <2>1. \A x, y : Waits(x, y)' <=> Waits(x, y)
    BY <1>1 DEF Waits
  <2>2. \A x, y : Calls(x, y)' <=> Calls(x, y)
    BY <1>1, <1>2, <1>11, <2>1 DEF Calls
  <2>3. \A h, l : CallsClose(h, l) => CallsClose(h, l)'
    BY <1>1, <2>2, LoopsKept
  <2>4. entry_block \in visited' /\ \A x, y : Waits(x, y)' => Calls(x, y)'
    BY <1>1, <2>1, <2>2 DEF TreeInv
  <2>5. \A n \in visited' : n # entry_block => \E x \in visited' : Calls(x, n)'
    BY <1>1, <2>2 DEF TreeInv
  <2>6. \A n \in visited' : \A h \in Nodes : succ_back_edge'[n] = h => CallsClose(h, n)'
    BY <1>1, <2>3 DEF TreeInv
  <2> QED BY <1>2, <2>4, <2>5, <2>6 DEF TreeInv
<1>15. phase' = phase
  BY <1>1
<1>16. phase = "visited" => \A n \in visited' : Elements(succ[n])' \subseteq visited'
  BY <1>1, <1>11 DEF FlowInv
<1>17. phase \in {"visit", "visited"} => CallInv' /\ \E L : LiveEnds(L)'
  BY <1>5, <1>12 DEF FlowInv
<1>18. ~ grew' => VisitInv' /\ (phase \in {"visit", "visited"} => TreeInv')
  BY <1>8, <1>14 DEF FlowInv
<1> QED BY <1>3, <1>4, <1>9, <1>13, <1>15, <1>16, <1>17, <1>18 DEF FlowInv

-----------------------------------------------------------------------------
(* The dominators, block by block.                                         *)

\* A list without elements is empty.
LEMMA NoElements ==
  ASSUME NEW S, NEW s \in Seq(S)
  PROVE  s = << >> <=> Elements(s) = {}
<1>1. Len(s) \in Nat /\ DOMAIN s = 1 .. Len(s) /\ (s = << >> <=> Len(s) = 0)
  OBVIOUS
<1>2. Elements(s) = {} <=> DOMAIN s = {}
  BY DEF Elements
<1>3. DOMAIN s = {} <=> Len(s) = 0
  <2>1. Len(s) # 0 => 1 \in DOMAIN s
    BY <1>1
  <2> QED BY <1>1, <2>1
<1> QED BY <1>1, <1>2, <1>3

\* The forward branches descend when the traversal is over.
LEMMA DescendFacts ==
  ASSUME VisitInv, TreeInv, EntryInv, phase = "visited"
  PROVE  Descends
<1>1. TypeInv /\ CallInv /\ ReturnedInv
  BY DEF VisitInv
<1>2. visited = Elements(post_order) /\ stack = << >> /\ visited \subseteq Nodes
  BY <1>1, AllReturned DEF TypeInv
<1>3. post_order \in Seq(Nodes) /\ Distinct(post_order) /\ succ \in [Nodes -> Seq(Nodes)]
  BY <1>1 DEF TypeInv, CallInv
<1>4. /\ \A n \in visited : Order(n) \in 1 .. Len(post_order) /\ post_order[Order(n)] = n
      /\ \A k \in 1 .. Len(post_order) : post_order[k] \in visited /\ Order(post_order[k]) = k
      /\ \A m, n \in visited : Order(m) = Order(n) => m = n
  BY <1>2, <1>3, OrderFacts
<1>5. \A n \in visited : Numbers[n] = Order(n)
  BY DEF Numbers
<1>6. Pairs(Edges(succ)) /\ \A m, n : <<m, n>> \in Edges(succ) <=> m \in Nodes /\ n \in Elements(succ[m])
  BY <1>3, EdgesAre
<1>7. Len(post_order) \in Nat /\ DOMAIN post_order = 1 .. Len(post_order)
  BY <1>3
<1>8. ASSUME NEW m \in visited, NEW n, <<m, n>> \in Edges(succ)
      PROVE  n \in visited /\ n # entry_block /\ Numbers[n] < Numbers[m]
  <2>1. m \in Nodes /\ n \in Elements(succ[m])
    BY <1>6, <1>8
  <2>2. n # entry_block
    BY <2>1 DEF EntryInv
  <2>3. PICK k \in 1 .. Len(post_order) : k = Order(m) /\ post_order[k] = m
    BY <1>4
  <2>4. PICK j \in 1 .. k - 1 : post_order[j] = n
    BY <1>1, <1>7, <2>1, <2>3 DEF ReturnedInv
  <2>5. j \in 1 .. Len(post_order) /\ j < k
    BY <1>7, <2>3, <2>4
  <2>6. n \in visited /\ Order(n) = j
    BY <1>4, <2>4, <2>5
  <2> QED BY <1>5, <2>2, <2>3, <2>5, <2>6
<1>9. ASSUME NEW n \in visited, n # entry_block PROVE \E p \in visited : <<p, n>> \in Edges(succ)
  <2>1. PICK x \in visited : Calls(x, n)
    BY <1>9 DEF TreeInv
  <2> QED BY <1>2, <1>6, <2>1 DEF Calls
<1>10. entry_block \in visited
  BY DEF TreeInv
<1>11. \A n \in visited : Numbers[n] \in 1 .. Len(post_order)
  BY <1>4, <1>5
<1>12. \A m, n \in visited : Numbers[m] = Numbers[n] => m = n
  BY <1>4, <1>5
<1>13. Descending(visited, Edges(succ), Numbers, Len(post_order))
  BY <1>6, <1>7, <1>8, <1>9, <1>10, <1>11, <1>12 DEF Descending
<1> QED BY <1>13 DEF Descends

\* The dominators are known of the blocks that the loop has passed, and of all when
\* it is over; while the run has added no branch they are immediate dominators.
DomInv ==
  /\ stage = "dominators" =>
       cursor \in 0 .. Len(post_order) /\ Processed = {n \in visited : Order(n) > cursor}
  /\ stage \notin {"visit", "dominators"} => Processed = visited
  /\ stage # "visit" => Climbs
  /\ stage # "visit" /\ ~ grew => Immediates

\* A dominator per block in the pool, none to begin with.
IdomInv ==
  /\ DOMAIN idom \subseteq Nodes
  /\ phase # "analysis" => DOMAIN idom = Nodes
  /\ idom \in [DOMAIN idom -> Nodes \cup {Null}]
  /\ stage = "visit" => \A n \in DOMAIN idom : idom[n] = Null

\* No dominator is known to begin with.
LEMMA PruneDominators ==
  ASSUME FlowInv, StageInv, PruneDeadPreds, IdomInv
  PROVE  DomInv'
<1>1. /\ stage = "visit" /\ stage' = "dominators" /\ phase = "visited" /\ cursor' = Len(post_order)
      /\ UNCHANGED <<num_nodes, visited, post_order, idom>>
  BY DEF PruneDeadPreds, backVars
<1>2. VisitInv /\ TreeInv /\ EntryInv
  BY <1>1 DEF FlowInv, StageInv
<1>3. Descends
  BY <1>1, <1>2, DescendFacts
<1>4. Processed = {}
  BY <1>1 DEF Processed, IdomInv
<1>5. Processed' = {}
  BY <1>1, <1>4 DEF Processed, Nodes
<1>6. Numbers' = Numbers
  BY <1>1 DEF Numbers, Order
<1>7. /\ Len(post_order) \in Nat
      /\ \A n \in visited : Numbers[n] \in 1 .. Len(post_order)
      /\ \A m, n \in visited : Numbers[m] = Numbers[n] => m = n
  BY <1>3 DEF Descends, Descending
<1>8. Climbs'
  <2>1. Climbing(visited, Numbers, Len(post_order), idom, {})
    BY <1>7 DEF Climbing
  <2> QED BY <1>1, <1>5, <1>6, <2>1 DEF Climbs
<1>9. Immediates'
  BY <1>5 DEF Immediates, Immediate
<1>10. cursor' \in 0 .. Len(post_order') /\ Processed' = {n \in visited' : Order(n)' > cursor'}
  <2>1. \A n \in visited : ~ (Numbers[n] > Len(post_order))
    BY <1>7
  <2>2. \A n \in visited' : ~ (Order(n)' > cursor')
    BY <1>1, <1>6, <2>1 DEF Numbers
  <2> QED BY <1>1, <1>5, <1>7, <2>2
<1> QED BY <1>1, <1>8, <1>9, <1>10 DEF DomInv

\* What build_immediate_dominators finds for a block.
LEMMA DominatorOfBlock ==
  ASSUME FlowInv, StageInv, PrunedInv, DomInv, stage = "dominators", cursor > 0,
         NEW n, n = post_order[cursor]
  PROVE  /\ n \in visited /\ Order(n) = cursor /\ n \notin Processed
         /\ n = entry_block => ImmediateDominator(n) = n
         /\ n # entry_block =>
              /\ ImmediateDominator(n) \in Processed /\ Order(n) < Order(ImmediateDominator(n))
              /\ \A a \in visited : ForwardDom(a, n) <=> a = n \/ ForwardDom(a, ImmediateDominator(n))
<1>1. phase = "visited" /\ ~ grew /\ VisitInv /\ TreeInv /\ EntryInv /\ ListsInv /\ TypeInv /\ CallInv
  BY DEF StageInv, FlowInv
<1>2. Descends /\ Climbs /\ Immediates
  BY <1>1, DescendFacts DEF DomInv
<1>3. /\ cursor \in 0 .. Len(post_order) /\ Processed = {m \in visited : Order(m) > cursor}
      /\ \A b \in visited : Elements(pred[b]) = {a \in visited : b \in Elements(succ[a])}
  BY DEF DomInv, PrunedInv
<1>4. post_order \in Seq(Nodes) /\ Distinct(post_order) /\ succ \in [Nodes -> Seq(Nodes)]
      /\ visited = Elements(post_order) /\ visited \subseteq Nodes
  BY <1>1, AllReturned DEF TypeInv, CallInv
<1>5. cursor \in 1 .. Len(post_order) /\ Len(post_order) \in Nat
  BY <1>3, <1>4
<1>6. n \in visited /\ Order(n) = cursor
  BY <1>4, <1>5, OrderFacts
<1>7. n \notin Processed
  BY <1>3, <1>5, <1>6
<1>8. \A a, b : <<a, b>> \in Edges(succ) <=> a \in Nodes /\ b \in Elements(succ[a])
  BY <1>4, EdgesAre
<1>9. pred[n] \in Seq(Nodes)
  BY <1>1, <1>4, <1>6 DEF ListsInv
<1>10. CASE n = entry_block
  <2>1. Elements(pred[n]) = {}
    <3>1. Elements(pred[n]) = {a \in visited : n \in Elements(succ[a])}
      BY <1>3, <1>6
    <3>2. \A a \in visited : n \notin Elements(succ[a])
      BY <1>1, <1>4, <1>10 DEF EntryInv
    <3> QED BY <3>1, <3>2
  <2>2. pred[n] = << >>
    BY <1>9, <2>1, NoElements
  <2> QED BY <1>6, <1>7, <1>10, <2>2 DEF ImmediateDominator
<1>11. CASE n # entry_block
  <2> DEFINE d == ImmediateDominator(n)
  <2>1. \A p \in visited : <<p, n>> \in Edges(succ) <=> p \in Elements(pred[n])
    BY <1>3, <1>4, <1>6, <1>8
  <2>2. /\ Pairs(Edges(succ)) /\ entry_block \in visited
        /\ \A m \in visited : <<m, n>> \in Edges(succ) => Numbers[n] < Numbers[m]
        /\ \E p \in visited : <<p, n>> \in Edges(succ)
    BY <1>2, <1>6, <1>11 DEF Descends, Descending
  <2>3. pred[n] # << >>
    <3>0. PICK p \in visited : <<p, n>> \in Edges(succ)
      BY <2>2
    <3>1. p \in Elements(pred[n])
      BY <2>1, <3>0
    <3> QED BY <1>9, <3>1, NoElements
  <2>4. Elements(pred[n]) \subseteq Processed
    <3> SUFFICES ASSUME NEW p \in Elements(pred[n]) PROVE p \in Processed
      OBVIOUS
    <3>1. p \in visited
      BY <1>3, <1>6
    <3>2. Numbers[n] < Numbers[p]
      BY <2>1, <2>2, <3>1
    <3> QED BY <1>3, <1>6, <3>1, <3>2 DEF Numbers
  <2>5. /\ d \in Processed
        /\ \A a \in visited : ForwardDom(a, d) <=> \A p \in Elements(pred[n]) : ForwardDom(a, p)
    BY <1>2, <1>9, <2>3, <2>4, ImmediateDominatorFacts
  <2>6. Order(n) < Order(d)
    BY <1>3, <1>6, <2>5
  <2> HIDE DEF d
  <2>7. ASSUME NEW a \in visited PROVE ForwardDom(a, n) <=> a = n \/ ForwardDom(a, d)
    <3>1. ForwardDom(a, n) <=> a = n \/ \A p \in visited : <<p, n>> \in Edges(succ) => ForwardDom(a, p)
      BY <1>6, <1>11, <2>2, DomEquation DEF ForwardDom
    <3>2. (\A p \in visited : <<p, n>> \in Edges(succ) => ForwardDom(a, p))
            <=> \A p \in Elements(pred[n]) : ForwardDom(a, p)
      BY <1>3, <1>6, <2>1
    <3> QED BY <2>5, <3>1, <3>2
  <2> USE DEF d
  <2> QED BY <1>6, <1>7, <1>11, <2>5, <2>6, <2>7
<1> QED BY <1>10, <1>11

\* build_immediate_dominators passes a block.
LEMMA BuildDominators ==
  ASSUME FlowInv, StageInv, PrunedInv, DomInv, IdomInv, BuildDominator
  PROVE  DomInv' /\ IdomInv'
<1>0. PICK n, d : n = post_order[cursor] /\ d = ImmediateDominator(post_order[cursor])
  OBVIOUS
<1>1. /\ stage = "dominators" /\ cursor > 0 /\ idom' = [idom EXCEPT ![n] = d] /\ cursor' = cursor - 1
      /\ UNCHANGED <<phase, num_nodes, succ, visited, post_order, stage, grew>>
  BY <1>0 DEF BuildDominator, visitVars, graphVars, backVars
<1>2. phase = "visited" /\ ~ grew /\ VisitInv /\ TreeInv /\ EntryInv /\ ListsInv /\ TypeInv /\ CallInv
  BY <1>1 DEF StageInv, FlowInv
<1>3. /\ n \in visited /\ Order(n) = cursor /\ n \notin Processed
      /\ n = entry_block => d = n
      /\ n # entry_block =>
           /\ d \in Processed /\ Order(n) < Order(d)
           /\ \A a \in visited : ForwardDom(a, n) <=> a = n \/ ForwardDom(a, d)
  BY <1>0, <1>1, DominatorOfBlock
<1>4. Descends /\ Climbs /\ Immediates
  BY <1>1, <1>2, DescendFacts DEF DomInv
<1>5. /\ cursor \in 0 .. Len(post_order) /\ Processed = {m \in visited : Order(m) > cursor}
  BY <1>1 DEF DomInv
<1>6. visited \subseteq Nodes /\ Null \notin Nodes /\ idom \in [Nodes -> Nodes \cup {Null}] /\ Nodes' = Nodes
  BY <1>1, <1>2, BlocksAreNodes DEF TypeInv, ListsInv, IdomInv, Nodes
<1>7. d \in visited
  BY <1>3, <1>5
<1>8. idom' \in [Nodes -> Nodes \cup {Null}] /\ idom'[n] = d /\ \A m \in Nodes : m # n => idom'[m] = idom[m]
  BY <1>1, <1>3, <1>6, <1>7
<1>9. Processed' = Processed \cup {n}
  <2>1. d # Null /\ n \in Nodes
    BY <1>3, <1>6, <1>7
  <2> QED BY <1>6, <1>8, <2>1 DEF Processed
<1>10. IdomInv'
  BY <1>1, <1>2, <1>6, <1>8 DEF IdomInv
<1>11. Numbers' = Numbers /\ \A m \in visited : Numbers[m] = Order(m)
  BY <1>1 DEF Numbers, Order
<1>12. \A m \in Processed : m \in Nodes /\ m # n
  BY <1>3, <1>5, <1>6
<1>13. Climbs'
  <2>1. Climbing(visited, Numbers, Len(post_order), idom, Processed)
    BY <1>4 DEF Climbs
  <2>2. ASSUME NEW m \in Processed \cup {n}
        PROVE  /\ idom'[m] \in Processed \cup {n}
               /\ m = entry_block => idom'[m] = m
               /\ m # entry_block => Numbers[m] < Numbers[idom'[m]]
    <3>1. CASE m = n
      BY <1>3, <1>7, <1>8, <1>11, <3>1
    <3>2. CASE m \in Processed
      BY <1>8, <1>12, <2>1, <3>2 DEF Climbing
    <3> QED BY <3>1, <3>2
  <2>3. Climbing(visited, Numbers, Len(post_order), idom', Processed \cup {n})
    BY <1>3, <2>1, <2>2 DEF Climbing
  <2> QED BY <1>1, <1>9, <1>11, <2>3 DEF Climbs
<1>14. Immediates'
  <2>1. Immediate(visited, Edges(succ), Numbers, idom, Processed)
    BY <1>4 DEF Immediates
  <2>2. ASSUME NEW m \in Processed \cup {n}
        PROVE  /\ idom'[m] \in visited
               /\ m = entry_block => idom'[m] = m
               /\ m # entry_block =>
                    /\ Numbers[m] < Numbers[idom'[m]]
                    /\ \A a \in visited : Dom(visited, Edges(succ), a, m)
                                            <=> a = m \/ Dom(visited, Edges(succ), a, idom'[m])
    <3>1. CASE m = n
      BY <1>3, <1>7, <1>8, <1>11, <3>1 DEF ForwardDom
    <3>2. CASE m \in Processed
      BY <1>8, <1>12, <2>1, <3>2 DEF Immediate
    <3> QED BY <3>1, <3>2
  <2>3. Immediate(visited, Edges(succ), Numbers, idom', Processed \cup {n})
    BY <2>2 DEF Immediate
  <2>4. Edges(succ)' = Edges(succ)
    BY <1>1 DEF Edges, Elements
  <2> QED BY <1>1, <1>9, <1>11, <2>3, <2>4 DEF Immediates
<1>15. cursor' \in 0 .. Len(post_order') /\ Processed' = {m \in visited' : Order(m)' > cursor'}
  <2>1. \A m \in visited' : Order(m)' = Order(m)
    BY <1>1 DEF Order
  <2>2. \A m \in visited : Order(m) \in Nat /\ (Order(m) = Order(n) => m = n)
    BY <1>4, <1>3, <1>11 DEF Descends, Descending
  <2>3. \A m \in visited : m \in Processed \cup {n} <=> Order(m) > cursor - 1
    BY <1>1, <1>3, <1>5, <2>2
  <2>4. cursor' \in 0 .. Len(post_order')
    <3>1. Len(post_order) \in Nat
      BY <1>2 DEF TypeInv
    <3> QED BY <1>1, <1>5, <3>1
  <2> QED BY <1>1, <1>3, <1>5, <1>9, <2>1, <2>3, <2>4
<1> QED BY <1>1, <1>10, <1>13, <1>14, <1>15 DEF DomInv

-----------------------------------------------------------------------------
(* The loops that are linked to their exits.                               *)

\* The blocks by falling post-order are those blocks, each once.
LEMMA FallingFacts ==
  ASSUME post_order \in Seq(Nodes), Distinct(post_order), NEW S, S \subseteq Elements(post_order)
  PROVE  /\ ByFallingOrder(S) \in Seq(Nodes) /\ Distinct(ByFallingOrder(S))
         /\ Elements(ByFallingOrder(S)) = S
<1> DEFINE k == Len(post_order)
           r == [i \in DOMAIN post_order |-> post_order[Len(post_order) + 1 - i]]
<1>1. k \in Nat /\ DOMAIN post_order = 1 .. k /\ \A i \in 1 .. k : post_order[i] \in Nodes /\ k + 1 - i \in 1 .. k
  OBVIOUS
<1>2. r = [i \in 1 .. k |-> post_order[k + 1 - i]]
  BY <1>1
<1> HIDE DEF r
<1>3. r \in Seq(Nodes) /\ DOMAIN r = 1 .. k /\ \A i \in 1 .. k : r[i] = post_order[k + 1 - i]
  BY <1>1, <1>2
<1>4. Distinct(r)
  <2>1. ASSUME NEW i \in 1 .. k, NEW j \in 1 .. k, r[i] = r[j] PROVE i = j
    <3>1. post_order[k + 1 - i] = post_order[k + 1 - j]
      BY <1>3, <2>1
    <3>2. k + 1 - i = k + 1 - j
      BY <1>1, <3>1 DEF Distinct
    <3> QED BY <1>1, <3>2
  <2> QED BY <1>3, <2>1 DEF Distinct
<1>5. Elements(r) = Elements(post_order)
  <2>1. ASSUME NEW x \in Elements(r) PROVE x \in Elements(post_order)
    <3>1. PICK i \in 1 .. k : x = r[i]
      BY <1>3, <2>1 DEF Elements
    <3> QED BY <1>1, <1>3, <3>1 DEF Elements
  <2>2. ASSUME NEW x \in Elements(post_order) PROVE x \in Elements(r)
    <3>1. PICK i \in 1 .. k : x = post_order[i]
      BY <1>1, <2>2 DEF Elements
    <3>2. k + 1 - (k + 1 - i) = i /\ k + 1 - i \in 1 .. k
      BY <1>1
    <3>3. r[k + 1 - i] = x
      BY <1>3, <3>1, <3>2
    <3> QED BY <1>3, <3>2, <3>3 DEF Elements
  <2> QED BY <2>1, <2>2
<1>6. ByFallingOrder(S) = EraseAll(r, Nodes \ S)
  BY DEF ByFallingOrder, r
<1>7. S \subseteq Nodes
  BY <1>1 DEF Elements
<1> HIDE DEF k
<1>8. EraseAll(r, Nodes \ S) \in Seq(Nodes) /\ Distinct(EraseAll(r, Nodes \ S))
      /\ Elements(EraseAll(r, Nodes \ S)) = Elements(r) \ (Nodes \ S)
  BY <1>3, <1>4, EraseAllFacts
<1>9. Elements(r) \ (Nodes \ S) = S
  <2>1. \A x : x \in S => x \in Elements(r) /\ x \in Nodes
    BY <1>5, <1>7
  <2>2. \A x : x \in Elements(r) => x \in Nodes
    BY <1>1, <1>5 DEF Elements
  <2> HIDE DEF r
  <2> QED BY <2>1, <2>2
<1> HIDE DEF r
<1> QED BY <1>6, <1>8, <1>9

\* A list that another one follows.
LEMMA ConcatFacts ==
  ASSUME NEW S, NEW s \in Seq(S), NEW t \in Seq(S)
  PROVE  /\ s \o t \in Seq(S) /\ Elements(s \o t) = Elements(s) \cup Elements(t)
         /\ Distinct(s) /\ Distinct(t) /\ Elements(s) \cap Elements(t) = {} => Distinct(s \o t)
         /\ t = << >> => s \o t = s
<1> DEFINE m == Len(s)
           n == Len(t)
           c == s \o t
<1>1. m \in Nat /\ n \in Nat /\ DOMAIN s = 1 .. m /\ DOMAIN t = 1 .. n
  OBVIOUS
<1>2. /\ c \in Seq(S) /\ DOMAIN c = 1 .. m + n
      /\ \A i \in 1 .. m + n : c[i] = IF i <= m THEN s[i] ELSE t[i - m]
  BY <1>1
<1>3. t = << >> => c = s
  OBVIOUS
<1> HIDE DEF m, n, c
<1>4. \A i \in 1 .. m + n : IF i <= m THEN i \in 1 .. m ELSE i - m \in 1 .. n
  BY <1>1
<1>5. Elements(c) = Elements(s) \cup Elements(t)
  <2>1. ASSUME NEW x \in Elements(c) PROVE x \in Elements(s) \cup Elements(t)
    <3>1. PICK i \in 1 .. m + n : x = c[i]
      BY <1>2, <2>1 DEF Elements
    <3> QED BY <1>1, <1>2, <1>4, <3>1 DEF Elements
  <2>2. ASSUME NEW x \in Elements(s) PROVE x \in Elements(c)
    <3>1. PICK i \in 1 .. m : x = s[i]
      BY <1>1, <2>2 DEF Elements
    <3>2. i \in 1 .. m + n /\ i <= m
      BY <1>1, <3>1
    <3> QED BY <1>2, <3>1, <3>2 DEF Elements
  <2>3. ASSUME NEW x \in Elements(t) PROVE x \in Elements(c)
    <3>1. PICK i \in 1 .. n : x = t[i]
      BY <1>1, <2>3 DEF Elements
    <3>2. PICK j \in Int : j = i + m
      BY <1>1, <3>1
    <3>4. j \in 1 .. m + n /\ ~ (j <= m) /\ j - m = i
      BY <1>1, <3>1, <3>2
    <3>3. c[j] = x
      BY <1>2, <3>1, <3>4
    <3> QED BY <1>2, <3>3, <3>4 DEF Elements
  <2> QED BY <2>1, <2>2, <2>3
<1>6. ASSUME Distinct(s), Distinct(t), Elements(s) \cap Elements(t) = {} PROVE Distinct(c)
  <2> SUFFICES ASSUME NEW i \in 1 .. m + n, NEW j \in 1 .. m + n, c[i] = c[j] PROVE i = j
    BY <1>2 DEF Distinct
  <2>1. (i <= m => c[i] = s[i] /\ i \in DOMAIN s) /\ (~ (i <= m) => c[i] = t[i - m] /\ i - m \in DOMAIN t)
    BY <1>1, <1>2, <1>4
  <2>2. (j <= m => c[j] = s[j] /\ j \in DOMAIN s) /\ (~ (j <= m) => c[j] = t[j - m] /\ j - m \in DOMAIN t)
    BY <1>1, <1>2, <1>4
  <2>3. \A a \in DOMAIN s : \A b \in DOMAIN t : s[a] # t[b]
    BY <1>6 DEF Elements
  <2>4. CASE i <= m /\ j <= m
    BY <1>6, <2>1, <2>2, <2>4 DEF Distinct
  <2>5. CASE ~ (i <= m) /\ ~ (j <= m)
    <3>1. i - m = j - m
      BY <1>6, <2>1, <2>2, <2>5 DEF Distinct
    <3> QED BY <1>1, <3>1
  <2>6. CASE (i <= m) # (j <= m)
    BY <2>1, <2>2, <2>3, <2>6
  <2> QED BY <2>4, <2>5, <2>6
<1> QED BY <1>2, <1>3, <1>5, <1>6 DEF c

\* add_unique_pred and its like.
LEMMA AppendUniqueFacts ==
  ASSUME NEW S, NEW s \in Seq(S), NEW e \in S
  PROVE  /\ AppendUnique(s, e) \in Seq(S) /\ Elements(AppendUnique(s, e)) = Elements(s) \cup {e}
         /\ Distinct(s) => Distinct(AppendUnique(s, e))
BY AppendFacts DEF AppendUnique

\* The loop that is linked next: the place of its header, the header, and the block
\* that closes it.
LinkIndex == CHOOSE j \in UnreachedHeaders : \A k \in UnreachedHeaders : k <= j
LinkHeader == post_order[LinkIndex]
LinkLatch == pred_back_edge[LinkHeader]

\* What is known of it.
LEMMA LinkFacts ==
  ASSUME FlowInv, StageInv, DomInv, IdomInv, stage = "link", UnreachedHeaders # {}
  PROVE  /\ LinkIndex \in 1 .. Len(post_order) /\ LinkHeader \in visited /\ LinkHeader # entry_block
         /\ LinkLatch \in visited /\ succ_back_edge[LinkLatch] = LinkHeader
         /\ LoopExits(LinkHeader) \subseteq visited \ {entry_block}
         /\ TrueTargets(LinkHeader) \subseteq LinkTargets(LinkHeader)
         /\ LinkTargets(LinkHeader) \subseteq LoopExits(LinkHeader)
         /\ LinkHeader \notin TrueTargets(LinkHeader)
<1>0. PICK i, header, latch : i = LinkIndex /\ header = LinkHeader /\ latch = LinkLatch
                              /\ header = post_order[i] /\ latch = pred_back_edge[header]
  BY DEF LinkHeader, LinkLatch
<1>1. phase = "visited" /\ TypeInv /\ GraphInv /\ ListsInv /\ EntryInv /\ CallInv
  BY DEF StageInv, FlowInv
<1>2. PICK L : LiveEnds(L)
  BY <1>1 DEF FlowInv
<1>3. visited = Elements(post_order) /\ visited \subseteq Nodes /\ Null \notin Nodes
  BY <1>1, AllReturned, BlocksAreNodes DEF TypeInv, ListsInv
<1>4. post_order \in Seq(Nodes) /\ Len(post_order) \in Nat /\ DOMAIN post_order = 1 .. Len(post_order)
  BY <1>1 DEF TypeInv
<1>5. i \in UnreachedHeaders
  <2>1. UnreachedHeaders \subseteq 1 .. Len(post_order)
    BY <1>4 DEF UnreachedHeaders
  <2>2. \E j \in UnreachedHeaders : \A k \in UnreachedHeaders : k <= j
    <3> DEFINE T == {Len(post_order) - j : j \in UnreachedHeaders}
    <3>1. T \subseteq Nat /\ T # {}
      <4>1. \A j \in UnreachedHeaders : Len(post_order) - j \in Nat
        BY <1>4, <2>1
      <4>2. PICK j : j \in UnreachedHeaders
        OBVIOUS
      <4>3. Len(post_order) - j \in T
        BY <4>2
      <4> QED BY <4>1, <4>3
    <3> HIDE DEF T
    <3>2. PICK x \in T : \A y \in T : x <= y
      BY <3>1, Least
    <3> USE DEF T
    <3>3. PICK j \in UnreachedHeaders : x = Len(post_order) - j
      BY <3>2
    <3>4. ASSUME NEW k \in UnreachedHeaders PROVE k <= j
      <4>1. x <= Len(post_order) - k
        BY <3>2, <3>4
      <4> QED BY <1>4, <2>1, <3>3, <4>1
    <3> QED BY <3>4
  <2> QED BY <1>0, <2>2 DEF LinkIndex
<1>6. i \in 1 .. Len(post_order) /\ latch # Null
  BY <1>0, <1>4, <1>5 DEF UnreachedHeaders
<1>7. header \in visited
  <2>1. i \in DOMAIN post_order
    BY <1>4, <1>6
  <2>2. post_order[i] \in Elements(post_order)
    BY <2>1 DEF Elements
  <2> QED BY <1>0, <1>3, <2>2
<1>8. latch \in Nodes /\ succ_back_edge[latch] = header
  <2>1. latch \in Nodes
    BY <1>0, <1>1, <1>3, <1>6, <1>7 DEF ListsInv
  <2> QED BY <1>0, <1>2, <1>3, <1>7, <2>1 DEF LiveEnds
<1>9. latch \in visited /\ header # entry_block
  <2>1. header # Null
    BY <1>3, <1>7
  <2> QED BY <1>1, <1>8, <2>1 DEF GraphInv, EntryInv
<1>10. LoopExits(header) \subseteq visited \ {entry_block}
  <2> DEFINE T    == visited \ {entry_block}
             next == [n \in Nodes |-> IF n \in LoopBlocks(header) THEN Elements(succ[n]) ELSE {}]
  <2>1. ASSUME NEW n \in T PROVE next[n] \subseteq T
    <3>1. n \in visited /\ n \in Nodes
      BY <1>3
    <3>2. Elements(succ[n]) \subseteq visited
      BY <1>1, <3>1 DEF FlowInv
    <3>3. entry_block \notin Elements(succ[n])
      BY <1>1, <3>1 DEF EntryInv
    <3> QED BY <3>1, <3>2, <3>3
  <2>2. {header} \subseteq T /\ num_nodes \in Nat
    BY <1>1, <1>7, <1>9 DEF TypeInv
  <2>3. LoopExits(header) \subseteq Closure(next, {header})
    BY DEF LoopExits
  <2> HIDE DEF T, next
  <2>4. Closure(next, {header}) \subseteq T
    BY <2>1, <2>2, ClosureIn
  <2>5. LoopExits(header) \subseteq T
    BY <2>3, <2>4
  <2> QED BY <2>5 DEF T
<1>11. TrueTargets(header) \subseteq LinkTargets(header) /\ LinkTargets(header) \subseteq LoopExits(header)
  <2>1. CASE TransposesLoopExit(header)
    BY <2>1 DEF TrueTargets, LinkTargets
  <2>2. CASE ~ TransposesLoopExit(header)
    BY <2>2 DEF TrueTargets, LinkTargets
  <2> QED BY <2>1, <2>2
<1>12. header \notin TrueTargets(header)
  <2> SUFFICES ASSUME header \in TrueTargets(header) PROVE FALSE
    OBVIOUS
  <2>1. Dominates(header, idom[header])
    BY DEF TrueTargets, NeedsTrueBranch
  <2>2. Climbs /\ Processed = visited /\ DOMAIN idom = Nodes /\ idom \in [Nodes -> Nodes \cup {Null}]
    BY <1>1 DEF DomInv, IdomInv
  <2>3. idom[header] \in Processed /\ Numbers[header] < Numbers[idom[header]]
        /\ Numbers[header] = Order(header) /\ Numbers[idom[header]] = Order(idom[header])
        /\ Order(header) \in Nat /\ Order(idom[header]) \in Nat
    BY <1>7, <1>9, <2>2, ClimbsFacts
  <2>4. PICK d : d = idom[header]
    OBVIOUS
  <2>5. d \in Processed /\ Dominates(header, d)
    BY <2>1, <2>3, <2>4
  <2>6. header # d => Order(d) < Order(header)
    BY <1>3, <2>2, <2>5, DominatesOrder
  <2> QED BY <2>3, <2>4, <2>6
<1> QED BY <1>0, <1>6, <1>7, <1>8, <1>9, <1>10, <1>11, <1>12

\* backwards_visit links a loop that it did not reach to its exits, by fake branches
\* and, where the exit is a case label, by real ones.
LEMMA LinkFlow ==
  ASSUME FlowInv, StageInv, DomInv, IdomInv, LinkLoop
  PROVE  /\ FlowInv' /\ StageInv'
         /\ ~ grew' => ~ grew /\ succ' = succ
<1>1. stage = "link" /\ UnreachedHeaders # {}
  BY DEF LinkLoop
<1>2. PICK i, h, l : i = LinkIndex /\ h = LinkHeader /\ l = LinkLatch
  OBVIOUS
<1>0. \E real \in {TrueTargets(h) \ Elements(succ[l])},
         fake \in {LinkTargets(h) \ (TrueTargets(h) \cup Elements(succ[l]))} :
        /\ succ' = [succ EXCEPT ![l] = @ \o ByFallingOrder(real)]
        /\ pred' = [n \in Nodes |-> IF n \in real THEN AppendUnique(pred[n], l) ELSE pred[n]]
        /\ fake_pred' = [n \in Nodes |-> IF n \in fake THEN AppendUnique(fake_pred[n], l) ELSE fake_pred[n]]
        /\ grew' = (grew \/ real # {})
  BY <1>2, Zenon DEF LinkLoop, LinkIndex, LinkHeader, LinkLatch
<1>3. PICK real, fake :
        /\ real = TrueTargets(h) \ Elements(succ[l])
        /\ fake = LinkTargets(h) \ (TrueTargets(h) \cup Elements(succ[l]))
        /\ succ' = [succ EXCEPT ![l] = @ \o ByFallingOrder(real)]
        /\ pred' = [n \in Nodes |-> IF n \in real THEN AppendUnique(pred[n], l) ELSE pred[n]]
        /\ fake_pred' = [n \in Nodes |-> IF n \in fake THEN AppendUnique(fake_pred[n], l) ELSE fake_pred[n]]
        /\ grew' = (grew \/ real # {})
        /\ UNCHANGED <<phase, visits, origin, num_nodes, backEdgeVars, visited, stack, post_order,
                       previous, stage>>
  <2>1. UNCHANGED <<phase, visits, origin, num_nodes, backEdgeVars, visited, stack, post_order,
                    previous, stage>>
    BY DEF LinkLoop
  <2> QED BY <1>0, <2>1
<1>4. UNCHANGED <<phase, visits, origin, num_nodes, succ_back_edge, pred_back_edge, visited, stack,
                  post_order, previous, stage>>
  BY <1>3 DEF backEdgeVars
<1>5. /\ i \in 1 .. Len(post_order) /\ h \in visited /\ h # entry_block
      /\ l \in visited /\ succ_back_edge[l] = h
      /\ LoopExits(h) \subseteq visited \ {entry_block}
      /\ TrueTargets(h) \subseteq LinkTargets(h)
      /\ LinkTargets(h) \subseteq LoopExits(h)
      /\ h \notin TrueTargets(h)
  BY <1>1, <1>2, LinkFacts
<1>6. real \subseteq visited \ {entry_block, h} /\ real \cap Elements(succ[l]) = {}
  BY <1>3, <1>5
<1>7. phase = "visited" /\ TypeInv /\ GraphInv /\ ListsInv /\ EntryInv /\ CallInv
  BY <1>1 DEF StageInv, FlowInv
<1>8. visited = Elements(post_order) /\ visited \subseteq Nodes /\ Null \notin Nodes /\ Nodes' = Nodes
  BY <1>4, <1>7, AllReturned, BlocksAreNodes DEF TypeInv, ListsInv, Nodes
<1>9. l \in Nodes /\ succ[l] \in Seq(Nodes) /\ Distinct(succ[l])
  BY <1>5, <1>7, <1>8 DEF TypeInv, GraphInv
<1>10. PICK b : b = ByFallingOrder(real)
  OBVIOUS
<1>11. b \in Seq(Nodes) /\ Distinct(b) /\ Elements(b) = real
  <2>1. post_order \in Seq(Nodes) /\ Distinct(post_order) /\ real \subseteq Elements(post_order)
    BY <1>6, <1>7, <1>8 DEF TypeInv, CallInv
  <2> QED BY <1>10, <2>1, FallingFacts
<1>12. /\ succ[l] \o b \in Seq(Nodes) /\ Elements(succ[l] \o b) = Elements(succ[l]) \cup real
       /\ Distinct(succ[l] \o b)
  BY <1>6, <1>9, <1>11, ConcatFacts
<1>13. succ'[l] = succ[l] \o b /\ (\A n : n # l => succ'[n] = succ[n]) /\ succ' \in [Nodes -> Seq(Nodes)]
  BY <1>3, <1>7, <1>9, <1>10, <1>12 DEF TypeInv
<1>14. /\ Elements(succ'[l]) = Elements(succ[l]) \cup real
       /\ \A n : n # l => Elements(succ'[n]) = Elements(succ[n])
  BY <1>12, <1>13
<1>15. ASSUME NEW n \in Nodes
       PROVE  /\ pred'[n] \in Seq(Nodes) /\ fake_pred'[n] \in Seq(Nodes)
              /\ Elements(pred'[n]) = IF n \in real THEN Elements(pred[n]) \cup {l} ELSE Elements(pred[n])
              /\ Distinct(pred[n]) => Distinct(pred'[n])
  <2>1. pred[n] \in Seq(Nodes) /\ fake_pred[n] \in Seq(Nodes)
    BY <1>7 DEF ListsInv
  <2>2. /\ pred'[n] = IF n \in real THEN AppendUnique(pred[n], l) ELSE pred[n]
        /\ fake_pred'[n] = IF n \in fake THEN AppendUnique(fake_pred[n], l) ELSE fake_pred[n]
    BY <1>3
  <2>3. /\ AppendUnique(pred[n], l) \in Seq(Nodes) /\ AppendUnique(fake_pred[n], l) \in Seq(Nodes)
        /\ Elements(AppendUnique(pred[n], l)) = Elements(pred[n]) \cup {l}
        /\ Distinct(pred[n]) => Distinct(AppendUnique(pred[n], l))
    <3>1. PICK p, q : p = pred[n] /\ q = fake_pred[n]
      OBVIOUS
    <3>2. p \in Seq(Nodes) /\ q \in Seq(Nodes)
      BY <2>1, <3>1
    <3>3. /\ AppendUnique(p, l) \in Seq(Nodes) /\ AppendUnique(q, l) \in Seq(Nodes)
          /\ Elements(AppendUnique(p, l)) = Elements(p) \cup {l}
          /\ Distinct(p) => Distinct(AppendUnique(p, l))
      BY <1>9, <3>2, AppendUniqueFacts
    <3> QED BY <3>1, <3>3
  <2> QED BY <2>1, <2>2, <2>3
<1>16. pred' \in [Nodes -> Seq(Nodes)] /\ fake_pred' \in [Nodes -> Seq(Nodes)]
  <2>1. pred' = [n \in Nodes |-> pred'[n]] /\ fake_pred' = [n \in Nodes |-> fake_pred'[n]]
    BY <1>3
  <2>2. (\A n \in Nodes : pred'[n] \in Seq(Nodes)) /\ \A n \in Nodes : fake_pred'[n] \in Seq(Nodes)
    BY <1>15
  <2> QED BY <2>1, <2>2
<1>17. TypeInv'
  BY <1>4, <1>7, <1>8, <1>13 DEF TypeInv
<1>18. ListsInv'
  BY <1>4, <1>7, <1>8, <1>16 DEF ListsInv
<1>19. \A n \in Nodes : Distinct(succ'[n])
  BY <1>7, <1>12, <1>13 DEF GraphInv
<1>20. \A n \in visited : succ_back_edge'[n] \notin Elements(succ'[n])
  <2>1. \A n \in visited : succ_back_edge[n] \notin Elements(succ[n])
    BY <1>7, <1>8 DEF GraphInv
  <2> QED BY <1>4, <1>5, <1>6, <1>14, <2>1
<1>21. GraphInv'
  <2>1. Elements(post_order') = visited
    BY <1>4, <1>8
  <2>2. \A n \in Nodes' : Distinct(succ'[n])
    BY <1>8, <1>19
  <2>3. \A n \in Elements(post_order') : succ_back_edge'[n] \notin Elements(succ'[n])
    BY <1>20, <2>1
  <2>4. \A n \in Nodes' : succ_back_edge'[n] # Null => n \in visited'
    BY <1>4, <1>7, <1>8 DEF GraphInv
  <2>5. phase' # "analysis"
    BY <1>4, <1>7
  <2> QED BY <2>2, <2>3, <2>4, <2>5 DEF GraphInv, Distinct, Elements
<1>22. CallInv'
  <2>1. Traversing' = Traversing /\ Elements(post_order)' = Elements(post_order)
    BY <1>4 DEF Traversing, Elements
  <2> QED BY <1>4, <1>7, <2>1 DEF CallInv, Distinct
<1>23. EntryInv'
  <2>1. \A n \in Nodes : entry_block \notin Elements(succ'[n]) /\ succ_back_edge'[n] # entry_block
    BY <1>4, <1>6, <1>7, <1>14 DEF EntryInv
  <2> QED BY <1>8, <2>1 DEF EntryInv, Elements
<1>24. \A n \in visited' : Elements(succ[n])' \subseteq visited'
  <2>1. \A n \in visited : Elements(succ[n]) \subseteq visited
    BY <1>7 DEF FlowInv
  <2>2. \A n \in visited : Elements(succ'[n]) \subseteq visited
    BY <1>6, <1>14, <2>1
  <2> QED BY <1>4, <2>2 DEF Elements
<1>25. PICK L : LiveEnds(L)
  BY <1>7 DEF FlowInv
<1>26. \A x, y : Branch(x, y)' <=> Branch(x, y) \/ (x = l /\ y \in real)
  <2>1. \A x, y : Branch(x, y)' <=> y \in Elements(succ'[x]) \/ succ_back_edge'[x] = y
    BY DEF Branch, Elements
  <2> QED BY <1>4, <1>14, <2>1 DEF Branch
<1>27. LiveEnds(L)'
  <2>1. L \subseteq Nodes /\ entry_block \in L /\ visited \subseteq L
    BY <1>25 DEF LiveEnds
  <2>2. \A x \in L : \A y \in Nodes : Branch(x, y)' => y \in L
    <3>1. \A x \in L : \A y \in Nodes : Branch(x, y) => y \in L
      BY <1>25 DEF LiveEnds
    <3> QED BY <1>6, <1>26, <2>1, <3>1
  <2>3. \A x, y \in L : Branch(x, y)' <=> x \in Elements(pred'[y]) \/ pred_back_edge'[y] = x
    <3>1. \A x, y \in L : Branch(x, y) <=> x \in Elements(pred[y]) \/ pred_back_edge[y] = x
      BY <1>25 DEF LiveEnds
    <3> QED BY <1>4, <1>15, <1>26, <2>1, <3>1
  <2>4. /\ \A x, y \in Nodes : succ_back_edge[x] = y <=> pred_back_edge[y] = x
        /\ \A n \in Nodes : Distinct(pred[n])
        /\ \A n \in Nodes : pred_back_edge[n] # Null => n \in visited
        /\ \A n \in visited : pred_back_edge[n] \notin Elements(pred[n])
    BY <1>8, <1>25 DEF LiveEnds
  <2>5. \A n \in visited : pred_back_edge'[n] \notin Elements(pred'[n])
    <3>1. \A n \in real : pred_back_edge[n] # l
      BY <1>5, <1>6, <1>8, <2>4
    <3> SUFFICES ASSUME NEW n \in visited PROVE pred_back_edge'[n] \notin Elements(pred'[n])
      OBVIOUS
    <3>2. Elements(pred'[n]) = IF n \in real THEN Elements(pred[n]) \cup {l} ELSE Elements(pred[n])
      BY <1>8, <1>15
    <3> QED BY <1>4, <2>4, <3>1, <3>2
  <2>6. \A n \in Nodes : Distinct(pred'[n])
    BY <1>15, <2>4
  <2>7. Elements(post_order') = visited
    BY <1>4, <1>8
  <2>8. /\ \A x, y \in Nodes' : succ_back_edge'[x] = y <=> pred_back_edge'[y] = x
        /\ \A n \in Nodes' : pred_back_edge'[n] # Null => n \in visited'
        /\ \A n \in Nodes' : Distinct(pred'[n])
        /\ \A n \in Elements(post_order') : pred_back_edge'[n] \notin Elements(pred'[n])
    BY <1>4, <1>8, <2>4, <2>5, <2>6, <2>7
  <2>9. /\ L \subseteq Nodes' /\ entry_block \in L /\ visited' \subseteq L
        /\ \A x \in L : \A y \in Nodes' : Branch(x, y)' => y \in L
    BY <1>4, <1>8, <2>1, <2>2
  <2> QED BY <2>3, <2>8, <2>9 DEF LiveEnds, Distinct, Elements
<1>28. StageInv'
  BY <1>1, <1>4, <1>7 DEF StageInv
<1>29. ~ grew' => ~ grew /\ succ' = succ /\ pred' = pred
  <2> SUFFICES ASSUME ~ grew' PROVE ~ grew /\ succ' = succ /\ pred' = pred
    OBVIOUS
  <2>1. ~ grew /\ real = {}
    BY <1>3
  <2>2. b = << >>
    BY <1>11, <2>1, NoElements
  <2>3. succ[l] \o b = succ[l]
    BY <1>9, <1>11, <2>2, ConcatFacts
  <2>4. succ' = succ
    <3>1. succ \in [Nodes -> Seq(Nodes)] /\ \A n \in Nodes : succ'[n] = succ[n]
      BY <1>7, <1>13, <2>3 DEF TypeInv
    <3> QED BY <1>13, <3>1
  <2>5. pred' = pred
    <3>1. pred \in [Nodes -> Seq(Nodes)]
      BY <1>7 DEF ListsInv
    <3>2. \A n \in Nodes : pred'[n] = pred[n]
      BY <1>3, <2>1
    <3> QED BY <1>16, <3>1, <3>2
  <2> QED BY <2>1, <2>4, <2>5
<1>30. ~ grew' => VisitInv' /\ TreeInv'
  <2> SUFFICES ASSUME ~ grew' PROVE VisitInv' /\ TreeInv'
    OBVIOUS
  <2>1. ~ grew /\ succ' = succ
    BY <1>29
  <2>2. VisitInv /\ TreeInv
    BY <1>7, <2>1 DEF FlowInv
  <2>3. ReturnedInv' /\ PassedInv'
    BY <1>4, <1>7, <2>1, <2>2 DEF VisitInv, ReturnedInv, PassedInv, Elements
  <2>4. VisitInv'
    BY <1>17, <1>21, <1>22, <2>3 DEF VisitInv
  <2>5. \A x, y : Waits(x, y)' <=> Waits(x, y)
    BY <1>4 DEF Waits
  <2>6. \A x, y : Calls(x, y)' <=> Calls(x, y)
    BY <1>4, <2>1, <2>5 DEF Calls, Elements
  <2>7. \A x, y : CallsClose(x, y) => CallsClose(x, y)'
    BY <1>4, <2>6, LoopsKept
  <2>8. entry_block \in visited' /\ \A x, y : Waits(x, y)' => Calls(x, y)'
    BY <1>4, <2>2, <2>5, <2>6 DEF TreeInv
  <2>9. \A n \in visited' : n # entry_block => \E x \in visited' : Calls(x, n)'
    BY <1>4, <2>2, <2>6 DEF TreeInv
  <2>10. \A n \in visited' : \A x \in Nodes : succ_back_edge'[n] = x => CallsClose(x, n)'
    BY <1>4, <2>2, <2>7 DEF TreeInv
  <2>11. TreeInv'
    BY <1>8, <2>8, <2>9, <2>10 DEF TreeInv
  <2> QED BY <2>4, <2>11
<1>31. phase' = "visited"
  BY <1>4, <1>7
<1>32. FlowInv'
  BY <1>17, <1>18, <1>21, <1>22, <1>23, <1>24, <1>27, <1>30, <1>31 DEF FlowInv
<1> QED BY <1>28, <1>29, <1>32

-----------------------------------------------------------------------------
(* Dominators and reachability, kept by the passes that follow.            *)

\* The rows of the bitset are reachability while the run has added no branch.
ReachInv ==
  stage \notin {"visit", "dominators"} /\ ~ grew =>
    \A a \in visited : reachability[a] = Reached(visited, Edges(succ), a)

\* A pass that changes neither them nor, unless it adds a branch, the function.
LEMMA AnalysesStay ==
  ASSUME DomInv, IdomInv, ReachInv, stage \notin {"visit", "dominators"}, stage' \notin {"visit", "dominators"},
         UNCHANGED <<phase, num_nodes, visited, post_order, idom, reachability>>,
         ~ grew' => ~ grew /\ succ' = succ
  PROVE  DomInv' /\ IdomInv' /\ ReachInv'
<1>1. Nodes' = Nodes /\ Processed' = Processed /\ Numbers' = Numbers
  BY DEF Nodes, Processed, Numbers, Order
<1>2. Climbs'
  <2>1. Climbs
    BY DEF DomInv
  <2> QED BY <1>1, <2>1 DEF Climbs
<1>3. ~ grew' => Edges(succ)' = Edges(succ)
  BY DEF Edges, Elements
<1>4. ~ grew' => Immediates'
  <2>1. ~ grew' => Immediates
    BY DEF DomInv
  <2> QED BY <1>1, <1>3, <2>1 DEF Immediates
<1>5. DomInv'
  <2>1. Processed' = visited'
    BY <1>1 DEF DomInv
  <2> QED BY <1>2, <1>4, <2>1 DEF DomInv
<1>6. IdomInv'
  BY <1>1 DEF IdomInv
<1>7. ReachInv'
  BY <1>3 DEF ReachInv
<1> QED BY <1>5, <1>6, <1>7

\* build_reachability.
LEMMA BuildReachabilityFacts ==
  ASSUME FlowInv, StageInv, DomInv, IdomInv, BuildReachability
  PROVE  FlowInv' /\ StageInv' /\ DomInv' /\ IdomInv' /\ ReachInv'
<1>1. /\ stage = "dominators" /\ cursor = 0 /\ stage' = "backward" /\ reachability' = ReachabilityRows
      /\ grew' = FALSE
      /\ UNCHANGED <<visitVars, idom>>
  BY DEF BuildReachability
<1>2. UNCHANGED <<phase, num_nodes, visited, post_order, idom, succ>>
  BY <1>1 DEF visitVars, graphVars
<1>3. phase = "visited" /\ ~ grew /\ VisitInv /\ TreeInv /\ EntryInv /\ TypeInv /\ CallInv
  BY <1>1 DEF StageInv, FlowInv
<1>4. FlowInv'
  BY <1>1, <1>3, FlowStays
<1>5. StageInv'
  BY <1>1, <1>2, <1>3 DEF StageInv
<1>6. Descends /\ Climbs /\ Immediates
  BY <1>1, <1>3, DescendFacts DEF DomInv
<1>7. Nodes' = Nodes /\ Processed' = Processed /\ Numbers' = Numbers /\ Edges(succ)' = Edges(succ)
  BY <1>2 DEF Nodes, Processed, Numbers, Order, Edges, Elements
<1>8. Processed = visited
  <2>1. Processed = {n \in visited : Order(n) > cursor}
    BY <1>1 DEF DomInv
  <2>2. \A n \in visited : Order(n) > 0
    <3>1. \A n \in visited : Numbers[n] \in 1 .. Len(post_order)
      BY <1>6 DEF Descends, Descending
    <3> QED BY <3>1 DEF Numbers
  <2> QED BY <1>1, <2>1, <2>2
<1>9. Climbs' /\ Immediates'
  BY <1>2, <1>6, <1>7 DEF Climbs, Immediates
<1>10. DomInv'
  BY <1>1, <1>2, <1>7, <1>8, <1>9 DEF DomInv
<1>11. IdomInv'
  BY <1>1, <1>2, <1>7 DEF IdomInv
<1>12. ReachInv'
  <2>1. /\ succ \in [Nodes -> Seq(Nodes)] /\ post_order \in Seq(Nodes) /\ Distinct(post_order)
        /\ visited = Elements(post_order)
    BY <1>3, AllReturned DEF TypeInv, CallInv
  <2>2. \A n \in visited : ReachabilityRows[n] = Reached(visited, Edges(succ), n)
    BY <1>6, <2>1, ReachabilityRowsFacts
  <2> QED BY <1>1, <1>2, <1>7, <2>2 DEF ReachInv
<1> QED BY <1>4, <1>5, <1>10, <1>11, <1>12

\* The steps of recompute_cfg after the dominators.
LaterStep ==
  \/ BackwardsVisitLeaf \/ BackwardsVisitPred \/ BackwardsReturn \/ StartLinking \/ LinkLoop
  \/ BackwardsAgain \/ FinishBackwards \/ BuildPostDominator \/ StartFrontiers
  \/ ComputeDominanceFrontier \/ StartPostFrontiers \/ ComputePostDominanceFrontier \/ FinishRecompute

\* All of them but LinkLoop leave the function alone.
LEMMA LaterStepFacts ==
  ASSUME LaterStep, ~ LinkLoop, StageInv
  PROVE  /\ stage \notin {"visit", "dominators"}
         /\ UNCHANGED <<visitVars, idom, reachability, grew>>
         /\ StageInv'
<1>1. ASSUME BackwardsVisitLeaf \/ BackwardsVisitPred \/ BackwardsReturn \/ StartLinking \/ BackwardsAgain
      PROVE  /\ stage \in {"backward", "link", "backward again"}
             /\ UNCHANGED <<visitVars, idom, reachability, grew>>
             /\ stage' \in {stage, "link", "backward again"}
  BY <1>1 DEF BackwardsVisitLeaf, BackwardsVisitPred, BackwardsReturn, StartLinking, BackwardsAgain, backVars
<1>2. ASSUME FinishBackwards \/ BuildPostDominator \/ StartFrontiers \/ ComputeDominanceFrontier
      PROVE  /\ stage \in {"link", "backward again", "post-dominators", "frontiers"}
             /\ UNCHANGED <<visitVars, idom, reachability, grew>>
             /\ stage' \in {stage, "post-dominators", "no post-dominator", "frontiers"}
  BY <1>2 DEF FinishBackwards, BuildPostDominator, StartFrontiers, ComputeDominanceFrontier, backVars
<1>3. ASSUME StartPostFrontiers \/ ComputePostDominanceFrontier \/ FinishRecompute
      PROVE  /\ stage \in {"frontiers", "post-frontiers"}
             /\ UNCHANGED <<visitVars, idom, reachability, grew>>
             /\ stage' \in {stage, "post-frontiers", "done"}
  BY <1>3 DEF StartPostFrontiers, ComputePostDominanceFrontier, FinishRecompute, backVars
<1>4. /\ stage \in {"backward", "link", "backward again", "post-dominators", "frontiers", "post-frontiers"}
      /\ UNCHANGED <<visitVars, idom, reachability, grew>>
      /\ stage' \in {stage, "link", "backward again", "post-dominators", "no post-dominator", "frontiers",
                     "post-frontiers", "done"}
  BY <1>1, <1>2, <1>3 DEF LaterStep
<1>5. phase' = phase
  BY <1>4 DEF visitVars
<1>6. StageInv'
  BY <1>4, <1>5 DEF StageInv
<1> QED BY <1>4, <1>6

\* So all keep what is known of the function, the dominators and reachability.
LEMMA LaterStepKeeps ==
  ASSUME FlowInv, StageInv, DomInv, IdomInv, ReachInv, LaterStep
  PROVE  FlowInv' /\ StageInv' /\ DomInv' /\ IdomInv' /\ ReachInv'
<1>1. CASE LinkLoop
  <2>1. FlowInv' /\ StageInv' /\ (~ grew' => ~ grew /\ succ' = succ)
    BY <1>1, LinkFlow
  <2>2. /\ stage = "link" /\ stage' = stage
        /\ UNCHANGED <<phase, num_nodes, visited, post_order, idom, reachability>>
    BY <1>1 DEF LinkLoop
  <2>3. DomInv' /\ IdomInv' /\ ReachInv'
    BY <2>1, <2>2, AnalysesStay
  <2> QED BY <2>1, <2>3
<1>2. CASE ~ LinkLoop
  <2>1. stage \notin {"visit", "dominators"} /\ UNCHANGED <<visitVars, idom, reachability, grew>> /\ StageInv'
    BY <1>2, LaterStepFacts
  <2>2. UNCHANGED <<phase, num_nodes, visited, post_order, idom, reachability, succ, grew>>
    BY <2>1 DEF visitVars, graphVars
  <2>3. stage' \notin {"visit", "dominators"}
    BY <1>2, <2>1 DEF LaterStep, BackwardsVisitLeaf, BackwardsVisitPred, BackwardsReturn, StartLinking,
      BackwardsAgain, FinishBackwards, BuildPostDominator, StartFrontiers, ComputeDominanceFrontier,
      StartPostFrontiers, ComputePostDominanceFrontier, FinishRecompute
  <2>4. FlowInv'
    BY <2>1, <2>2, FlowStays
  <2>5. DomInv' /\ IdomInv' /\ ReachInv'
    BY <2>1, <2>2, <2>3, AnalysesStay
  <2> QED BY <2>1, <2>4, <2>5
<1> QED BY <1>1, <1>2

-----------------------------------------------------------------------------
(* The function, the dominators and reachability, in every run.            *)

\* What the passes keep of the function and what is known of the analyses.
RunInv == FlowInv /\ StageInv /\ PrunedInv /\ DomInv /\ IdomInv /\ ReachInv

\* It holds of a function that add_branch has built.
LEMMA RunInit == RCInit => RunInv
<1> SUFFICES ASSUME RCInit PROVE RunInv
  OBVIOUS
<1>1. /\ CVInit /\ stage = "visit" /\ grew = FALSE /\ idom = [n \in Blocks |-> Null]
      /\ phase = "analysis" /\ num_nodes = NumBlocks
  BY DEF RCInit, AnalysisInit, CVInit, FunctionInit
<1>2. VisitInv /\ EdgesInv /\ EntryInv
  BY <1>1, InitInv, EdgesInit, EntryInit
<1>3. FlowInv
  BY <1>1, <1>2 DEF FlowInv, VisitInv, EdgesInv
<1>4. StageInv
  BY <1>1 DEF StageInv
<1>5. Blocks = Nodes
  BY <1>1 DEF Blocks, Nodes
<1>6. IdomInv
  BY <1>1, <1>5 DEF IdomInv
<1> QED BY <1>1, <1>3, <1>4, <1>6 DEF RunInv, PrunedInv, DomInv, ReachInv

\* The pool of blocks does not shrink, and does not grow after the analysis.
LEMMA PoolGrows ==
  ASSUME FlowInv, StageInv, Traverse
  PROVE  /\ stage = "visit" /\ stage' = "visit" /\ UNCHANGED analysisVars
         /\ Nodes \subseteq Nodes'
         /\ phase' # "analysis" => phase # "analysis" /\ Nodes' = Nodes
<1>1. phase \in {"analysis", "visit"} /\ UNCHANGED analysisVars
  BY DEF Traverse, VisitSucc, RecordBackEdge, ReturnFromAnalysis, VisitBackEdge, ReturnFromVisit
<1>2. stage = "visit" /\ stage' = "visit"
  BY <1>1 DEF StageInv, analysisVars
<1>3. CASE ReturnFromAnalysis
  <2>1. phase' = "analysis" /\ (num_nodes' = num_nodes \/ num_nodes' = num_nodes + 1)
    BY <1>3 DEF ReturnFromAnalysis, MergeBackEdges, graphVars
  <2>2. num_nodes \in Nat
    BY DEF FlowInv, TypeInv
  <2> QED BY <1>1, <1>2, <2>1, <2>2 DEF Nodes
<1>4. CASE VisitSucc \/ RecordBackEdge \/ VisitBackEdge \/ ReturnFromVisit
  <2>1. num_nodes' = num_nodes /\ (phase = "analysis" => phase' = "analysis")
    BY <1>4 DEF VisitSucc, RecordBackEdge, VisitBackEdge, ReturnFromVisit, graphVars
  <2> QED BY <1>1, <1>2, <2>1 DEF Nodes
<1> QED BY <1>3, <1>4 DEF Traverse

\* Every step of recompute_cfg keeps them.
LEMMA RunStep ==
  ASSUME RunInv, RCNext
  PROVE  RunInv'
<1>1. FlowInv /\ StageInv /\ PrunedInv /\ DomInv /\ IdomInv /\ ReachInv
  BY DEF RunInv
<1>2. CASE Traverse
  <2>1. FlowInv' /\ StageInv'
    BY <1>1, <1>2, TraverseFlow
  <2>2. /\ stage = "visit" /\ stage' = "visit" /\ UNCHANGED analysisVars
        /\ Nodes \subseteq Nodes'
        /\ phase' # "analysis" => phase # "analysis" /\ Nodes' = Nodes
    BY <1>1, <1>2, PoolGrows
  <2>3. idom' = idom
    BY <2>2 DEF analysisVars
  <2>4. IdomInv'
    <3>1. idom \in [DOMAIN idom -> Nodes' \cup {Null}]
      <4>1. \A n \in DOMAIN idom : idom[n] \in Nodes \cup {Null}
        BY <1>1 DEF IdomInv
      <4>2. idom = [n \in DOMAIN idom |-> idom[n]]
        BY <1>1 DEF IdomInv
      <4> QED BY <2>2, <4>1, <4>2
    <3> QED BY <1>1, <2>2, <2>3, <3>1 DEF IdomInv
  <2> QED BY <2>1, <2>2, <2>4 DEF RunInv, PrunedInv, DomInv, ReachInv
<1>3. CASE RecomputeAll
  <2>1. FlowInv' /\ StageInv'
    BY <1>1, <1>3, RecomputeFlow
  <2>2. stage' = "visit" /\ idom' = [n \in Nodes |-> Null] /\ Nodes' = Nodes
    BY <1>3 DEF RecomputeAll, Recompute, Nodes
  <2>3. IdomInv'
    BY <2>2 DEF IdomInv
  <2> QED BY <2>1, <2>2, <2>3 DEF RunInv, PrunedInv, DomInv, ReachInv
<1>4. CASE PruneDeadPreds
  <2>1. FlowInv' /\ StageInv' /\ PrunedInv'
    BY <1>1, <1>4, PruneFlow
  <2>2. DomInv'
    BY <1>1, <1>4, PruneDominators
  <2>3. stage' = "dominators" /\ UNCHANGED <<phase, num_nodes, idom>>
    BY <1>4 DEF PruneDeadPreds
  <2>4. IdomInv'
    BY <1>1, <2>3 DEF IdomInv, Nodes
  <2> QED BY <2>1, <2>2, <2>3, <2>4 DEF RunInv, ReachInv
<1>5. CASE BuildDominator
  <2>1. DomInv' /\ IdomInv'
    BY <1>1, <1>5, BuildDominators
  <2>2. stage = "dominators" /\ UNCHANGED <<visitVars, stage, grew>>
    BY <1>5 DEF BuildDominator, backVars
  <2>3. FlowInv'
    BY <1>1, <2>2, FlowStays
  <2>4. UNCHANGED <<phase, visited, succ, pred>>
    BY <2>2 DEF visitVars, graphVars
  <2>5. StageInv' /\ PrunedInv'
    BY <1>1, <2>2, <2>4 DEF StageInv, PrunedInv, Elements
  <2> QED BY <2>1, <2>2, <2>3, <2>5 DEF RunInv, ReachInv
<1>6. CASE BuildReachability
  <2>1. stage' = "backward"
    BY <1>6 DEF BuildReachability
  <2> QED BY <1>1, <1>6, <2>1, BuildReachabilityFacts DEF RunInv, PrunedInv
<1>7. CASE LaterStep
  <2>1. FlowInv' /\ StageInv' /\ DomInv' /\ IdomInv' /\ ReachInv'
    BY <1>1, <1>7, LaterStepKeeps
  <2>2. stage' # "dominators"
    BY <1>7 DEF LaterStep, BackwardsVisitLeaf, BackwardsVisitPred, BackwardsReturn, StartLinking, LinkLoop,
      BackwardsAgain, FinishBackwards, BuildPostDominator, StartFrontiers, ComputeDominanceFrontier,
      StartPostFrontiers, ComputePostDominanceFrontier, FinishRecompute
  <2> QED BY <2>1, <2>2 DEF RunInv, PrunedInv
<1> QED BY <1>2, <1>3, <1>4, <1>5, <1>6, <1>7 DEF RCNext, LaterStep

\* So does a step that leaves everything alone.
LEMMA RunStutter ==
  ASSUME RunInv, UNCHANGED vars
  PROVE  RunInv'
<1>1. UNCHANGED <<visitVars, stage, cursor, idom, reachability, grew>>
  BY DEF vars, analysisVars, backVars
<1>2. UNCHANGED <<phase, num_nodes, visited, post_order, succ, pred>>
  BY <1>1 DEF visitVars, graphVars
<1>3. FlowInv'
  BY <1>1, FlowStays DEF RunInv
<1>4. StageInv' /\ PrunedInv'
  <2>1. StageInv /\ PrunedInv
    BY DEF RunInv
  <2>2. StageInv'
    BY <1>1, <1>2, <2>1 DEF StageInv
  <2>3. PrunedInv'
    BY <1>1, <1>2, <2>1 DEF PrunedInv, Elements
  <2> QED BY <2>2, <2>3
<1>5. Nodes' = Nodes /\ Processed' = Processed /\ Numbers' = Numbers /\ Edges(succ)' = Edges(succ)
  BY <1>1, <1>2 DEF Nodes, Processed, Numbers, Order, Edges, Elements
<1>6. IdomInv'
  BY <1>1, <1>2, <1>5 DEF RunInv, IdomInv
<1>7. (Climbs => Climbs') /\ (Immediates => Immediates')
  BY <1>1, <1>2, <1>5 DEF Climbs, Immediates
<1>8. \A n \in visited : Order(n)' = Order(n)
  BY <1>2 DEF Order
<1>9. DomInv'
  <2>1. DomInv
    BY DEF RunInv
  <2> QED BY <1>1, <1>2, <1>5, <1>7, <1>8, <2>1 DEF DomInv
<1>10. ReachInv'
  BY <1>1, <1>2, <1>5 DEF RunInv, ReachInv
<1> QED BY <1>3, <1>4, <1>6, <1>9, <1>10 DEF RunInv

-----------------------------------------------------------------------------
(* The types of the other variables.                                       *)

\* A set of blocks per block in the pool.
BlockSets == [DOMAIN idom -> SUBSET Nodes]

\* The types, and that the loops of the passes start at the first block.
ShapeInv ==
  /\ cursor \in Nat
  /\ stage \in {"backward", "backward again", "frontiers", "post-frontiers"} => cursor > 0
  /\ reachability \in BlockSets
  /\ leaf_nodes \in Seq(Nodes)
  /\ bstack \in Seq(FrameType)
  /\ backward_visited \subseteq Nodes
  /\ border \in [DOMAIN idom -> Nat]
  /\ blist \in Seq(Nodes)
  /\ fake_succ \in [DOMAIN idom -> Seq(Nodes)]
  /\ revisit \in BOOLEAN /\ grew \in BOOLEAN
  /\ frontiers \in [dom : BlockSets, postdom : BlockSets]

\* The results are empty to begin with.
LEMMA ShapeInit == RCInit => ShapeInv
<1> SUFFICES ASSUME RCInit PROVE ShapeInv
  OBVIOUS
<1>1. AnalysisInit /\ num_nodes = NumBlocks
  BY DEF RCInit, CVInit, FunctionInit
<1>2. Nodes = Blocks
  BY <1>1 DEF Nodes, Blocks
<1>3. DOMAIN idom = Blocks
  BY <1>1 DEF AnalysisInit
<1>4. [n \in Blocks |-> {}] \in BlockSets
  BY <1>2, <1>3 DEF BlockSets
<1>5. << >> \in Seq(Nodes) /\ << >> \in Seq(FrameType)
  OBVIOUS
<1>6. [n \in Blocks |-> << >>] \in [DOMAIN idom -> Seq(Nodes)] /\ [n \in Blocks |-> 0] \in [DOMAIN idom -> Nat]
  BY <1>3, <1>5
<1>7. frontiers \in [dom : BlockSets, postdom : BlockSets]
  BY <1>1, <1>4 DEF AnalysisInit
<1> QED BY <1>1, <1>4, <1>5, <1>6, <1>7 DEF ShapeInv, AnalysisInit

\* The traversal leaves them alone, and more blocks do no harm.
LEMMA ShapeGrows ==
  ASSUME ShapeInv, Nodes \subseteq Nodes', UNCHANGED analysisVars
  PROVE  ShapeInv'
<1>1. UNCHANGED <<stage, cursor, idom, reachability, leaf_nodes, bstack, backward_visited, border, blist,
                  fake_succ, revisit, grew, frontiers>>
  BY DEF analysisVars, backVars
<1>2. \A s : (s \in Seq(Nodes) => s \in Seq(Nodes')) /\ (s \in Seq(FrameType) => s \in Seq(FrameType'))
  <2>1. FrameType \subseteq FrameType'
    BY DEF FrameType
  <2> QED BY <2>1, SeqInLarger
<1>3. BlockSets \subseteq BlockSets'
  BY <1>1 DEF BlockSets
<1>4. [DOMAIN idom -> Seq(Nodes)] \subseteq [DOMAIN idom -> Seq(Nodes')]
  BY <1>2
<1>5. frontiers \in [dom : BlockSets', postdom : BlockSets']
  BY <1>3 DEF ShapeInv
<1> QED BY <1>1, <1>2, <1>3, <1>4, <1>5 DEF ShapeInv

\* reset_traversal clears the results.
LEMMA ShapeRecompute ==
  ASSUME ShapeInv, IdomInv, RecomputeAll
  PROVE  ShapeInv'
<1>1. /\ Nodes' = Nodes /\ stage' = "visit" /\ cursor' = 0 /\ idom' = [n \in Nodes |-> Null]
      /\ reachability' = [n \in Nodes |-> {}]
      /\ leaf_nodes' = << >> /\ bstack' = << >> /\ backward_visited' = {}
      /\ border' = [n \in Nodes |-> IF n \in DOMAIN border THEN border[n] ELSE 0]
      /\ blist' = << >>
      /\ fake_succ' = [n \in Nodes |-> << >>]
      /\ revisit' = FALSE /\ grew' = FALSE
      /\ frontiers' = [dom     |-> Cleared(frontiers.dom, Nodes \ DOMAIN border),
                       postdom |-> Cleared(frontiers.postdom, Nodes \ DOMAIN border)]
  BY DEF RecomputeAll, Recompute, Nodes
<1>2. BlockSets' = [Nodes -> SUBSET Nodes]
  BY <1>1 DEF BlockSets
<1>3. DOMAIN border = DOMAIN idom /\ \A n \in DOMAIN border : border[n] \in Nat
  BY DEF ShapeInv
<1>4. border' \in [Nodes -> Nat]
  BY <1>1, <1>3
<1>5. /\ Cleared(frontiers.dom, Nodes \ DOMAIN border) \in [Nodes -> SUBSET Nodes]
      /\ Cleared(frontiers.postdom, Nodes \ DOMAIN border) \in [Nodes -> SUBSET Nodes]
  <2>1. /\ \A n \in DOMAIN border : frontiers.dom[n] \subseteq Nodes
        /\ \A n \in DOMAIN border : frontiers.postdom[n] \subseteq Nodes
    BY <1>3 DEF ShapeInv, BlockSets
  <2> QED BY <2>1 DEF Cleared
<1>6. frontiers' \in [dom : BlockSets', postdom : BlockSets']
  BY <1>1, <1>2, <1>5
<1>7. [n \in Nodes |-> << >>] \in [Nodes -> Seq(Nodes)] /\ << >> \in Seq(Nodes) /\ << >> \in Seq(FrameType')
  OBVIOUS
<1>8. reachability' \in BlockSets'
  BY <1>1, <1>2
<1> QED BY <1>1, <1>4, <1>6, <1>7, <1>8 DEF ShapeInv

\* The predecessors of a block, the fake ones included.
LEMMA PredsFacts ==
  ASSUME ListsInv, NEW n \in Nodes
  PROVE  Preds(n) \in Seq(Nodes)
<1>1. pred[n] \in Seq(Nodes) /\ fake_pred[n] \in Seq(Nodes)
  BY DEF ListsInv
<1> QED BY <1>1, ConcatFacts DEF Preds

\* The passes up to the backwards traversals.
LEMMA ShapeForward ==
  ASSUME RunInv, ShapeInv, PruneDeadPreds \/ BuildDominator \/ BuildReachability
  PROVE  ShapeInv'
<1>1. phase = "visited" /\ TypeInv /\ CallInv /\ DOMAIN idom = Nodes /\ IdomInv /\ visited \subseteq Nodes
  <2>1. phase = "visited"
    BY DEF PruneDeadPreds, BuildDominator, BuildReachability, RunInv, StageInv
  <2> QED BY <2>1 DEF RunInv, FlowInv, TypeInv, IdomInv
<1>2. Nodes' = Nodes
  BY DEF PruneDeadPreds, BuildDominator, BuildReachability, visitVars, graphVars, Nodes
<1>3. DOMAIN idom' = DOMAIN idom
  BY <1>1 DEF PruneDeadPreds, BuildDominator, BuildReachability
<1>4. BlockSets' = BlockSets /\ FrameType' = FrameType
  BY <1>2, <1>3 DEF BlockSets, FrameType
<1>5. CASE PruneDeadPreds
  <2>1. Len(post_order) \in Nat
    BY <1>1 DEF TypeInv
  <2> QED BY <1>2, <1>3, <1>4, <1>5, <2>1 DEF PruneDeadPreds, ShapeInv, backVars
<1>6. CASE BuildDominator
  <2>1. cursor' \in Nat
    BY <1>6 DEF BuildDominator, ShapeInv
  <2> QED BY <1>2, <1>3, <1>4, <1>6, <2>1 DEF BuildDominator, ShapeInv, backVars
<1>7. CASE BuildReachability
  <2>1. reachability' \in BlockSets
    <3>1. ReachInv'
      BY <1>7, BuildReachabilityFacts DEF RunInv
    <3>2. /\ reachability' = ReachabilityRows /\ stage' = "backward" /\ grew' = FALSE
          /\ UNCHANGED <<visited, succ>>
      BY <1>7 DEF BuildReachability, visitVars, graphVars
    <3>3. Edges(succ)' = Edges(succ)
      BY <3>2 DEF Edges, Elements
    <3>4. \A n \in visited : ReachabilityRows[n] = Reached(visited, Edges(succ), n)
      BY <3>1, <3>2, <3>3 DEF ReachInv
    <3>5. \A n \in Nodes \ visited : ReachabilityRows[n] = {}
      BY DEF ReachabilityRows
    <3>6. \A n \in visited : Reached(visited, Edges(succ), n) \subseteq visited
      BY ReachedFacts
    <3>7. \A n \in Nodes : ReachabilityRows[n] \subseteq Nodes
      BY <1>1, <3>4, <3>5, <3>6
    <3>8. ReachabilityRows = [n \in Nodes |-> ReachabilityRows[n]]
      BY DEF ReachabilityRows
    <3> QED BY <1>1, <3>2, <3>7, <3>8 DEF BlockSets
  <2>2. leaf_nodes' \in Seq(Nodes)
    <3>1. leaf_nodes' = EraseAll(post_order, {n \in Nodes : ~ IsLeaf(n)}) /\ post_order \in Seq(Nodes)
      BY <1>1, <1>7 DEF BuildReachability, TypeInv
    <3> QED BY <3>1, EraseAllFacts
  <2>3. /\ stage' = "backward" /\ cursor' = 1 /\ backward_visited' = {} /\ revisit' = FALSE /\ grew' = FALSE
        /\ UNCHANGED <<bstack, border, blist, fake_succ, frontiers>>
    BY <1>7 DEF BuildReachability
  <2>4. /\ bstack \in Seq(FrameType) /\ border \in [DOMAIN idom -> Nat] /\ blist \in Seq(Nodes)
        /\ fake_succ \in [DOMAIN idom -> Seq(Nodes)] /\ frontiers \in [dom : BlockSets, postdom : BlockSets]
    BY DEF ShapeInv
  <2>5. /\ cursor' \in Nat /\ cursor' > 0 /\ backward_visited' \subseteq Nodes
        /\ revisit' \in BOOLEAN /\ grew' \in BOOLEAN
    <3>1. cursor' \in Nat /\ cursor' > 0
      BY <2>3
    <3>2. revisit' \in BOOLEAN /\ grew' \in BOOLEAN
      BY <2>3, Zenon
    <3> QED BY <2>3, <3>1, <3>2
  <2> QED BY <1>2, <1>3, <1>4, <2>1, <2>2, <2>3, <2>4, <2>5 DEF ShapeInv
<1> QED BY <1>5, <1>6, <1>7

\* The backwards traversals.
LEMMA ShapeBackward ==
  ASSUME RunInv, ShapeInv, BackwardsVisitLeaf \/ BackwardsVisitPred \/ BackwardsReturn
  PROVE  ShapeInv'
<1>1. ListsInv /\ DOMAIN idom = Nodes
  <2>1. phase = "visited"
    BY DEF BackwardsVisitLeaf, BackwardsVisitPred, BackwardsReturn, RunInv, StageInv
  <2> QED BY <2>1 DEF RunInv, FlowInv, IdomInv
<1>2. UNCHANGED <<num_nodes, stage, idom, reachability, leaf_nodes, fake_succ, revisit, grew, frontiers>>
  BY DEF BackwardsVisitLeaf, BackwardsVisitPred, BackwardsReturn, visitVars, graphVars
<1>3. Nodes' = Nodes /\ BlockSets' = BlockSets /\ FrameType' = FrameType
  BY <1>2 DEF BlockSets, FrameType, Nodes
<1>4. \A n \in Nodes : Frame(n) \in FrameType
  BY DEF Frame, FrameType
<1>5. bstack # << >> => /\ Len(bstack) \in Nat \ {0} /\ BTop \in FrameType
                        /\ BTop.node \in Nodes /\ BTop.next \in Nat \ {0}
  <2>1. bstack \in Seq(FrameType)
    BY DEF ShapeInv
  <2>2. bstack # << >> => Len(bstack) \in Nat \ {0} /\ BTop \in FrameType
    BY <2>1 DEF BTop
  <2> QED BY <2>2 DEF FrameType
<1>6. CASE BackwardsVisitLeaf
  <2>1. leaf_nodes[cursor] \in Nodes /\ cursor + 1 \in Nat /\ cursor + 1 > 0
    <3>1. stage \in {"backward", "backward again"} /\ cursor <= Len(leaf_nodes)
      BY <1>6 DEF BackwardsVisitLeaf
    <3>2. leaf_nodes \in Seq(Nodes) /\ cursor \in Nat /\ cursor > 0
      BY <3>1 DEF ShapeInv
    <3>3. cursor \in 1 .. Len(leaf_nodes)
      <4>1. Len(leaf_nodes) \in Nat
        BY <3>2
      <4>2. cursor \in Nat /\ cursor > 0 /\ cursor <= Len(leaf_nodes)
        BY <3>1, <3>2
      <4>3. \A n \in Nat : cursor <= n => cursor \in 1 .. n
        BY <4>2
      <4> QED BY <4>1, <4>2, <4>3
    <3> QED BY <3>2, <3>3
  <2>2. bstack' \in Seq(FrameType)
    <3>1. PICK f : f = Frame(leaf_nodes[cursor])
      OBVIOUS
    <3>2. f \in FrameType
      BY <1>4, <2>1, <3>1
    <3>3. <<f>> \in Seq(FrameType)
      BY <3>2
    <3> QED BY <1>6, <3>1, <3>3 DEF BackwardsVisitLeaf
  <2>3. /\ backward_visited' = backward_visited \cup {leaf_nodes[cursor]}
        /\ cursor' = cursor + 1 /\ UNCHANGED <<border, blist>>
    BY <1>6 DEF BackwardsVisitLeaf
  <2> QED BY <1>2, <1>3, <2>1, <2>2, <2>3 DEF ShapeInv
<1>7. CASE BackwardsVisitPred
  <2>1. PICK p, advance : /\ p = Preds(BTop.node)[BTop.next]
                          /\ advance = [bstack EXCEPT ![Len(bstack)].next = @ + 1]
    OBVIOUS
  <2>2. bstack # << >> /\ BTop.next <= Len(Preds(BTop.node))
    BY <1>7 DEF BackwardsVisitPred, BMore
  <2>3. p \in Nodes
    <3>1. Preds(BTop.node) \in Seq(Nodes)
      BY <1>1, <1>5, <2>2, PredsFacts
    <3> QED BY <1>5, <2>1, <2>2, <3>1
  <2>4. advance \in Seq(FrameType)
    <3>0. bstack \in Seq(FrameType)
      BY DEF ShapeInv
    <3>1. bstack \in Seq(FrameType) /\ Len(bstack) \in DOMAIN bstack
      BY <1>5, <2>2, <3>0
    <3>2. bstack[Len(bstack)] \in FrameType
      BY <3>1
    <3>3. [bstack[Len(bstack)] EXCEPT !.next = @ + 1] \in FrameType
      BY <3>2 DEF FrameType
    <3>4. advance = [bstack EXCEPT ![Len(bstack)] = [bstack[Len(bstack)] EXCEPT !.next = @ + 1]]
      BY <2>1, <3>1
    <3> QED BY <3>1, <3>3, <3>4
  <2>5. \/ bstack' = advance /\ backward_visited' = backward_visited
        \/ bstack' = Append(advance, Frame(p)) /\ backward_visited' = backward_visited \cup {p}
    BY <1>7, <2>1 DEF BackwardsVisitPred
  <2>6. UNCHANGED <<cursor, border, blist>>
    BY <1>7 DEF BackwardsVisitPred
  <2>7. bstack' \in Seq(FrameType)
    <3>1. Frame(p) \in FrameType
      BY <1>4, <2>3
    <3>2. Append(advance, Frame(p)) \in Seq(FrameType)
      BY <2>4, <3>1
    <3> QED BY <2>4, <2>5, <3>2
  <2> QED BY <1>2, <1>3, <2>3, <2>5, <2>6, <2>7 DEF ShapeInv
<1>8. CASE BackwardsReturn
  <2>1. bstack # << >> /\ bstack' = SubSeq(bstack, 1, Len(bstack) - 1) /\ blist' = Append(blist, BTop.node)
        /\ border' = [border EXCEPT ![BTop.node] = Len(blist)]
        /\ UNCHANGED <<cursor, backward_visited>>
    BY <1>8 DEF BackwardsReturn
  <2>2. bstack' \in Seq(FrameType)
    <3>1. bstack \in Seq(FrameType)
      BY DEF ShapeInv
    <3> QED BY <1>5, <2>1, <3>1
  <2>3. blist' \in Seq(Nodes) /\ Len(blist) \in Nat
    <3>1. blist \in Seq(Nodes)
      BY DEF ShapeInv
    <3>2. BTop.node \in Nodes
      BY <1>5, <2>1
    <3> QED BY <2>1, <3>1, <3>2
  <2>4. border' \in [DOMAIN idom -> Nat]
    BY <2>1, <2>3 DEF ShapeInv
  <2> QED BY <1>2, <1>3, <2>1, <2>2, <2>3, <2>4 DEF ShapeInv
<1> QED BY <1>6, <1>7, <1>8

\* What later steps keep but for those that say otherwise.
LEMMA ShapeKept ==
  ASSUME ShapeInv, UNCHANGED <<num_nodes, idom, reachability, leaf_nodes, bstack, grew>>,
         cursor' \in Nat,
         stage' \in {"backward", "backward again", "frontiers", "post-frontiers"} => cursor' > 0,
         backward_visited' \subseteq Nodes, border' \in [DOMAIN idom -> Nat], blist' \in Seq(Nodes),
         fake_succ' \in [DOMAIN idom -> Seq(Nodes)], revisit' \in BOOLEAN,
         frontiers' \in [dom : BlockSets, postdom : BlockSets]
  PROVE  ShapeInv'
<1>1. Nodes' = Nodes /\ BlockSets' = BlockSets /\ FrameType' = FrameType
  BY DEF BlockSets, FrameType, Nodes
<1>2. reachability \in BlockSets /\ leaf_nodes \in Seq(Nodes) /\ bstack \in Seq(FrameType)
  BY DEF ShapeInv
<1>3. grew' \in BOOLEAN
  BY DEF ShapeInv
<1> QED BY <1>1, <1>2, <1>3 DEF ShapeInv

\* Linking the loops.
LEMMA ShapeLink ==
  ASSUME RunInv, ShapeInv, LinkLoop
  PROVE  ShapeInv'
<1>1. /\ stage = "link" /\ UnreachedHeaders # {} /\ stage' = stage /\ revisit' = TRUE
      /\ UNCHANGED <<num_nodes, idom, reachability, leaf_nodes, bstack, border, blist, frontiers>>
  BY DEF LinkLoop
<1>2. PICK i, h, l : i = LinkIndex /\ h = LinkHeader /\ l = LinkLatch
  OBVIOUS
<1>3. \E fake \in {LinkTargets(h) \ (TrueTargets(h) \cup Elements(succ[l]))} :
        /\ fake_succ' = [fake_succ EXCEPT ![l] = @ \o ByFallingOrder(fake \ Elements(fake_succ[l]))]
        /\ \/ backward_visited' = backward_visited \cup {l}
           \/ backward_visited' = backward_visited
        /\ cursor' = i - 1
  BY <1>2, Zenon DEF LinkLoop, LinkIndex, LinkHeader, LinkLatch
<1>4. PICK fake :
        /\ fake \subseteq LinkTargets(h)
        /\ fake_succ' = [fake_succ EXCEPT ![l] = @ \o ByFallingOrder(fake)]
        /\ \/ backward_visited' = backward_visited \cup {l}
           \/ backward_visited' = backward_visited
        /\ cursor' = i - 1
  <2>1. PICK f : /\ f = LinkTargets(h) \ (TrueTargets(h) \cup Elements(succ[l]))
                 /\ fake_succ' = [fake_succ EXCEPT ![l] = @ \o ByFallingOrder(f \ Elements(fake_succ[l]))]
                 /\ \/ backward_visited' = backward_visited \cup {l}
                    \/ backward_visited' = backward_visited
                 /\ cursor' = i - 1
    BY <1>3
  <2>2. f \ Elements(fake_succ[l]) \subseteq LinkTargets(h)
    BY <2>1
  <2> QED BY <2>1, <2>2
<1>5. /\ i \in 1 .. Len(post_order) /\ l \in visited
      /\ LoopExits(h) \subseteq visited \ {entry_block}
      /\ LinkTargets(h) \subseteq LoopExits(h)
  BY <1>1, <1>2, LinkFacts DEF RunInv
<1>6. phase = "visited" /\ TypeInv /\ CallInv /\ DOMAIN idom = Nodes
  BY <1>1 DEF RunInv, StageInv, FlowInv, IdomInv
<1>7. visited = Elements(post_order) /\ visited \subseteq Nodes /\ post_order \in Seq(Nodes) /\ Distinct(post_order)
  BY <1>6, AllReturned DEF TypeInv, CallInv
<1>8. ByFallingOrder(fake) \in Seq(Nodes)
  <2>1. fake \subseteq Elements(post_order)
    BY <1>4, <1>5, <1>7
  <2> QED BY <1>7, <2>1, FallingFacts
<1>9. fake_succ \in [Nodes -> Seq(Nodes)] /\ backward_visited \subseteq Nodes
      /\ border \in [DOMAIN idom -> Nat] /\ blist \in Seq(Nodes)
      /\ frontiers \in [dom : BlockSets, postdom : BlockSets]
  BY <1>6 DEF ShapeInv
<1>10. fake_succ' \in [DOMAIN idom -> Seq(Nodes)]
  <2>1. l \in Nodes /\ fake_succ[l] \in Seq(Nodes)
    BY <1>5, <1>7, <1>9
  <2>2. fake_succ[l] \o ByFallingOrder(fake) \in Seq(Nodes)
    BY <1>8, <2>1, ConcatFacts
  <2> QED BY <1>4, <1>6, <1>9, <2>2
<1>11. cursor' \in Nat
  <2>1. i \in Nat /\ i > 0
    BY <1>5
  <2> QED BY <1>4, <2>1
<1>12. backward_visited' \subseteq Nodes
  BY <1>4, <1>5, <1>7, <1>9
<1>13. grew' \in BOOLEAN
  <2>1. \E real : grew' = (grew \/ real # {})
    BY Zenon DEF LinkLoop
  <2>2. grew \in BOOLEAN
    BY DEF ShapeInv
  <2> QED BY <2>1, <2>2
<1>14. Nodes' = Nodes /\ BlockSets' = BlockSets /\ FrameType' = FrameType
  BY <1>1 DEF BlockSets, FrameType, Nodes
<1>15. reachability \in BlockSets /\ leaf_nodes \in Seq(Nodes) /\ bstack \in Seq(FrameType)
  BY DEF ShapeInv
<1>16. revisit' \in BOOLEAN
  BY <1>1
<1> QED BY <1>1, <1>9, <1>10, <1>11, <1>12, <1>13, <1>14, <1>15, <1>16 DEF ShapeInv

\* The second backwards traversal and the post-dominators.
LEMMA ShapePost ==
  ASSUME RunInv, ShapeInv,
         StartLinking \/ BackwardsAgain \/ FinishBackwards \/ BuildPostDominator \/ FinishRecompute
  PROVE  ShapeInv'
<1>1. phase = "visited" /\ post_order \in Seq(Nodes)
  BY DEF StartLinking, BackwardsAgain, FinishBackwards, BuildPostDominator, FinishRecompute, RunInv,
    StageInv, FlowInv, TypeInv
<1>2. UNCHANGED <<num_nodes, idom, reachability, leaf_nodes, bstack, blist, fake_succ, revisit, grew, frontiers>>
  BY DEF StartLinking, BackwardsAgain, FinishBackwards, BuildPostDominator, FinishRecompute, visitVars,
    graphVars, backVars
<1>3. /\ backward_visited \subseteq Nodes /\ border \in [DOMAIN idom -> Nat] /\ blist \in Seq(Nodes)
      /\ fake_succ \in [DOMAIN idom -> Seq(Nodes)]
      /\ frontiers \in [dom : BlockSets, postdom : BlockSets] /\ cursor \in Nat
  BY DEF ShapeInv
<1>4. revisit' \in BOOLEAN
  BY <1>2 DEF ShapeInv
<1>5. Len(post_order) \in Nat /\ Len(blist) \in Nat
  BY <1>1, <1>3
<1>6. backward_visited' \subseteq Nodes
  <2>1. backward_visited' = backward_visited \/ backward_visited' = {}
    BY DEF StartLinking, BackwardsAgain, FinishBackwards, BuildPostDominator, FinishRecompute, backVars
  <2> QED BY <1>3, <2>1
<1>7. border' \in [DOMAIN idom -> Nat]
  <2>1. DOMAIN idom = Nodes
    BY <1>1 DEF RunInv, IdomInv
  <2>2. border' = border \/ border' = [n \in Nodes |-> IF n \in visited THEN 0 ELSE border[n]]
    BY DEF StartLinking, BackwardsAgain, FinishBackwards, BuildPostDominator, FinishRecompute, backVars
  <2>3. border \in [Nodes -> Nat]
    BY <1>3, <2>1
  <2>4. \A n \in Nodes : (IF n \in visited THEN 0 ELSE border[n]) \in Nat
    BY <2>3
  <2>5. [n \in Nodes |-> IF n \in visited THEN 0 ELSE border[n]] \in [Nodes -> Nat]
    BY <2>4
  <2> QED BY <2>1, <2>2, <2>3, <2>5
<1>8. cursor' \in Nat /\ (stage' \in {"backward", "backward again", "frontiers", "post-frontiers"} => cursor' > 0)
  <2>1. CASE StartLinking
    BY <1>5, <2>1 DEF StartLinking
  <2>2. CASE BackwardsAgain
    <3>1. cursor' = 1
      BY <2>2 DEF BackwardsAgain
    <3> QED BY <3>1
  <2>3. CASE FinishBackwards
    BY <1>5, <2>3 DEF FinishBackwards
  <2>4. CASE BuildPostDominator
    <3>1. cursor > 0 /\ cursor' = cursor - 1 /\ stage' \in {"post-dominators", "no post-dominator"}
      BY <2>4 DEF BuildPostDominator
    <3>2. cursor' \in Nat
      <4>1. cursor \in Nat
        BY DEF ShapeInv
      <4>2. cursor > 0 /\ cursor' = cursor - 1
        BY <3>1
      <4>3. cursor - 1 \in Nat
        BY <4>1, <4>2
      <4> QED BY <4>2, <4>3
    <3> QED BY <3>1, <3>2
  <2>5. CASE FinishRecompute
    BY <1>3, <2>5 DEF FinishRecompute
  <2> QED BY <2>1, <2>2, <2>3, <2>4, <2>5
<1> QED BY <1>2, <1>3, <1>4, <1>6, <1>7, <1>8, ShapeKept

\* What is passed on is among the blocks.
LEMMA PassOnFacts ==
  ASSUME DOMAIN idom = Nodes, NEW frontier \in BlockSets, NEW n, NEW m,
         NEW own \in SUBSET Nodes, NEW passed \in SUBSET own
  PROVE  PassOn(frontier, n, own, m, passed) \in BlockSets
BY DEF PassOn, BlockSets

\* The frontiers.
LEMMA ShapeFrontiers ==
  ASSUME RunInv, ShapeInv,
         StartFrontiers \/ ComputeDominanceFrontier \/ StartPostFrontiers \/ ComputePostDominanceFrontier
  PROVE  ShapeInv'
<1>1. phase = "visited" /\ TypeInv /\ ListsInv /\ DOMAIN idom = Nodes
  <2>1. phase = "visited"
    BY DEF StartFrontiers, ComputeDominanceFrontier, StartPostFrontiers, ComputePostDominanceFrontier, RunInv,
      StageInv
  <2> QED BY <2>1 DEF RunInv, FlowInv, IdomInv
<1>2. UNCHANGED <<num_nodes, idom, reachability, leaf_nodes, bstack, blist, fake_succ, revisit, grew,
                  backward_visited, border>>
  BY DEF StartFrontiers, ComputeDominanceFrontier, StartPostFrontiers, ComputePostDominanceFrontier, visitVars,
    graphVars, backVars
<1>3. /\ backward_visited \subseteq Nodes /\ border \in [DOMAIN idom -> Nat] /\ blist \in Seq(Nodes)
      /\ fake_succ \in [DOMAIN idom -> Seq(Nodes)] /\ cursor \in Nat
      /\ stage \in {"frontiers", "post-frontiers"} => cursor > 0
  BY DEF ShapeInv
<1>4. frontiers \in [dom : BlockSets, postdom : BlockSets]
  BY DEF ShapeInv
<1>5. revisit' \in BOOLEAN
  BY <1>2 DEF ShapeInv
<1>6. \A n \in Nodes : Elements(succ[n]) \subseteq Nodes /\ Elements(pred[n]) \subseteq Nodes
  <2> SUFFICES ASSUME NEW n \in Nodes PROVE Elements(succ[n]) \subseteq Nodes /\ Elements(pred[n]) \subseteq Nodes
    OBVIOUS
  <2>1. succ[n] \in Seq(Nodes) /\ pred[n] \in Seq(Nodes)
    BY <1>1 DEF TypeInv, ListsInv
  <2> QED BY <2>1 DEF Elements
<1>7. cursor' \in Nat /\ cursor' > 0
  <2>1. cursor' = 1 \/ cursor' = cursor + 1
    BY DEF StartFrontiers, ComputeDominanceFrontier, StartPostFrontiers, ComputePostDominanceFrontier
  <2> QED BY <1>3, <2>1
<1>8. \A F \in BlockSets : \A S : Cleared(F, S) \in BlockSets
  BY <1>1 DEF Cleared, BlockSets
<1>9. frontiers' \in [dom : BlockSets, postdom : BlockSets]
  <2>1. CASE StartFrontiers
    <3>1. frontiers' = [frontiers EXCEPT !.dom = Cleared(@, visited)]
      BY <2>1 DEF StartFrontiers
    <3> QED BY <1>4, <1>8, <3>1
  <2>2. CASE StartPostFrontiers
    <3>1. frontiers' = [frontiers EXCEPT !.postdom = Cleared(@, Elements(blist))]
      BY <2>2 DEF StartPostFrontiers
    <3> QED BY <1>4, <1>8, <3>1
  <2>3. CASE ComputeDominanceFrontier
    <3>1. PICK n, own, m, passed :
            /\ n = post_order[cursor] /\ own = frontiers.dom[n] \cup {s \in Elements(succ[n]) : idom[s] # n}
            /\ m = idom[n] /\ passed = Inherited(n, own)
      OBVIOUS
    <3>2. /\ cursor <= Len(post_order) /\ stage = "frontiers"
          /\ frontiers' = [frontiers EXCEPT !.dom = PassOn(@, n, own, m, passed)]
      BY <2>3, <3>1 DEF ComputeDominanceFrontier
    <3>3. n \in Nodes
      <4>1. post_order \in Seq(Nodes) /\ cursor \in Nat /\ cursor > 0
        BY <1>1, <1>3, <3>2 DEF TypeInv
      <4> QED BY <3>1, <3>2, <4>1
    <3>4. own \in SUBSET Nodes
      BY <1>1, <1>4, <1>6, <3>1, <3>3 DEF BlockSets
    <3>5. passed \in SUBSET own
      BY <3>1 DEF Inherited
    <3>6. PassOn(frontiers.dom, n, own, m, passed) \in BlockSets
      BY <1>1, <1>4, <3>4, <3>5, PassOnFacts
    <3> QED BY <1>4, <3>2, <3>6
  <2>4. CASE ComputePostDominanceFrontier
    <3>1. PICK n, own, m, passed :
            /\ n = blist[cursor] /\ own = frontiers.postdom[n] \cup {p \in Elements(pred[n]) : ipdom[p] # n}
            /\ m = ipdom[n] /\ passed = PostInherited(n, own)
      OBVIOUS
    <3>2. /\ cursor <= Len(blist) /\ stage = "post-frontiers"
          /\ frontiers' = [frontiers EXCEPT !.postdom = PassOn(@, n, own, m, passed)]
      BY <2>4, <3>1 DEF ComputePostDominanceFrontier
    <3>3. n \in Nodes
      <4>1. blist \in Seq(Nodes) /\ cursor \in Nat /\ cursor > 0
        BY <1>3, <3>2
      <4> QED BY <3>1, <3>2, <4>1
    <3>4. own \in SUBSET Nodes
      BY <1>1, <1>4, <1>6, <3>1, <3>3 DEF BlockSets
    <3>5. passed \in SUBSET own
      BY <3>1 DEF PostInherited
    <3>6. PassOn(frontiers.postdom, n, own, m, passed) \in BlockSets
      BY <1>1, <1>4, <3>4, <3>5, PassOnFacts
    <3> QED BY <1>4, <3>2, <3>6
  <2> QED BY <2>1, <2>2, <2>3, <2>4
<1> QED BY <1>2, <1>3, <1>5, <1>7, <1>9, ShapeKept

\* Every step keeps the types.
LEMMA ShapeStep ==
  ASSUME RunInv, ShapeInv, RCNext
  PROVE  ShapeInv'
<1>1. CASE Traverse
  BY <1>1, PoolGrows, ShapeGrows DEF RunInv
<1>2. CASE RecomputeAll
  BY <1>2, ShapeRecompute DEF RunInv
<1> QED BY <1>1, <1>2, ShapeForward, ShapeBackward, ShapeLink, ShapePost, ShapeFrontiers DEF RCNext

-----------------------------------------------------------------------------
(* The dominance frontiers, block by block.                                *)

\* What the blocks with lower numbers than c pass on to n.
PassedUpTo(V, E, o, d, c, n) ==
  UNION {EndsAbove(V, E, k, n) : k \in {x \in V : x # n /\ d[x] = n /\ o[x] < c}}

\* The frontiers F when the blocks with lower numbers than c were passed.
Fronts(V, E, o, d, c, F) ==
  \A n \in V : F[n] = IF o[n] < c THEN Ends(V, E, n) ELSE PassedUpTo(V, E, o, d, c, n)

\* Block n completes its frontier and passes on what its immediate dominator does not
\* dominate, the entry block whatever it likes of its own.
Passes(V, E, d, n, F, own, passed, G) ==
  /\ own = F[n] \cup {s \in V : <<n, s>> \in E /\ d[s] # n}
  /\ passed \subseteq own
  /\ n # entry_block /\ (\E s \in V : <<n, s>> \in E) => passed = {f \in own : ~ Dom(V, E, d[n], f)}
  /\ \A q \in V : G[q] = (IF q = n THEN own ELSE F[q]) \cup (IF q = d[n] THEN passed ELSE {})

\* recompute_dominance_frontier completes the frontier of its block and passes on
\* what the immediate dominator does not dominate.
LEMMA FrontStep ==
  ASSUME NEW V, NEW E, NEW o, NEW k, Descending(V, E, o, k), NEW d, Immediate(V, E, o, d, V),
         NEW n \in V, NEW F, Fronts(V, E, o, d, o[n], F),
         NEW own, NEW passed, NEW G, Passes(V, E, d, n, F, own, passed, G)
  PROVE  Fronts(V, E, o, d, o[n] + 1, G) /\ own = Ends(V, E, n)
<1>0. /\ own = F[n] \cup {s \in V : <<n, s>> \in E /\ d[s] # n}
      /\ passed \subseteq own
      /\ n # entry_block /\ (\E s \in V : <<n, s>> \in E) => passed = {f \in own : ~ Dom(V, E, d[n], f)}
      /\ \A q \in V : G[q] = (IF q = n THEN own ELSE F[q]) \cup (IF q = d[n] THEN passed ELSE {})
  BY DEF Passes
<1>1. /\ \A m \in V : o[m] \in Nat
      /\ \A l, m \in V : o[l] = o[m] => l = m
      /\ \A m \in V : \A x : <<m, x>> \in E => x \in V
  BY DEF Descending
<1>2. \A m \in V : d[m] \in V /\ (m = entry_block => d[m] = m) /\ (m # entry_block => o[m] < o[d[m]])
  BY DEF Immediate
<1>3. \A x \in V : x # n /\ d[x] = n => o[x] < o[n]
  BY <1>2
<1>4. PassedUpTo(V, E, o, d, o[n], n) = UNION {EndsAbove(V, E, c, n) : c \in {x \in V : x # n /\ d[x] = n}}
  <2>1. {x \in V : x # n /\ d[x] = n /\ o[x] < o[n]} = {x \in V : x # n /\ d[x] = n}
    BY <1>3
  <2> QED BY <2>1 DEF PassedUpTo
<1>5. F[n] = PassedUpTo(V, E, o, d, o[n], n)
  <2>1. ~ (o[n] < o[n])
    BY <1>1
  <2> QED BY <2>1 DEF Fronts
<1>6. own = Ends(V, E, n)
  <2>1. Ends(V, E, n) = {s \in V : <<n, s>> \in E /\ d[s] # n}
                           \cup UNION {EndsAbove(V, E, c, n) : c \in {x \in V : x # n /\ d[x] = n}}
    BY EndsEquation
  <2> QED BY <1>0, <1>4, <1>5, <2>1
<1>7. n # entry_block => passed = EndsAbove(V, E, n, d[n])
  <2> SUFFICES ASSUME n # entry_block PROVE passed = EndsAbove(V, E, n, d[n])
    OBVIOUS
  <2>1. CASE \E s \in V : <<n, s>> \in E
    BY <1>0, <1>6, <2>1 DEF EndsAbove
  <2>2. CASE ~ \E s \in V : <<n, s>> \in E
    <3>1. \A p \in V : Dom(V, E, n, p) => p = n
      BY <2>2, DomOfLeaf
    <3>2. Ends(V, E, n) = {}
      BY <1>1, <2>2, <3>1 DEF Ends
    <3> QED BY <1>0, <1>6, <3>2 DEF EndsAbove
  <2> QED BY <2>1, <2>2
<1>8. ASSUME NEW q \in V
      PROVE  G[q] = IF o[q] < o[n] + 1 THEN Ends(V, E, q) ELSE PassedUpTo(V, E, o, d, o[n] + 1, q)
  <2>1. G[q] = (IF q = n THEN own ELSE F[q]) \cup (IF q = d[n] THEN passed ELSE {})
    BY <1>0, <1>8
  <2>2. F[q] = IF o[q] < o[n] THEN Ends(V, E, q) ELSE PassedUpTo(V, E, o, d, o[n], q)
    BY <1>8 DEF Fronts
  <2>3. o[q] \in Nat /\ o[n] \in Nat /\ (o[q] = o[n] => q = n)
    BY <1>1, <1>8
  <2>4. CASE q = n
    <3>1. G[q] = own
      BY <1>0, <2>1, <2>4
    <3>2. o[q] < o[n] + 1
      BY <2>3, <2>4
    <3> QED BY <1>6, <2>4, <3>1, <3>2
  <2>5. CASE q # n /\ q = d[n]
    <3>1. n # entry_block /\ o[n] < o[q]
      BY <1>2, <2>5
    <3>2. ~ (o[q] < o[n]) /\ ~ (o[q] < o[n] + 1)
      BY <2>3, <3>1
    <3>3. G[q] = PassedUpTo(V, E, o, d, o[n], q) \cup EndsAbove(V, E, n, q)
      BY <1>7, <2>1, <2>2, <2>5, <3>1, <3>2
    <3>4. {x \in V : x # q /\ d[x] = q /\ o[x] < o[n] + 1}
            = {x \in V : x # q /\ d[x] = q /\ o[x] < o[n]} \cup {n}
      <4>1. \A x \in V : o[x] < o[n] + 1 <=> o[x] < o[n] \/ x = n
        BY <1>1
      <4> QED BY <2>5, <4>1
    <3>5. PassedUpTo(V, E, o, d, o[n] + 1, q) = PassedUpTo(V, E, o, d, o[n], q) \cup EndsAbove(V, E, n, q)
      BY <3>4 DEF PassedUpTo
    <3> QED BY <3>2, <3>3, <3>5
  <2>6. CASE q # n /\ q # d[n]
    <3>1. G[q] = F[q] /\ (o[q] < o[n] + 1 <=> o[q] < o[n])
      BY <2>1, <2>3, <2>6
    <3>2. {x \in V : x # q /\ d[x] = q /\ o[x] < o[n] + 1} = {x \in V : x # q /\ d[x] = q /\ o[x] < o[n]}
      <4>1. \A x \in V : o[x] < o[n] + 1 <=> o[x] < o[n] \/ x = n
        BY <1>1
      <4> QED BY <2>6, <4>1
    <3>3. PassedUpTo(V, E, o, d, o[n] + 1, q) = PassedUpTo(V, E, o, d, o[n], q)
      BY <3>2 DEF PassedUpTo
    <3> QED BY <2>2, <3>1, <3>3
  <2> QED BY <2>4, <2>5, <2>6
<1>9. Fronts(V, E, o, d, o[n] + 1, G)
  BY <1>8 DEF Fronts
<1> QED BY <1>6, <1>9

\* Before the first block nothing was passed on.
LEMMA FrontStart ==
  ASSUME NEW V, NEW E, NEW o, NEW k, Descending(V, E, o, k), NEW d, NEW F, \A n \in V : F[n] = {}
  PROVE  Fronts(V, E, o, d, 1, F)
<1>1. \A n \in V : ~ (o[n] < 1)
  BY DEF Descending
<1>2. \A n \in V : PassedUpTo(V, E, o, d, 1, n) = {}
  <2> SUFFICES ASSUME NEW n \in V PROVE PassedUpTo(V, E, o, d, 1, n) = {}
    OBVIOUS
  <2>1. {x \in V : x # n /\ d[x] = n /\ o[x] < 1} = {}
    BY <1>1
  <2> QED BY <2>1 DEF PassedUpTo
<1> QED BY <1>1, <1>2 DEF Fronts

\* After the last block all frontiers are complete.
LEMMA FrontEnd ==
  ASSUME NEW V, NEW E, NEW o, NEW k, Descending(V, E, o, k), NEW d, NEW F, NEW c \in Nat, c > k,
         Fronts(V, E, o, d, c, F)
  PROVE  \A n \in V : F[n] = Ends(V, E, n)
<1>1. k \in Nat /\ \A n \in V : o[n] \in 1 .. k
  BY DEF Descending
<1>2. \A n \in V : o[n] < c
  BY <1>1
<1> QED BY <1>2 DEF Fronts

\* The dominance frontiers that are known while the run has added no branch.
FrontInv ==
  ~ grew =>
    /\ stage = "frontiers" => Fronts(visited, Edges(succ), Numbers, idom, cursor, frontiers.dom)
    /\ stage \in {"post-frontiers", "done"} =>
         \A n \in visited : frontiers.dom[n] = Ends(visited, Edges(succ), n)

\* After build_immediate_dominators the dominators of all visited blocks are known.
LEMMA DominatorsKnown ==
  ASSUME RunInv, stage \notin {"visit", "dominators"}, ~ grew
  PROVE  /\ phase = "visited" /\ Descends /\ Climbs /\ Immediates /\ Processed = visited
         /\ Immediate(visited, Edges(succ), Numbers, idom, visited)
         /\ TypeInv /\ CallInv /\ visited = Elements(post_order) /\ visited \subseteq Nodes
         /\ idom \in [Nodes -> Nodes \cup {Null}] /\ Null \notin Nodes
<1>1. FlowInv /\ StageInv /\ DomInv /\ IdomInv
  BY DEF RunInv
<1>2. phase = "visited"
  BY <1>1 DEF StageInv
<1>3. VisitInv /\ TreeInv /\ EntryInv /\ TypeInv /\ CallInv /\ ListsInv
  BY <1>1, <1>2 DEF FlowInv
<1>4. Descends
  BY <1>2, <1>3, DescendFacts
<1>5. Climbs /\ Immediates /\ Processed = visited
  BY <1>1 DEF DomInv
<1>6. Immediate(visited, Edges(succ), Numbers, idom, visited)
  BY <1>5 DEF Immediates
<1>7. visited = Elements(post_order) /\ visited \subseteq Nodes /\ Null \notin Nodes
  BY <1>2, <1>3, AllReturned, BlocksAreNodes DEF TypeInv, ListsInv
<1>8. idom \in [Nodes -> Nodes \cup {Null}]
  BY <1>1, <1>2 DEF IdomInv
<1> QED BY <1>2, <1>3, <1>4, <1>5, <1>6, <1>7, <1>8

\* One block of the loop of compute_dominance_frontier.
LEMMA FrontierOfBlock ==
  ASSUME RunInv, ShapeInv, FrontInv, ~ grew, ComputeDominanceFrontier
  PROVE  Fronts(visited, Edges(succ), Numbers, idom, cursor + 1, frontiers'.dom)
<1>1. PICK n, own, m, passed :
        /\ n = post_order[cursor] /\ own = frontiers.dom[n] \cup {s \in Elements(succ[n]) : idom[s] # n}
        /\ m = idom[n] /\ passed = Inherited(n, own)
  OBVIOUS
<1>2. /\ stage = "frontiers" /\ cursor <= Len(post_order)
      /\ frontiers' = [frontiers EXCEPT !.dom = PassOn(@, n, own, m, passed)]
  BY <1>1 DEF ComputeDominanceFrontier
<1>3. /\ Descends /\ Climbs /\ Immediates /\ Processed = visited
      /\ Immediate(visited, Edges(succ), Numbers, idom, visited)
      /\ TypeInv /\ CallInv /\ visited = Elements(post_order) /\ visited \subseteq Nodes
      /\ idom \in [Nodes -> Nodes \cup {Null}] /\ Null \notin Nodes
  BY <1>2, DominatorsKnown
<1>4. Fronts(visited, Edges(succ), Numbers, idom, cursor, frontiers.dom)
  BY <1>2 DEF FrontInv
<1>5. frontiers \in [dom : BlockSets, postdom : BlockSets]
  BY DEF ShapeInv
<1>6. frontiers'.dom = PassOn(frontiers.dom, n, own, m, passed)
  BY <1>2, <1>5
<1>7. post_order \in Seq(Nodes) /\ Distinct(post_order) /\ succ \in [Nodes -> Seq(Nodes)]
  BY <1>3 DEF TypeInv, CallInv
<1>8. cursor \in 1 .. Len(post_order)
  <2>1. cursor \in Nat /\ cursor > 0
    BY <1>2 DEF ShapeInv
  <2>2. Len(post_order) \in Nat /\ cursor <= Len(post_order)
    BY <1>2, <1>7
  <2>3. \A k \in Nat : cursor <= k => cursor \in 1 .. k
    BY <2>1
  <2> QED BY <2>2, <2>3
<1>9. n \in visited /\ Numbers[n] = cursor
  <2>1. post_order[cursor] \in Elements(post_order) /\ Order(post_order[cursor]) = cursor
    BY <1>7, <1>8, OrderFacts
  <2> QED BY <1>1, <1>3, <2>1 DEF Numbers
<1>10. \A a, b : <<a, b>> \in Edges(succ) <=> a \in Nodes /\ b \in Elements(succ[a])
  BY <1>7, EdgesAre
<1>11. \A s : s \in Elements(succ[n]) <=> s \in visited /\ <<n, s>> \in Edges(succ)
  <2>1. n \in Nodes
    BY <1>3, <1>9
  <2>2. Elements(succ[n]) \subseteq visited
    <3>1. phase = "visited" /\ FlowInv
      BY <1>2 DEF RunInv, StageInv
    <3> QED BY <1>9, <3>1 DEF FlowInv
  <2> QED BY <1>10, <2>1, <2>2
<1>12. own = frontiers.dom[n] \cup {s \in visited : <<n, s>> \in Edges(succ) /\ idom[s] # n}
  BY <1>1, <1>11
<1>13. passed \in SUBSET own
  BY <1>1 DEF Inherited
<1>14. frontiers.dom[n] \subseteq visited
  <2>1. frontiers.dom[n] = PassedUpTo(visited, Edges(succ), Numbers, idom, cursor, n)
    <3>1. ~ (Numbers[n] < cursor)
      BY <1>8, <1>9
    <3> QED BY <1>4, <1>9, <3>1 DEF Fronts
  <2>2. \A k : EndsAbove(visited, Edges(succ), k, n) \subseteq visited
    BY DEF EndsAbove, Ends
  <2> QED BY <2>1, <2>2 DEF PassedUpTo
<1>15. own \subseteq visited
  BY <1>12, <1>14
<1>16. ASSUME n # entry_block, \E s \in visited : <<n, s>> \in Edges(succ)
       PROVE  passed = {f \in own : ~ Dom(visited, Edges(succ), idom[n], f)}
  <2>1. succ[n] # << >>
    <3>1. PICK s \in Elements(succ[n]) : TRUE
      BY <1>11, <1>16
    <3>2. n \in Nodes
      BY <1>3, <1>9
    <3>3. succ[n] \in Seq(Nodes)
      BY <1>7, <3>2
    <3> QED BY <3>1, <3>3, NoElements
  <2>2. passed = {f \in own : ~ Dominates(idom[n], f)}
    BY <1>1, <2>1 DEF Inherited
  <2>3. idom[n] \in visited
    BY <1>3, <1>9 DEF Immediate
  <2>4. PICK d : d = idom[n]
    OBVIOUS
  <2>5. \A f \in own : Dominates(d, f) <=> ForwardDom(d, f)
    <3>1. d \in visited /\ own \subseteq Processed
      BY <1>3, <1>15, <2>3, <2>4
    <3>2. ASSUME NEW f \in own PROVE Dominates(d, f) <=> ForwardDom(d, f)
      <4>1. f \in Processed
        BY <3>1
      <4> QED BY <1>3, <3>1, <4>1, DominatesIsDominance
    <3> QED BY <3>2
  <2> QED BY <2>2, <2>4, <2>5 DEF ForwardDom
<1>17. ASSUME NEW q \in visited
       PROVE  frontiers'.dom[q] = (IF q = n THEN own ELSE frontiers.dom[q]) \cup (IF q = idom[n] THEN passed ELSE {})
  BY <1>1, <1>3, <1>6, <1>17 DEF PassOn
<1>18. Descending(visited, Edges(succ), Numbers, Len(post_order))
  BY <1>3 DEF Descends
<1>19. PICK F, G, d, o, V, E : /\ F = frontiers.dom /\ G = frontiers'.dom /\ d = idom /\ o = Numbers
                               /\ V = visited /\ E = Edges(succ)
  OBVIOUS
<1>20. /\ Descending(V, E, o, Len(post_order)) /\ Immediate(V, E, o, d, V) /\ n \in V
       /\ Fronts(V, E, o, d, o[n], F)
       /\ Passes(V, E, d, n, F, own, passed, G)
  BY <1>3, <1>4, <1>9, <1>12, <1>13, <1>16, <1>17, <1>18, <1>19 DEF Passes
<1>21. Fronts(V, E, o, d, o[n] + 1, G)
  BY <1>20, FrontStep
<1> QED BY <1>9, <1>19, <1>21

\* The passes keep the frontiers.
LEMMA FrontInvStep ==
  ASSUME RunInv, ShapeInv, FrontInv, RCNext
  PROVE  FrontInv'
<1> SUFFICES ASSUME ~ grew' PROVE FrontInv'
  BY DEF FrontInv
<1>1. frontiers \in [dom : BlockSets, postdom : BlockSets]
  BY DEF ShapeInv
<1>2. CASE stage' \notin {"frontiers", "post-frontiers", "done"}
  BY <1>2 DEF FrontInv
<1>3. CASE stage' \in {"frontiers", "post-frontiers", "done"}
  <2>1. LaterStep /\ ~ LinkLoop
    <3>1. ~ Traverse
      <4>1. Traverse => stage' = "visit"
        BY PoolGrows DEF RunInv
      <4> QED BY <1>3, <4>1
    <3>2. ~ RecomputeAll /\ ~ PruneDeadPreds /\ ~ BuildDominator /\ ~ BuildReachability /\ ~ LinkLoop
      BY <1>3 DEF RecomputeAll, PruneDeadPreds, BuildDominator, BuildReachability, LinkLoop
    <3> QED BY <3>1, <3>2 DEF RCNext, LaterStep
  <2>2. stage \notin {"visit", "dominators"} /\ UNCHANGED <<visitVars, idom, reachability, grew>>
    BY <2>1, LaterStepFacts DEF RunInv
  <2>3. UNCHANGED <<num_nodes, succ, visited, post_order>> /\ ~ grew
    BY <2>2 DEF visitVars, graphVars
  <2>4. Numbers' = Numbers /\ Edges(succ)' = Edges(succ)
    BY <2>3 DEF Numbers, Order, Edges, Elements
  <2>5. /\ Descending(visited, Edges(succ), Numbers, Len(post_order)) /\ Len(post_order) \in Nat
        /\ DOMAIN idom = Nodes /\ visited \subseteq Nodes
    BY <2>2, <2>3, DominatorsKnown DEF Descends, Descending
  <2>6. CASE StartFrontiers
    <3>1. stage' = "frontiers" /\ cursor' = 1 /\ frontiers' = [frontiers EXCEPT !.dom = Cleared(@, visited)]
      BY <2>6 DEF StartFrontiers
    <3>2. frontiers'.dom = Cleared(frontiers.dom, visited)
      BY <1>1, <3>1
    <3>3. \A n \in visited : frontiers'.dom[n] = {}
      BY <2>5, <3>2 DEF Cleared
    <3>4. Fronts(visited, Edges(succ), Numbers, idom, 1, frontiers'.dom)
      BY <2>5, <3>3, FrontStart
    <3> QED BY <2>2, <2>3, <2>4, <3>1, <3>4 DEF FrontInv
  <2>7. CASE ComputeDominanceFrontier
    <3>1. stage = "frontiers" /\ stage' = stage /\ cursor' = cursor + 1
      BY <2>7 DEF ComputeDominanceFrontier
    <3>2. Fronts(visited, Edges(succ), Numbers, idom, cursor + 1, frontiers'.dom)
      BY <2>3, <2>7, FrontierOfBlock
    <3> QED BY <2>2, <2>3, <2>4, <3>1, <3>2 DEF FrontInv
  <2>8. CASE StartPostFrontiers
    <3>1. /\ stage = "frontiers" /\ stage' = "post-frontiers" /\ cursor > Len(post_order)
          /\ frontiers' = [frontiers EXCEPT !.postdom = Cleared(@, Elements(blist))]
      BY <2>8 DEF StartPostFrontiers
    <3>2. frontiers'.dom = frontiers.dom
      BY <1>1, <3>1
    <3>3. Fronts(visited, Edges(succ), Numbers, idom, cursor, frontiers.dom) /\ cursor \in Nat
      BY <2>3, <3>1 DEF FrontInv, ShapeInv
    <3>4. \A n \in visited : frontiers.dom[n] = Ends(visited, Edges(succ), n)
      BY <2>5, <3>1, <3>3, FrontEnd
    <3> QED BY <2>3, <2>4, <3>1, <3>2, <3>4 DEF FrontInv
  <2>9. CASE ComputePostDominanceFrontier \/ FinishRecompute
    <3>1. stage = "post-frontiers" /\ stage' \in {"post-frontiers", "done"}
      BY <2>9 DEF ComputePostDominanceFrontier, FinishRecompute
    <3>2. frontiers'.dom = frontiers.dom
      <4>1. CASE ComputePostDominanceFrontier
        <5>1. \E f : frontiers' = [frontiers EXCEPT !.postdom = f]
          BY <4>1 DEF ComputePostDominanceFrontier
        <5> QED BY <1>1, <5>1
      <4>2. CASE FinishRecompute
        BY <4>2 DEF FinishRecompute
      <4> QED BY <2>9, <4>1, <4>2
    <3>3. \A n \in visited : frontiers.dom[n] = Ends(visited, Edges(succ), n)
      BY <2>3, <3>1 DEF FrontInv
    <3> QED BY <2>3, <2>4, <3>1, <3>2, <3>3 DEF FrontInv
  <2>10. ASSUME BackwardsVisitLeaf \/ BackwardsVisitPred \/ BackwardsReturn \/ StartLinking \/ BackwardsAgain
                \/ FinishBackwards \/ BuildPostDominator
         PROVE  FALSE
    BY <1>3, <2>10 DEF BackwardsVisitLeaf, BackwardsVisitPred, BackwardsReturn, StartLinking, BackwardsAgain,
      FinishBackwards, BuildPostDominator
  <2> QED BY <2>1, <2>6, <2>7, <2>8, <2>9, <2>10 DEF LaterStep
<1> QED BY <1>2, <1>3

\* The invariant of recompute_cfg.
AnalysesInv == RunInv /\ ShapeInv /\ FrontInv

\* It holds before the first traversal.
LEMMA AnalysesInit == RCInit => AnalysesInv
<1>1. RCInit => stage = "visit"
  BY DEF RCInit, AnalysisInit
<1> QED BY <1>1, RunInit, ShapeInit DEF AnalysesInv, FrontInv

\* Every step of recompute_cfg keeps it.
LEMMA AnalysesStep == AnalysesInv /\ [RCNext]_vars => AnalysesInv'
<1>1. ASSUME AnalysesInv, RCNext PROVE AnalysesInv'
  BY <1>1, RunStep, ShapeStep, FrontInvStep DEF AnalysesInv
<1>2. ASSUME AnalysesInv, UNCHANGED vars PROVE AnalysesInv'
  <2>1. RunInv'
    BY <1>2, RunStutter DEF AnalysesInv
  <2>2. UNCHANGED analysisVars /\ UNCHANGED <<num_nodes, visited, post_order, succ>>
    BY <1>2 DEF vars, visitVars, graphVars
  <2>3. ShapeInv'
    <3>1. Nodes \subseteq Nodes'
      BY <2>2 DEF Nodes
    <3> QED BY <1>2, <2>2, <3>1, ShapeGrows DEF AnalysesInv
  <2>4. Numbers' = Numbers /\ Edges(succ)' = Edges(succ)
    BY <2>2 DEF Numbers, Order, Edges, Elements
  <2>5. UNCHANGED <<grew, stage, cursor, idom, frontiers>>
    BY <2>2 DEF analysisVars, backVars
  <2>6. FrontInv'
    BY <1>2, <2>2, <2>4, <2>5 DEF AnalysesInv, FrontInv
  <2> QED BY <2>1, <2>3, <2>6 DEF AnalysesInv
<1> QED BY <1>1, <1>2

\* The types.
LEMMA TypesProperty == AnalysesInv => RCTypeOK
<1> SUFFICES ASSUME AnalysesInv PROVE RCTypeOK
  OBVIOUS
<1>1. RunInv /\ ShapeInv /\ IdomInv /\ DomInv /\ StageInv
  BY DEF AnalysesInv, RunInv
<1>2. ASSUME stage \notin {"visit", "dominators"} PROVE \A n \in visited : idom[n] \in visited
  BY <1>1, <1>2, ClimbsFacts DEF DomInv
<1>3. idom \in [DOMAIN idom -> Nodes \cup {Null}]
  BY <1>1 DEF IdomInv
<1>4. reachability \in [DOMAIN idom -> SUBSET Nodes]
      /\ \A f \in {frontiers.dom, frontiers.postdom} : f \in [DOMAIN idom -> SUBSET Nodes]
  <2>1. frontiers \in [dom : BlockSets, postdom : BlockSets] /\ reachability \in BlockSets
    BY <1>1 DEF ShapeInv
  <2>2. frontiers.dom \in BlockSets /\ frontiers.postdom \in BlockSets
    BY <2>1
  <2> QED BY <2>1, <2>2 DEF BlockSets
<1>5. bstack \in Seq([node : Nodes, next : Nat \ {0}])
  BY <1>1 DEF ShapeInv, FrameType
<1> QED BY <1>1, <1>2, <1>3, <1>4, <1>5 DEF RCTypeOK, ShapeInv

\* dominates() is dominance by the forward branches when the run is over.
LEMMA DominatesForward ==
  ASSUME RunInv, stage = "done", ~ grew, NEW a \in visited, NEW b \in visited
  PROVE  Dominates(a, b) <=> ForwardDom(a, b)
BY DominatorsKnown, DominatesIsDominance

\* The dominators are those of the whole function if it is reducible.
LEMMA DominatorsProperty == AnalysesInv => DominatorsAreDominators
<1> SUFFICES ASSUME AnalysesInv, stage = "done", ~ grew, ReducibleGraph(visited, Branches), NEW a \in visited
             PROVE  {b \in visited : Dominates(a, b)} = OnlyThrough(visited, Branches, entry_block, a)
  BY DEF DominatorsAreDominators
<1>1. RunInv /\ FlowInv /\ StageInv
  BY DEF AnalysesInv, RunInv
<1>2. /\ phase = "visited" /\ Descending(visited, Edges(succ), Numbers, Len(post_order)) /\ TypeInv
      /\ visited \subseteq Nodes
  BY <1>1, DominatorsKnown DEF Descends
<1>3. TreeInv
  BY <1>1, <1>2 DEF FlowInv
<1>4. /\ Pairs(Edges(succ))
      /\ \A m, n : <<m, n>> \in Edges(succ) <=> m \in Nodes /\ n \in Elements(succ[m])
  BY <1>2, EdgesAre DEF TypeInv
<1>5. Pairs(Branches) /\ Edges(succ) \subseteq Branches
  BY <1>4 DEF Branches, Pairs
<1>6. ASSUME NEW l \in visited, NEW h \in visited, <<l, h>> \in Branches
      PROVE  <<l, h>> \in Edges(succ) \/ ClosesLoop(visited, Edges(succ), h, l)
  <2>1. CASE <<l, h>> \in Edges(succ)
    BY <2>1
  <2>2. CASE succ_back_edge[l] = h
    <3>1. CallsClose(h, l)
      BY <1>2, <1>3, <2>2 DEF TreeInv
    <3>2. PICK S \in SUBSET visited : h \in S /\ l \in S /\ \A x \in S : x # l => \E y \in S : Calls(x, y)
      BY <3>1 DEF CallsClose
    <3>3. \A x \in S : x # l => \E y \in S : <<x, y>> \in Edges(succ)
      BY <1>2, <1>4, <3>2 DEF Calls
    <3>4. ClosesLoop(visited, Edges(succ), h, l)
      BY <3>2, <3>3 DEF ClosesLoop
    <3> QED BY <3>4
  <2>3. <<l, h>> \in Edges(succ) \/ succ_back_edge[l] = h
    BY <1>6 DEF Branches
  <2> QED BY <2>1, <2>2, <2>3
<1>7. \A b : Dom(visited, Branches, a, b) <=> Dom(visited, Edges(succ), a, b)
  BY <1>2, <1>5, <1>6, ReducibleDominance
<1>8. \A b \in visited : Dominates(a, b) <=> Dom(visited, Edges(succ), a, b)
  BY <1>1, DominatesForward DEF ForwardDom
<1>9. OnlyThrough(visited, Branches, entry_block, a) \subseteq visited
  BY DEF OnlyThrough
<1>10. \A b : Dom(visited, Branches, a, b) <=> b \in OnlyThrough(visited, Branches, entry_block, a)
  BY DEF Dom
<1> QED BY <1>7, <1>8, <1>9, <1>10

\* query_reachability answers for the paths.
LEMMA ReachabilityProperty == AnalysesInv => ReachabilityIsPaths
<1> SUFFICES ASSUME AnalysesInv, stage = "done", ~ grew, NEW a \in visited
             PROVE  {b \in visited : Reaches(a, b)} = Reached(visited, Edges(succ), a)
  BY DEF ReachabilityIsPaths
<1>1. reachability[a] = Reached(visited, Edges(succ), a)
  BY DEF AnalysesInv, RunInv, ReachInv
<1>2. a \in Reached(visited, Edges(succ), a) /\ Reached(visited, Edges(succ), a) \subseteq visited
  BY ReachedFacts
<1> QED BY <1>1, <1>2 DEF Reaches

\* The frontiers are where dominance ends.
LEMMA FrontierProperty == AnalysesInv => FrontierIsWhereDominanceEnds
<1> SUFFICES ASSUME AnalysesInv, stage = "done", ~ grew, NEW a \in visited
             PROVE  frontiers.dom[a] = {s \in visited : /\ a = s \/ ~ Dominates(a, s)
                                     /\ \E p \in visited : s \in Elements(succ[p]) /\ Dominates(a, p)}
  BY DEF FrontierIsWhereDominanceEnds
<1>1. RunInv
  BY DEF AnalysesInv
<1>2. frontiers.dom[a] = Ends(visited, Edges(succ), a)
  BY DEF AnalysesInv, FrontInv
<1>3. \A b \in visited : Dominates(a, b) <=> Dom(visited, Edges(succ), a, b)
  BY <1>1, DominatesForward DEF ForwardDom
<1>4. \A p \in visited : \A s : s \in Elements(succ[p]) <=> <<p, s>> \in Edges(succ)
  BY <1>1, DominatorsKnown, EdgesAre DEF TypeInv
<1> QED BY <1>2, <1>3, <1>4 DEF Ends

\* For every function, and however often the analyses are repeated, a recompute_cfg
\* that has added no branch leaves the dominators, the reachability and the dominance
\* frontiers of the function.
THEOREM ForwardAnalyses == RCSpec => []ForwardAnalysesCorrect
<1>1. AnalysesInv => ForwardAnalysesCorrect
  BY TypesProperty, DominatorsProperty, ReachabilityProperty, FrontierProperty DEF ForwardAnalysesCorrect
<1> QED BY <1>1, AnalysesInit, AnalysesStep, PTL DEF RCSpec

=============================================================================
