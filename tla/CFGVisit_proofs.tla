--------------------------- MODULE CFGVisit_proofs ---------------------------
(***************************************************************************)
(* Proofs about CFGVisit, for every function and any number of traversals: *)
(* each leaves a graph whose branches lead to lower post-order numbers     *)
(* (BranchesDescend), and the next one finds it as the last one left it    *)
(* (TraversalsAreSound).                                                   *)
(*                                                                         *)
(* BranchesDescend.  A block that has returned only branches to blocks     *)
(* that returned before it.  To keep that when a block returns, VisitInv   *)
(* tells of every open call what the successors it has passed are: its     *)
(* back edge, blocks that have returned, and the block whose call it waits *)
(* for.                                                                    *)
(*                                                                         *)
(* TraversalsAreSound.  EdgesInv tells where branches lead: all are        *)
(* recorded at both ends, and those of a block of the function go to where *)
(* the input says, directly or through a block that merges back edges.     *)
(* That a second traversal calls the blocks in the order of the first is   *)
(* not inductive in terms of the state: the successors have changed places *)
(* and back edges were erased in the meantime.  RecordInv says instead     *)
(* that there is a record of the first traversal: a set of moments, each   *)
(* of which follows from the one before by the successors of the block it  *)
(* is in and by the blocks entered so far.  A change of the graph that     *)
(* keeps the order of all successors that are no back edges keeps a record *)
(* valid, and a traversal that goes by a valid record repeats it.          *)
(***************************************************************************)
EXTENDS CFGVisit, TLAPS, NaturalsInduction, WellFoundedInduction

\* A list without repetitions.
Distinct(s) == \A i, j \in DOMAIN s : s[i] = s[j] => i = j

\* The shapes of the variables that visit uses.
TypeInv ==
  /\ num_nodes \in Nat /\ num_nodes > 0
  /\ succ \in [Nodes -> Seq(Nodes)]
  /\ succ_back_edge \in [Nodes -> Nodes \cup {Null}]
  /\ stack \in Seq([node : Nodes, next : Nat \ {0}])
  /\ visited \subseteq Nodes
  /\ post_order \in Seq(Nodes)

\* The successors of a block are different, and its back edge, once the block
\* has returned, is not among them.
GraphInv ==
  /\ \A n \in Nodes : Distinct(succ[n])
  /\ \A n \in Nodes : succ_back_edge[n] # Null => n \in visited
  /\ phase = "analysis" => \A n \in Nodes : succ_back_edge[n] = Null
  /\ phase \in {"visit", "visited"} =>
       \A n \in Elements(post_order) : succ_back_edge[n] \notin Elements(succ[n])

\* What the visited blocks are.
CallInv ==
  /\ \A i, j \in DOMAIN stack : stack[i].node = stack[j].node => i = j
  /\ Distinct(post_order)
  /\ visited = Traversing \cup Elements(post_order)
  /\ Traversing \cap Elements(post_order) = {}
  /\ phase = "visited" => stack = << >>

\* The branches of the blocks that returned.
ReturnedInv ==
  \A k \in DOMAIN post_order : \A s \in Elements(succ[post_order[k]]) :
    \E j \in 1 .. k - 1 : post_order[j] = s

\* The branches that open calls have passed.
PassedInv ==
  \A i \in DOMAIN stack : \A j \in DOMAIN succ[stack[i].node] :
    j < stack[i].next =>
      \/ succ[stack[i].node][j] = succ_back_edge[stack[i].node]
      \/ succ[stack[i].node][j] \in Elements(post_order)
      \/ i < Len(stack) /\ succ[stack[i].node][j] = stack[i + 1].node

\* The invariant of the order of the calls.
VisitInv ==
  /\ TypeInv
  /\ GraphInv
  /\ phase \in {"visit", "visited"} => CallInv /\ ReturnedInv /\ PassedInv

-----------------------------------------------------------------------------
(* Lists and stacks.                                                       *)

\* An open call of visit.
FrameType == [node : Nodes, next : Nat \ {0}]

\* A list over a set is one over a larger set.
LEMMA SeqInLarger ==
  ASSUME NEW S, NEW T, S \subseteq T, NEW s \in Seq(S)
  PROVE  s \in Seq(T)
<1>1. s = [i \in 1 .. Len(s) |-> s[i]] /\ Len(s) \in Nat
  OBVIOUS
<1>2. \A i \in 1 .. Len(s) : s[i] \in T
  OBVIOUS
<1> QED BY <1>1, <1>2

\* Erase takes one element out of a list without repetitions (vector::erase).
LEMMA EraseFacts ==
  ASSUME NEW S, NEW s \in Seq(S), Distinct(s), NEW e
  PROVE  /\ Erase(s, e) \in Seq(S)
         /\ Distinct(Erase(s, e))
         /\ Elements(Erase(s, e)) = Elements(s) \ {e}
<1>1. CASE e \notin Elements(s)
  BY <1>1 DEF Erase
<1>2. CASE e \in Elements(s)
  <2> DEFINE p == Position(s, e)
             r == [i \in 1 .. Len(s) - 1 |-> IF i < p THEN s[i] ELSE s[i + 1]]
  <2>1. p \in DOMAIN s /\ s[p] = e
    BY <1>2 DEF Elements, Position
  <2>2. Erase(s, e) = r
    BY <1>2 DEF Erase
  <2> HIDE DEF p
  <2>3. p \in 1 .. Len(s) /\ Len(s) \in Nat /\ DOMAIN s = 1 .. Len(s)
    BY <2>1
  <2>4. r \in Seq(S) /\ DOMAIN r = 1 .. Len(s) - 1
    BY <2>3
  <2>5. Distinct(r)
    <3> SUFFICES ASSUME NEW i \in DOMAIN r, NEW j \in DOMAIN r, r[i] = r[j] PROVE i = j
      BY DEF Distinct
    <3>1. /\ r[i] = IF i < p THEN s[i] ELSE s[i + 1]
          /\ r[j] = IF j < p THEN s[j] ELSE s[j + 1]
          /\ i \in Nat /\ j \in Nat /\ {i, i + 1, j, j + 1} \subseteq DOMAIN s
      BY <2>3, <2>4
    <3>2. \A a, b \in DOMAIN s : s[a] = s[b] => a = b
      BY DEF Distinct
    <3> DEFINE At(k) == IF k < p THEN k ELSE k + 1
    <3>3. At(i) \in DOMAIN s /\ At(j) \in DOMAIN s /\ s[At(i)] = s[At(j)]
      BY <3>1
    <3>4. At(i) = At(j)
      BY <3>2, <3>3
    <3> QED BY <2>3, <3>1, <3>4
  <2>6. ASSUME NEW i \in DOMAIN r PROVE r[i] \in Elements(s) \ {e}
    BY <2>1, <2>3, <2>4 DEF Distinct, Elements
  <2>7. ASSUME NEW i \in DOMAIN s, s[i] # e PROVE s[i] \in Elements(r)
    <3>1. CASE i < p
      <4>1. i \in DOMAIN r /\ r[i] = s[i]
        BY <2>3, <2>4, <3>1
      <4> QED BY <4>1 DEF Elements
    <3>2. CASE i > p
      <4>1. i - 1 \in DOMAIN r /\ r[i - 1] = s[i]
        BY <2>3, <2>4, <3>2
      <4> QED BY <4>1 DEF Elements
    <3> QED BY <2>1, <2>3, <2>7, <3>1, <3>2
  <2>8. Elements(r) = Elements(s) \ {e}
    BY <2>6, <2>7 DEF Elements
  <2> QED BY <2>2, <2>4, <2>5, <2>8
<1> QED BY <1>1, <1>2

\* Appending a new element keeps a list without repetitions.
LEMMA AppendFacts ==
  ASSUME NEW S, NEW s \in Seq(S), NEW e \in S
  PROVE  /\ Append(s, e) \in Seq(S)
         /\ Elements(Append(s, e)) = Elements(s) \cup {e}
         /\ Distinct(s) /\ e \notin Elements(s) => Distinct(Append(s, e))
<1>1. Append(s, e) \in Seq(S) /\ Len(Append(s, e)) = Len(s) + 1 /\ Len(s) \in Nat
  OBVIOUS
<1>2. \A i \in DOMAIN s : i \in DOMAIN Append(s, e) /\ Append(s, e)[i] = s[i]
  OBVIOUS
<1>3. Append(s, e)[Len(s) + 1] = e /\ Len(s) + 1 \in DOMAIN Append(s, e)
  OBVIOUS
<1>4. \A i \in DOMAIN Append(s, e) : i \in DOMAIN s \/ i = Len(s) + 1
  OBVIOUS
<1>5. Elements(Append(s, e)) = Elements(s) \cup {e}
  BY <1>2, <1>3, <1>4 DEF Elements
<1>6. Distinct(s) /\ e \notin Elements(s) => Distinct(Append(s, e))
  BY <1>2, <1>3, <1>4 DEF Elements, Distinct
<1> QED BY <1>1, <1>5, <1>6

\* The calls are those of blocks.
LEMMA StackNodes ==
  ASSUME TypeInv
  PROVE  \A i \in DOMAIN stack : stack[i].node \in Nodes
<1>1. stack \in Seq(FrameType)
  BY DEF TypeInv, FrameType
<1>2. \A i \in DOMAIN stack : stack[i] \in FrameType
  BY <1>1
<1> QED BY <1>2 DEF FrameType

\* The stack of calls when the loop over the successors moves on.
LEMMA AdvanceFacts ==
  ASSUME TypeInv, stack # << >>
  PROVE  /\ Len(stack) \in Nat \ {0} /\ DOMAIN stack = 1 .. Len(stack)
         /\ Top \in FrameType /\ Top.node \in Nodes /\ Top.next \in Nat \ {0}
         /\ Top.node \in Traversing
         /\ Advance \in Seq(FrameType)
         /\ Len(Advance) = Len(stack) /\ DOMAIN Advance = DOMAIN stack
         /\ \A i \in DOMAIN stack : Advance[i].node = stack[i].node
         /\ \A i \in DOMAIN stack : i < Len(stack) => Advance[i].next = stack[i].next
         /\ Advance[Len(stack)].next = stack[Len(stack)].next + 1
<1>1. stack \in Seq(FrameType)
  BY DEF TypeInv, FrameType
<1>2. Len(stack) \in Nat \ {0} /\ DOMAIN stack = 1 .. Len(stack)
  BY <1>1
<1>3. Top \in FrameType /\ Top.node \in Nodes /\ Top.next \in Nat \ {0}
  <2>1. Top \in FrameType
    BY <1>1, <1>2 DEF Top
  <2> QED BY <2>1 DEF FrameType
<1>4. Top.node \in Traversing
  BY <1>2 DEF Top, Traversing
<1>5. DOMAIN Advance = DOMAIN stack
  BY DEF Advance
<1>6. \A i \in DOMAIN stack : i # Len(stack) => Advance[i] = stack[i]
  BY DEF Advance
<1>7. Advance[Len(stack)] = [Top EXCEPT !.next = @ + 1]
  BY <1>2 DEF Advance, Top
<1>8. /\ Advance[Len(stack)] \in FrameType
      /\ Advance[Len(stack)].node = Top.node
      /\ Advance[Len(stack)].next = Top.next + 1
  BY <1>3, <1>7 DEF FrameType
<1>9. \A i \in DOMAIN stack : Advance[i] \in FrameType
  BY <1>1, <1>6, <1>8
<1>10. Advance \in Seq(FrameType) /\ Len(Advance) = Len(stack)
  <2>1. Advance = [i \in 1 .. Len(stack) |-> Advance[i]]
    BY <1>2, <1>5 DEF Advance
  <2> QED BY <2>1, <1>2, <1>9
<1> QED BY <1>2, <1>3, <1>4, <1>5, <1>6, <1>8, <1>10 DEF Top

\* The stack of calls when the last one returns.
LEMMA PopFacts ==
  ASSUME TypeInv, stack # << >>
  PROVE  /\ Pop \in Seq(FrameType)
         /\ Len(Pop) = Len(stack) - 1 /\ DOMAIN Pop = 1 .. Len(stack) - 1
         /\ \A i \in DOMAIN Pop : i \in DOMAIN stack /\ Pop[i] = stack[i]
<1>1. stack \in Seq(FrameType)
  BY DEF TypeInv, FrameType
<1>2. Len(stack) \in Nat \ {0} /\ DOMAIN stack = 1 .. Len(stack)
  BY <1>1
<1>3. Pop = [i \in 1 .. Len(stack) - 1 |-> stack[i]]
  BY <1>1, <1>2 DEF Pop
<1>4. \A i \in 1 .. Len(stack) - 1 : stack[i] \in FrameType
  BY <1>1, <1>2
<1> QED BY <1>2, <1>3, <1>4

-----------------------------------------------------------------------------
(* The invariant, action by action.                                        *)

\* Before the first traversal the blocks have the branches of the input.
LEMMA InitInv == CVInit => VisitInv
<1> SUFFICES ASSUME CVInit PROVE VisitInv
  OBVIOUS
<1>1. NumBlocks \in Nat \ {0} /\ IsFunction(succ)
  BY CVConstants DEF CVInit, FunctionInit
<1>2. num_nodes = NumBlocks /\ Nodes = Blocks
  BY DEF CVInit, FunctionInit, Nodes, Blocks
<1>3. succ \in [Nodes -> Seq(Nodes)]
  <2>1. \A n \in Blocks : succ[n] \in Seq(Blocks)
    BY <1>1 DEF IsFunction
  <2> QED BY <1>1, <1>2, <2>1 DEF IsFunction
<1>4. entry_block \in Nodes
  BY <1>1, <1>2 DEF Blocks, entry_block
<1>5. stack \in Seq([node : Nodes, next : Nat \ {0}])
  BY <1>4 DEF CVInit, FunctionInit, Frame
<1>6. TypeInv
  BY <1>1, <1>2, <1>3, <1>4, <1>5 DEF TypeInv, CVInit, FunctionInit
<1>7. GraphInv
  BY <1>1, <1>2 DEF GraphInv, Distinct, IsFunction, CVInit, FunctionInit
<1> QED BY <1>6, <1>7 DEF VisitInv, CVInit, FunctionInit

\* A successor that is no ancestor is passed, or its call begins.
LEMMA VisitSuccInv == VisitInv /\ VisitSucc => VisitInv'
<1> SUFFICES ASSUME VisitInv, VisitSucc PROVE VisitInv'
  OBVIOUS
<1> DEFINE n == Top.node
           s == NextSucc
           L == Len(stack)
<1>1. TypeInv /\ GraphInv /\ stack # << >> /\ Top.next <= Len(succ[n])
  BY DEF VisitInv, VisitSucc, MoreSucc
<1>2. /\ L \in Nat \ {0} /\ DOMAIN stack = 1 .. L
      /\ n \in Nodes /\ Top.next \in Nat \ {0}
      /\ Advance \in Seq(FrameType) /\ Len(Advance) = L /\ DOMAIN Advance = DOMAIN stack
      /\ \A i \in DOMAIN stack : Advance[i].node = stack[i].node
      /\ \A i \in DOMAIN stack : i < L => Advance[i].next = stack[i].next
      /\ Advance[L].next = Top.next + 1
  BY <1>1, AdvanceFacts DEF Top
<1>3. succ[n] \in Seq(Nodes) /\ Top.next \in DOMAIN succ[n] /\ s \in Nodes
  BY <1>1, <1>2 DEF TypeInv, NextSucc
<1>4. Frame(s) \in FrameType /\ Frame(s).node = s /\ Frame(s).next = 1
  BY <1>3 DEF Frame, FrameType
<1>5. /\ UNCHANGED <<phase, num_nodes, succ, succ_back_edge, post_order>>
      /\ s \notin Traversing
  BY DEF VisitSucc, graphVars, backEdgeVars
<1>6. FrameType' = FrameType /\ Nodes' = Nodes
  BY <1>5 DEF FrameType, Nodes
<1>7. CASE s \in visited
  <2>1. stack' = Advance /\ visited' = visited
    BY <1>7 DEF VisitSucc
  <2>2. TypeInv'
    BY <1>1, <1>2, <1>5, <1>6, <2>1 DEF TypeInv, FrameType
  <2>3. GraphInv'
    BY <1>1, <1>5, <1>6, <2>1 DEF GraphInv, Distinct, Elements
  <2>4. ASSUME phase \in {"visit", "visited"}
        PROVE  (CallInv /\ ReturnedInv /\ PassedInv)'
    <3>1. CallInv /\ ReturnedInv /\ PassedInv
      BY <2>4 DEF VisitInv
    <3>2. Traversing' = Traversing
      BY <1>2, <2>1 DEF Traversing
    <3>3. stack' # << >> /\ phase # "visited"
      BY <1>1, <1>2, <2>1, <3>1 DEF CallInv
    <3>4. CallInv'
      BY <1>2, <1>5, <2>1, <3>1, <3>2, <3>3 DEF CallInv, Distinct, Elements
    <3>5. ReturnedInv'
      BY <1>5, <3>1 DEF ReturnedInv, Elements
    <3>6. s \in Elements(post_order)
      BY <1>5, <1>7, <3>1 DEF CallInv
    <3>7. PassedInv'
      <4> SUFFICES ASSUME NEW i \in DOMAIN stack, NEW j \in DOMAIN succ[stack[i].node],
                          j < Advance[i].next
                   PROVE  \/ succ[stack[i].node][j] = succ_back_edge[stack[i].node]
                          \/ succ[stack[i].node][j] \in Elements(post_order)
                          \/ i < L /\ succ[stack[i].node][j] = stack[i + 1].node
        BY <1>2, <1>5, <2>1 DEF PassedInv, Elements
      <4>1. CASE i < L
        BY <1>2, <3>1, <4>1 DEF PassedInv
      <4>2. CASE i = L
        <5>1. stack[i].node = n /\ stack[i].next = Top.next
          BY <4>2 DEF Top
        <5>2. j \in Nat
          BY <1>3, <5>1
        <5>3. j < Top.next \/ j = Top.next
          BY <1>2, <4>2, <5>2
        <5>4. CASE j < Top.next
          BY <3>1, <5>1, <5>4 DEF PassedInv
        <5>5. CASE j = Top.next
          BY <3>6, <5>1, <5>5 DEF NextSucc
        <5> QED BY <5>3, <5>4, <5>5
      <4> QED BY <1>2, <4>1, <4>2
    <3> QED BY <3>4, <3>5, <3>7
  <2> QED BY <1>5, <2>2, <2>3, <2>4 DEF VisitInv
<1>8. CASE s \notin visited
  <2>1. stack' = Append(Advance, Frame(s)) /\ visited' = visited \cup {s}
    BY <1>8 DEF VisitSucc
  <2>2. /\ stack' \in Seq(FrameType) /\ Len(stack') = L + 1 /\ DOMAIN stack' = 1 .. L + 1
        /\ \A i \in 1 .. L : stack'[i] = Advance[i]
        /\ stack'[L + 1] = Frame(s)
    BY <1>2, <1>4, <2>1
  <2>3. /\ \A i \in 1 .. L : stack'[i].node = stack[i].node
        /\ \A i \in 1 .. L : i < L => stack'[i].next = stack[i].next
        /\ stack'[L].next = Top.next + 1
        /\ stack'[L + 1].node = s /\ stack'[L + 1].next = 1
    BY <1>2, <1>4, <2>2, SMTT(30)
  <2>4. TypeInv'
    BY <1>1, <1>3, <1>5, <1>6, <2>1, <2>2 DEF TypeInv, FrameType
  <2>5. GraphInv'
    BY <1>1, <1>5, <1>6, <2>1 DEF GraphInv, Distinct, Elements
  <2>6. ASSUME phase \in {"visit", "visited"}
        PROVE  (CallInv /\ ReturnedInv /\ PassedInv)'
    <3>1. CallInv /\ ReturnedInv /\ PassedInv
      BY <2>6 DEF VisitInv
    <3>2. Traversing' = Traversing \cup {s}
      <4>1. \A i \in DOMAIN stack' : stack'[i].node \in Traversing \cup {s}
        BY <1>2, <2>2, <2>3 DEF Traversing
      <4>2. s \in Traversing' /\ \A i \in DOMAIN stack : stack[i].node \in Traversing'
        BY <1>2, <2>2, <2>3, SMTT(30) DEF Traversing
      <4> QED BY <4>1, <4>2 DEF Traversing
    <3>3. phase # "visited" /\ s \notin Elements(post_order)
      BY <1>1, <1>8, <3>1 DEF CallInv
    <3>4. \A i, j \in DOMAIN stack' : stack'[i].node = stack'[j].node => i = j
      <4>1. \A i \in 1 .. L : stack'[i].node # s
        BY <1>2, <1>5, <2>3 DEF Traversing
      <4>2. \A i, j \in 1 .. L : stack'[i].node = stack'[j].node => i = j
        BY <1>2, <2>3, <3>1 DEF CallInv
      <4> QED BY <1>2, <2>2, <2>3, <4>1, <4>2
    <3>5. CallInv'
      BY <1>5, <2>1, <3>1, <3>2, <3>3, <3>4 DEF CallInv, Distinct, Elements
    <3>6. ReturnedInv'
      BY <1>5, <3>1 DEF ReturnedInv, Elements
    <3>7. PassedInv'
      <4> SUFFICES ASSUME NEW i \in DOMAIN stack', NEW j \in DOMAIN succ[stack'[i].node],
                          j < stack'[i].next
                   PROVE  \/ succ[stack'[i].node][j] = succ_back_edge[stack'[i].node]
                          \/ succ[stack'[i].node][j] \in Elements(post_order)
                          \/ i < L + 1 /\ succ[stack'[i].node][j] = stack'[i + 1].node
        BY <1>5, <2>2 DEF PassedInv, Elements
      <4>1. CASE i < L
        <5>1. i \in DOMAIN stack /\ stack'[i].node = stack[i].node /\ stack'[i].next = stack[i].next
          BY <1>2, <2>2, <2>3, <4>1
        <5>2. i + 1 \in 1 .. L /\ stack'[i + 1].node = stack[i + 1].node
          BY <1>2, <2>2, <2>3, <4>1
        <5> QED BY <1>2, <3>1, <4>1, <5>1, <5>2 DEF PassedInv
      <4>2. CASE i = L
        <5>1. stack'[i].node = n /\ L \in DOMAIN stack /\ stack[L].node = n /\ stack[L].next = Top.next
          BY <1>2, <2>3, <4>2 DEF Top
        <5>2. j \in Nat
          BY <1>3, <5>1
        <5>3. j < Top.next \/ j = Top.next
          BY <1>2, <2>3, <4>2, <5>2
        <5>4. CASE j < Top.next
          BY <1>2, <3>1, <5>1, <5>4 DEF PassedInv
        <5>5. CASE j = Top.next
          BY <1>2, <2>3, <4>2, <5>1, <5>5 DEF NextSucc
        <5> QED BY <5>3, <5>4, <5>5
      <4>3. CASE i = L + 1
        <5>1. stack'[i].node = s /\ stack'[i].next = 1 /\ succ[s] \in Seq(Nodes)
          BY <1>1, <1>3, <2>3, <4>3 DEF TypeInv
        <5> QED BY <5>1
      <4> QED BY <1>2, <2>2, <4>1, <4>2, <4>3
    <3> QED BY <3>5, <3>6, <3>7
  <2> QED BY <1>5, <2>4, <2>5, <2>6 DEF VisitInv
<1> QED BY <1>7, <1>8

\* The analysis notes an ancestor; the invariant asks nothing of fake_pred.
LEMMA RecordBackEdgeInv == VisitInv /\ RecordBackEdge => VisitInv'
<1> SUFFICES ASSUME VisitInv, RecordBackEdge PROVE VisitInv'
  OBVIOUS
<1>1. TypeInv /\ GraphInv /\ stack # << >>
  BY DEF VisitInv, RecordBackEdge, MoreSucc
<1>2. /\ UNCHANGED <<phase, num_nodes, succ, succ_back_edge, visited, post_order>>
      /\ phase = "analysis" /\ stack' = Advance
  BY DEF RecordBackEdge, graphVars, backEdgeVars
<1>3. Nodes' = Nodes /\ Advance \in Seq([node : Nodes, next : Nat \ {0}])
  BY <1>1, <1>2, AdvanceFacts DEF Nodes, FrameType
<1>4. TypeInv' /\ GraphInv'
  BY <1>1, <1>2, <1>3 DEF TypeInv, GraphInv, Distinct, Elements
<1> QED BY <1>2, <1>4 DEF VisitInv

\* The block that merges the back edges of a header is new, so that no block
\* gets two branches to it.
LEMMA ReturnFromAnalysisInv == VisitInv /\ ReturnFromAnalysis => VisitInv'
<1> SUFFICES ASSUME VisitInv, ReturnFromAnalysis PROVE VisitInv'
  OBVIOUS
<1>1. TypeInv /\ GraphInv /\ stack # << >>
  BY DEF VisitInv, ReturnFromAnalysis, Returns
<1>2. UNCHANGED <<phase, visited, post_order>> /\ phase = "analysis" /\ stack' = Pop
  BY DEF ReturnFromAnalysis
<1>3. Pop \in Seq([node : Nodes, next : Nat \ {0}]) /\ Top.node \in Nodes
  BY <1>1, PopFacts, AdvanceFacts DEF FrameType
<1>4. CASE ~ NeedsMerge(Top.node)
  <2>1. UNCHANGED <<num_nodes, succ, succ_back_edge>>
    BY <1>4 DEF ReturnFromAnalysis, graphVars, backEdgeVars
  <2>2. TypeInv' /\ GraphInv'
    BY <1>1, <1>2, <1>3, <2>1 DEF TypeInv, GraphInv, Distinct, Elements, Nodes
  <2> QED BY <1>2, <2>2 DEF VisitInv
<1>5. CASE NeedsMerge(Top.node)
  <2> DEFINE n       == Top.node
             new     == num_nodes + 1
             latches == Elements(fake_pred[n])
  <2>1. /\ num_nodes' = new
        /\ succ' = [m \in 1 .. new |->
                      IF m = new THEN <<n>>
                      ELSE IF m \in latches THEN Replace(succ[m], n, new) ELSE succ[m]]
        /\ succ_back_edge' = [m \in 1 .. new |-> Null]
    BY <1>5 DEF ReturnFromAnalysis, MergeBackEdges
  <2>2. /\ num_nodes \in Nat /\ Nodes = 1 .. num_nodes /\ Nodes' = 1 .. new
        /\ Nodes \subseteq Nodes' /\ new \in Nodes' /\ new \notin Nodes
    BY <1>1, <2>1 DEF TypeInv, Nodes
  <2> HIDE DEF latches
  <2>3. ASSUME NEW m \in Nodes'
        PROVE  succ'[m] \in Seq(Nodes') /\ Distinct(succ'[m])
    <3>1. CASE m = new
      <4>1. succ'[m] = <<n>>
        BY <2>1, <2>2, <3>1
      <4> QED BY <1>3, <2>2, <4>1 DEF Distinct
    <3>2. CASE m # new /\ m \in latches
      <4>1. m \in Nodes /\ succ'[m] = Replace(succ[m], n, new)
        BY <2>1, <2>2, <3>2
      <4>2. succ[m] \in Seq(Nodes) /\ Distinct(succ[m])
        BY <1>1, <4>1 DEF TypeInv, GraphInv
      <4>3. Replace(succ[m], n, new) \in Seq(Nodes')
        <5>1. succ[m] \in Seq(Nodes') /\ new \in Nodes'
          BY <2>2, <4>2, SeqInLarger
        <5> QED BY <5>1 DEF Replace
      <4>4. \A i \in DOMAIN succ[m] : succ[m][i] # new
        BY <2>2, <4>2
      <4>5. Distinct(Replace(succ[m], n, new))
        BY <4>2, <4>4 DEF Replace, Distinct
      <4> QED BY <4>1, <4>3, <4>5
    <3>3. CASE m # new /\ m \notin latches
      <4>1. m \in Nodes /\ succ'[m] = succ[m]
        BY <2>1, <2>2, <3>3
      <4>2. succ[m] \in Seq(Nodes) /\ Distinct(succ[m])
        BY <1>1, <4>1 DEF TypeInv, GraphInv
      <4> QED BY <2>2, <4>1, <4>2
    <3> QED BY <3>1, <3>2, <3>3
  <2>4. succ' \in [Nodes' -> Seq(Nodes')]
    BY <2>1, <2>2, <2>3
  <2>5. stack' \in Seq([node : Nodes', next : Nat \ {0}])
    <3>1. [node : Nodes, next : Nat \ {0}] \subseteq [node : Nodes', next : Nat \ {0}]
      BY <2>2
    <3> QED BY <1>2, <1>3, <3>1, SeqInLarger
  <2>6. post_order' \in Seq(Nodes') /\ visited' \subseteq Nodes'
    <3>1. post_order \in Seq(Nodes) /\ visited \subseteq Nodes
      BY <1>1 DEF TypeInv
    <3>2. post_order \in Seq(Nodes')
      BY <2>2, <3>1, SeqInLarger
    <3> QED BY <1>2, <2>2, <3>1, <3>2
  <2>7. TypeInv'
    <3>1. num_nodes' \in Nat /\ num_nodes' > 0
      BY <2>1, <2>2
    <3>2. succ_back_edge' \in [Nodes' -> Nodes' \cup {Null}]
      BY <2>1, <2>2
    <3> QED BY <2>4, <2>5, <2>6, <3>1, <3>2 DEF TypeInv
  <2>8. GraphInv'
    BY <1>2, <2>1, <2>2, <2>3 DEF GraphInv
  <2> QED BY <1>2, <2>7, <2>8 DEF VisitInv
<1> QED BY <1>4, <1>5

\* Putting a back edge back repeats no branch: a block that has one returned
\* from the traversal before, without it.
LEMMA RecomputeInv == VisitInv /\ Recompute => VisitInv'
<1> SUFFICES ASSUME VisitInv, Recompute PROVE VisitInv'
  OBVIOUS
<1>1. TypeInv /\ GraphInv
  BY DEF VisitInv
<1>2. /\ num_nodes' = num_nodes /\ phase' = "visit" /\ post_order' = << >>
      /\ succ' = [n \in Nodes |-> PushUnlessNull(succ[n], succ_back_edge[n])]
      /\ succ_back_edge' = [n \in Nodes |-> Null]
      /\ stack' = <<Frame(entry_block)>> /\ visited' = {entry_block}
  BY DEF Recompute, RestoreBackEdges, Enter
<1>3. Nodes' = Nodes /\ entry_block \in Nodes
  BY <1>1, <1>2 DEF Nodes, TypeInv, entry_block
<1>4. ASSUME NEW n \in Nodes
      PROVE  succ'[n] \in Seq(Nodes) /\ Distinct(succ'[n])
  <2>1. succ[n] \in Seq(Nodes) /\ Distinct(succ[n])
    BY <1>1 DEF TypeInv, GraphInv
  <2>2. CASE succ_back_edge[n] = Null
    BY <1>2, <2>1, <2>2 DEF PushUnlessNull
  <2>3. CASE succ_back_edge[n] # Null
    <3>1. phase = "visited"
      BY <1>1, <2>3 DEF Recompute, GraphInv
    <3>2. CallInv /\ stack = << >>
      BY <3>1 DEF VisitInv, CallInv
    <3>3. Traversing = {}
      BY <3>2 DEF Traversing
    <3>4. n \in Elements(post_order)
      BY <1>1, <2>3, <3>2, <3>3 DEF CallInv, GraphInv
    <3>5. succ_back_edge[n] \in Nodes /\ succ_back_edge[n] \notin Elements(succ[n])
      BY <1>1, <2>3, <3>1, <3>4 DEF TypeInv, GraphInv
    <3>6. succ'[n] = Append(succ[n], succ_back_edge[n])
      BY <1>2, <2>3 DEF PushUnlessNull
    <3> QED BY <2>1, <3>5, <3>6, AppendFacts
  <2> QED BY <2>2, <2>3
<1>5. Frame(entry_block) \in [node : Nodes, next : Nat \ {0}]
  BY <1>3 DEF Frame
<1>6. /\ stack' \in Seq([node : Nodes, next : Nat \ {0}]) /\ DOMAIN stack' = {1}
      /\ stack'[1].node = entry_block /\ stack'[1].next = 1
  BY <1>2, <1>5 DEF Frame
<1>7. TypeInv'
  <2>1. succ' \in [Nodes -> Seq(Nodes)]
    BY <1>2, <1>4
  <2> QED BY <1>1, <1>2, <1>3, <1>6, <2>1 DEF TypeInv
<1>8. DOMAIN post_order' = {} /\ Elements(post_order)' = {}
  BY <1>2 DEF Elements
<1>9. GraphInv'
  BY <1>2, <1>3, <1>4, <1>8 DEF GraphInv
<1>10. CallInv'
  <2>1. Traversing' = {entry_block}
    BY <1>6 DEF Traversing
  <2> QED BY <1>2, <1>6, <1>8, <2>1 DEF CallInv, Distinct
<1>11. ReturnedInv'
  BY <1>8 DEF ReturnedInv
<1>12. PassedInv'
  <2>1. \A j \in DOMAIN succ'[entry_block] : ~ (j < 1)
    BY <1>3, <1>4
  <2> QED BY <1>6, <2>1 DEF PassedInv
<1> QED BY <1>7, <1>9, <1>10, <1>11, <1>12 DEF VisitInv

\* The back edge that was passed becomes the block's back edge; if it had one
\* before, that was the same.
LEMMA VisitBackEdgeInv == VisitInv /\ VisitBackEdge => VisitInv'
<1> SUFFICES ASSUME VisitInv, VisitBackEdge PROVE VisitInv'
  OBVIOUS
<1> DEFINE n == Top.node
           s == NextSucc
           L == Len(stack)
<1>1. /\ TypeInv /\ GraphInv /\ CallInv /\ ReturnedInv /\ PassedInv
      /\ stack # << >> /\ Top.next <= Len(succ[n])
  BY DEF VisitInv, VisitBackEdge, MoreSucc
<1>2. /\ L \in Nat \ {0} /\ DOMAIN stack = 1 .. L
      /\ n \in Nodes /\ Top.next \in Nat \ {0} /\ n \in Traversing
      /\ Advance \in Seq(FrameType) /\ Len(Advance) = L /\ DOMAIN Advance = DOMAIN stack
      /\ \A i \in DOMAIN stack : Advance[i].node = stack[i].node
      /\ \A i \in DOMAIN stack : i < L => Advance[i].next = stack[i].next
      /\ Advance[L].next = Top.next + 1
  BY <1>1, AdvanceFacts DEF Top
<1>3. succ[n] \in Seq(Nodes) /\ Top.next \in DOMAIN succ[n] /\ s \in Nodes
  BY <1>1, <1>2 DEF TypeInv, NextSucc
<1>4. UNCHANGED <<num_nodes, succ, visited, post_order>> /\ phase = "visit"
  BY DEF VisitBackEdge, graphVars
<1>5. FrameType' = FrameType /\ Nodes' = Nodes /\ Null \notin Nodes
  BY <1>4 DEF FrameType, Nodes, Null
<1>6. CASE phase' # "visit"
  <2>1. /\ phase' \in {"block has two back edges", "header has two back edges"}
        /\ UNCHANGED <<succ_back_edge, stack>>
    BY <1>4, <1>6 DEF VisitBackEdge, backEdgeVars
  <2>2. TypeInv' /\ GraphInv'
    BY <1>1, <1>4, <1>5, <2>1 DEF TypeInv, GraphInv, Distinct
  <2> QED BY <2>1, <2>2 DEF VisitInv
<1>7. CASE phase' = "visit"
  <2>1. /\ succ_back_edge[n] \in {Null, s}
        /\ succ_back_edge' = [succ_back_edge EXCEPT ![n] = s]
        /\ stack' = Advance
    BY <1>7 DEF VisitBackEdge
  <2>2. /\ succ_back_edge'[n] = s
        /\ \A m \in Nodes : m # n => succ_back_edge'[m] = succ_back_edge[m]
    BY <1>1, <1>2, <2>1 DEF TypeInv
  <2>3. TypeInv'
    <3>1. succ_back_edge' \in [Nodes -> Nodes \cup {Null}]
      BY <1>1, <1>3, <2>1 DEF TypeInv
    <3> QED BY <1>1, <1>2, <1>4, <1>5, <2>1, <3>1 DEF TypeInv, FrameType
  <2>4. Traversing' = Traversing
    BY <1>2, <2>1, SMTT(30) DEF Traversing
  <2>5. n \in visited /\ n \notin Elements(post_order)
    BY <1>1, <1>2 DEF CallInv
  <2>6. Elements(post_order) \subseteq Nodes
    BY <1>1 DEF TypeInv, Elements
  <2>7. GraphInv'
    <3>1. \A m \in Nodes : Distinct(succ'[m])
      BY <1>1, <1>4 DEF GraphInv
    <3>2. \A m \in Nodes : succ_back_edge'[m] # Null => m \in visited'
      BY <1>1, <1>4, <2>2, <2>5 DEF GraphInv
    <3>3. \A m \in Elements(post_order)' : succ_back_edge'[m] \notin Elements(succ[m])'
      BY <1>1, <1>4, <2>2, <2>5, <2>6 DEF GraphInv, Elements
    <3> QED BY <1>5, <1>7, <3>1, <3>2, <3>3 DEF GraphInv
  <2>8. CallInv'
    BY <1>1, <1>2, <1>4, <1>7, <2>1, <2>4 DEF CallInv, Distinct, Elements
  <2>9. ReturnedInv'
    <3>1. ReturnedInv /\ succ' = succ /\ post_order' = post_order
      BY <1>1, <1>4
    <3> QED BY <3>1 DEF ReturnedInv, Elements
  <2>10. PassedInv'
    <3> SUFFICES ASSUME NEW i \in DOMAIN stack, NEW j \in DOMAIN succ[stack[i].node],
                        j < Advance[i].next
                 PROVE  \/ succ[stack[i].node][j] = succ_back_edge'[stack[i].node]
                        \/ succ[stack[i].node][j] \in Elements(post_order)
                        \/ i < L /\ succ[stack[i].node][j] = stack[i + 1].node
      BY <1>2, <1>4, <2>1, SMTT(30) DEF PassedInv, Elements
    <3>1. CASE i < L
      <4>1. stack[i].node # n
        BY <1>1, <1>2, <3>1 DEF CallInv, Top
      <4>2. stack[i].node \in Nodes
        BY <1>1, StackNodes
      <4> QED BY <1>1, <1>2, <2>2, <3>1, <4>1, <4>2 DEF PassedInv
    <3>2. CASE i = L
      <4>1. stack[i].node = n /\ stack[i].next = Top.next
        BY <3>2 DEF Top
      <4>2. j \in Nat /\ succ[n][j] \in Nodes
        BY <1>3, <4>1
      <4>3. j < Top.next \/ j = Top.next
        BY <1>2, <3>2, <4>2
      <4>4. CASE j < Top.next
        <5>1. succ[n][j] = succ_back_edge[n] \/ succ[n][j] \in Elements(post_order)
          BY <1>1, <1>2, <3>2, <4>1, <4>4 DEF PassedInv
        <5> QED BY <1>5, <2>1, <2>2, <4>1, <4>2, <5>1
      <4>5. CASE j = Top.next
        BY <2>2, <4>1, <4>5 DEF NextSucc
      <4> QED BY <4>3, <4>4, <4>5
    <3> QED BY <1>2, <3>1, <3>2
  <2> QED BY <2>3, <2>7, <2>8, <2>9, <2>10 DEF VisitInv
<1> QED BY <1>6, <1>7

\* A block returns when it has passed all its successors: without its back
\* edge, they are blocks that have returned.
LEMMA ReturnFromVisitInv == VisitInv /\ ReturnFromVisit => VisitInv'
<1> SUFFICES ASSUME VisitInv, ReturnFromVisit PROVE VisitInv'
  OBVIOUS
<1> DEFINE n == Top.node
           L == Len(stack)
           K == Len(post_order)
<1>1. /\ TypeInv /\ GraphInv /\ CallInv /\ ReturnedInv /\ PassedInv
      /\ stack # << >> /\ Top.next > Len(succ[n])
  BY DEF VisitInv, ReturnFromVisit, Returns
<1>2. /\ L \in Nat \ {0} /\ DOMAIN stack = 1 .. L
      /\ n \in Nodes /\ Top.next \in Nat \ {0} /\ n \in Traversing
  BY <1>1, AdvanceFacts DEF Top
<1>3. /\ UNCHANGED <<num_nodes, succ_back_edge, visited>>
      /\ succ' = [succ EXCEPT ![n] = ForwardSucc(n)]
      /\ post_order' = Append(post_order, n)
      /\ stack' = Pop
      /\ phase' = IF L = 1 THEN "visited" ELSE "visit"
      /\ phase = "visit"
  BY DEF ReturnFromVisit, backEdgeVars
<1>4. FrameType' = FrameType /\ Nodes' = Nodes
  BY <1>3 DEF FrameType, Nodes
<1>5. /\ stack' \in Seq(FrameType) /\ Len(stack') = L - 1 /\ DOMAIN stack' = 1 .. L - 1
      /\ \A i \in 1 .. L - 1 : i \in DOMAIN stack /\ stack'[i] = stack[i]
  BY <1>1, <1>3, PopFacts
<1>6. succ[n] \in Seq(Nodes) /\ Distinct(succ[n])
  BY <1>1, <1>2 DEF TypeInv, GraphInv
<1>7. /\ ForwardSucc(n) \in Seq(Nodes) /\ Distinct(ForwardSucc(n))
      /\ Elements(ForwardSucc(n)) = Elements(succ[n]) \ {succ_back_edge[n]}
  BY <1>6, EraseFacts DEF ForwardSucc
<1>8. /\ succ' \in [Nodes -> Seq(Nodes)] /\ succ'[n] = ForwardSucc(n)
      /\ \A m \in Nodes : m # n => succ'[m] = succ[m]
  BY <1>1, <1>2, <1>3, <1>7 DEF TypeInv
<1>9. n \notin Elements(post_order) /\ post_order \in Seq(Nodes) /\ K \in Nat
  BY <1>1, <1>2 DEF CallInv, TypeInv
<1>10. /\ post_order' \in Seq(Nodes) /\ DOMAIN post_order = 1 .. K
       /\ DOMAIN post_order' = 1 .. K + 1
       /\ \A k \in 1 .. K : post_order'[k] = post_order[k]
       /\ post_order'[K + 1] = n
  BY <1>2, <1>3, <1>9
<1>11. /\ Elements(post_order)' = Elements(post_order) \cup {n}
       /\ Distinct(post_order')
  <2>1. Distinct(post_order)
    BY <1>1 DEF CallInv
  <2>2. /\ Elements(Append(post_order, n)) = Elements(post_order) \cup {n}
        /\ Distinct(Append(post_order, n))
    BY <1>2, <1>9, <2>1, AppendFacts
  <2> QED BY <1>3, <2>2 DEF Elements
<1>12. \A k \in 1 .. K : post_order[k] \in Nodes /\ post_order[k] # n
  BY <1>9, <1>10 DEF Elements
<1>13. ASSUME NEW t \in Elements(ForwardSucc(n))
       PROVE  \E j \in 1 .. K : post_order[j] = t
  <2>1. PICK j \in DOMAIN succ[n] : succ[n][j] = t
    BY <1>7 DEF Elements
  <2>2. t # succ_back_edge[n]
    BY <1>7
  <2>3. L \in DOMAIN stack /\ stack[L].node = n /\ j < stack[L].next
    BY <1>1, <1>2, <1>6 DEF Top
  <2>4. t \in Elements(post_order)
    BY <1>1, <1>2, <2>1, <2>2, <2>3 DEF PassedInv
  <2> QED BY <1>10, <2>4 DEF Elements
<1>14. TypeInv'
  BY <1>1, <1>3, <1>4, <1>5, <1>8, <1>10 DEF TypeInv, FrameType
<1>15. GraphInv'
  <2>1. \A m \in Nodes : Distinct(succ'[m])
    BY <1>1, <1>7, <1>8 DEF GraphInv
  <2>2. \A m \in Nodes : succ_back_edge'[m] # Null => m \in visited'
    BY <1>1, <1>3 DEF GraphInv
  <2>3. ASSUME NEW m \in Elements(post_order)'
        PROVE  succ_back_edge'[m] \notin Elements(succ'[m])
    <3>1. CASE m = n
      BY <1>3, <1>7, <1>8, <3>1
    <3>2. CASE m # n
      <4>1. m \in Elements(post_order) /\ m \in Nodes
        BY <1>11, <1>12, <1>10, <3>2 DEF Elements
      <4> QED BY <1>1, <1>3, <1>8, <3>2, <4>1 DEF GraphInv
    <3> QED BY <3>1, <3>2
  <2>4. phase' # "analysis"
    BY <1>3
  <2> QED BY <1>4, <2>1, <2>2, <2>3, <2>4 DEF GraphInv, Elements
<1>16. \A i \in 1 .. L - 1 : stack[i].node # n /\ stack[i].node \in Nodes
  <2>1. \A i \in 1 .. L - 1 : i \in DOMAIN stack /\ stack[i].node # n
    BY <1>1, <1>2 DEF CallInv, Top
  <2> QED BY <1>1, <2>1, StackNodes
<1>17. CallInv'
  <2>1. Traversing' = Traversing \ {n}
    <3>1. \A i \in DOMAIN stack' : stack'[i].node \in Traversing \ {n}
      BY <1>5, <1>16 DEF Traversing
    <3>2. \A i \in DOMAIN stack : stack[i].node # n => stack[i].node \in Traversing'
      <4> SUFFICES ASSUME NEW i \in DOMAIN stack, stack[i].node # n
                   PROVE  stack[i].node \in Traversing'
        OBVIOUS
      <4>1. i \in 1 .. L - 1
        BY <1>2 DEF Top
      <4> QED BY <1>5, <4>1 DEF Traversing
    <3> QED BY <3>1, <3>2 DEF Traversing
  <2>2. \A i, j \in DOMAIN stack' : stack'[i].node = stack'[j].node => i = j
    BY <1>1, <1>5 DEF CallInv
  <2>3. visited' = Traversing' \cup Elements(post_order)'
    BY <1>1, <1>2, <1>3, <1>11, <2>1 DEF CallInv
  <2>4. Traversing' \cap Elements(post_order)' = {}
    BY <1>1, <1>11, <2>1 DEF CallInv
  <2>5. phase' = "visited" => stack' = << >>
    <3>1. phase' = "visited" => L = 1
      BY <1>3
    <3>2. L = 1 => Len(stack') = 0
      BY <1>5
    <3>3. Len(stack') = 0 => stack' = << >>
      BY <1>5
    <3> QED BY <3>1, <3>2, <3>3
  <2> QED BY <1>11, <2>2, <2>3, <2>4, <2>5 DEF CallInv
<1>18. ReturnedInv'
  <2> SUFFICES ASSUME NEW k \in 1 .. K + 1, NEW t \in Elements(succ'[post_order'[k]])
               PROVE  \E j \in 1 .. k - 1 : post_order'[j] = t
    BY <1>10 DEF ReturnedInv, Elements
  <2>1. CASE k = K + 1
    <3>1. t \in Elements(ForwardSucc(n))
      BY <1>8, <1>10, <2>1
    <3>2. PICK j \in 1 .. K : post_order[j] = t
      BY <1>13, <3>1
    <3> QED BY <1>9, <1>10, <2>1, <3>2
  <2>2. CASE k \in 1 .. K
    <3>1. t \in Elements(succ[post_order[k]])
      BY <1>8, <1>10, <1>12, <2>2
    <3>2. PICK j \in 1 .. k - 1 : post_order[j] = t
      BY <1>1, <1>10, <2>2, <3>1 DEF ReturnedInv
    <3>3. j \in 1 .. K
      BY <1>9, <2>2
    <3> QED BY <1>10, <3>2, <3>3
  <2> QED BY <1>9, <2>1, <2>2
<1>19. PassedInv'
  <2> SUFFICES ASSUME NEW i \in 1 .. L - 1, NEW j \in DOMAIN succ[stack[i].node],
                      j < stack[i].next
               PROVE  \/ succ[stack[i].node][j] = succ_back_edge[stack[i].node]
                      \/ succ[stack[i].node][j] \in Elements(post_order)'
                      \/ i < L - 1 /\ succ[stack[i].node][j] = stack'[i + 1].node
    <3>1. \A i \in 1 .. L - 1 :
            stack'[i] = stack[i] /\ succ'[stack'[i].node] = succ[stack[i].node]
      BY <1>5, <1>8, <1>16
    <3>2. SUFFICES ASSUME NEW i \in 1 .. L - 1, NEW j \in DOMAIN succ'[stack'[i].node],
                          j < stack'[i].next
                   PROVE  \/ succ'[stack'[i].node][j] = succ_back_edge'[stack'[i].node]
                          \/ succ'[stack'[i].node][j] \in Elements(post_order)'
                          \/ i < L - 1 /\ succ'[stack'[i].node][j] = stack'[i + 1].node
      BY <1>5 DEF PassedInv, Elements
    <3> QED BY <1>3, <3>1, <3>2
  <2>1. \/ succ[stack[i].node][j] = succ_back_edge[stack[i].node]
        \/ succ[stack[i].node][j] \in Elements(post_order)
        \/ succ[stack[i].node][j] = stack[i + 1].node
    BY <1>1, <1>5 DEF PassedInv
  <2>2. CASE i < L - 1
    <3>1. i + 1 \in 1 .. L - 1
      BY <1>2, <2>2
    <3>2. stack'[i + 1].node = stack[i + 1].node
      BY <1>5, <3>1
    <3> QED BY <1>11, <2>1, <2>2, <3>2
  <2>3. CASE i = L - 1
    <3>1. stack[i + 1].node = n
      BY <1>2, <2>3 DEF Top
    <3> QED BY <1>11, <2>1, <3>1
  <2>4. i < L - 1 \/ i = L - 1
    BY <1>2
  <2> QED BY <2>2, <2>3, <2>4
<1> QED BY <1>14, <1>15, <1>17, <1>18, <1>19 DEF VisitInv

-----------------------------------------------------------------------------
(* The theorems.                                                           *)

\* The invariant of the traversals.
THEOREM VisitInvariant == CVSpec => []VisitInv
<1>1. CVInit => VisitInv
  BY InitInv
<1>2. VisitInv /\ [CVNext]_visitVars => VisitInv'
  <2> SUFFICES ASSUME VisitInv, [CVNext]_visitVars PROVE VisitInv'
    OBVIOUS
  <2>1. CASE VisitSucc
    BY <2>1, VisitSuccInv
  <2>2. CASE RecordBackEdge
    BY <2>2, RecordBackEdgeInv
  <2>3. CASE ReturnFromAnalysis
    BY <2>3, ReturnFromAnalysisInv
  <2>4. CASE Recompute
    BY <2>4, RecomputeInv
  <2>5. CASE VisitBackEdge
    BY <2>5, VisitBackEdgeInv
  <2>6. CASE ReturnFromVisit
    BY <2>6, ReturnFromVisitInv
  <2>7. CASE UNCHANGED visitVars
    <3>1. UNCHANGED <<phase, num_nodes, succ, succ_back_edge, visited, stack, post_order>>
      BY <2>7 DEF visitVars, graphVars, backEdgeVars
    <3>2. Nodes' = Nodes /\ Traversing' = Traversing /\ Elements(post_order)' = Elements(post_order)
      BY <3>1 DEF Nodes, Traversing, Elements
    <3>3. TypeInv' = TypeInv
      BY <3>1, <3>2 DEF TypeInv
    <3>4. GraphInv => GraphInv'
      BY <3>1, <3>2 DEF GraphInv, Distinct, Elements
    <3>5. CallInv => CallInv'
      BY <3>1, <3>2 DEF CallInv, Distinct
    <3>6. ReturnedInv => ReturnedInv'
      BY <3>1 DEF ReturnedInv, Elements
    <3>7. PassedInv => PassedInv'
      BY <3>1, <3>2 DEF PassedInv
    <3> QED BY <3>1, <3>3, <3>4, <3>5, <3>6, <3>7 DEF VisitInv
  <2> QED BY <2>1, <2>2, <2>3, <2>4, <2>5, <2>6, <2>7 DEF CVNext
<1> QED BY <1>1, <1>2, PTL DEF CVSpec

\* Whatever the function and however often it was traversed before, the
\* branches that visit leaves lead to lower post-order numbers: without its back
\* edges the graph is acyclic.
THEOREM BranchesDescend == CVSpec => []ForwardEdgesDescend
<1>1. VisitInv => ForwardEdgesDescend
  <2> SUFFICES ASSUME VisitInv, phase = "visited",
                      NEW n \in visited, NEW s \in Elements(succ[n])
               PROVE  s \in visited /\ Order(s) < Order(n)
    BY DEF ForwardEdgesDescend
  <2>1. TypeInv /\ CallInv /\ ReturnedInv /\ stack = << >>
    BY DEF VisitInv, CallInv
  <2>2. visited = Elements(post_order) /\ Distinct(post_order)
    <3>1. Traversing = {}
      BY <2>1 DEF Traversing
    <3> QED BY <2>1, <3>1 DEF CallInv
  <2>3. PICK k \in DOMAIN post_order : post_order[k] = n
    BY <2>2 DEF Elements
  <2>4. PICK j \in 1 .. k - 1 : post_order[j] = s
    BY <2>1, <2>3 DEF ReturnedInv
  <2>5. k \in Nat /\ j \in DOMAIN post_order /\ j < k
    BY <2>1, <2>4 DEF TypeInv
  <2>6. Order(n) = k
    BY <2>2, <2>3 DEF Order, Distinct
  <2>7. Order(s) = j
    BY <2>2, <2>4, <2>5 DEF Order, Distinct
  <2> QED BY <2>2, <2>4, <2>5, <2>6, <2>7 DEF Elements
<1> QED BY <1>1, VisitInvariant, PTL

-----------------------------------------------------------------------------
(* Lists that are built element by element.                                *)

\* A set of numbers that is not empty has a least one.
LEMMA Least ==
  ASSUME NEW T, T \subseteq Nat, T # {}
  PROVE  \E x \in T : \A y \in T : x <= y
<1>1. PICK x \in T : \A y \in T : ~ (<<y, x>> \in OpToRel(<, Nat))
  BY NatLessThanWellFounded, WFMin, Zenon
<1>2. ASSUME NEW y \in T, y < x PROVE FALSE
  <2>1. <<y, x>> \in Nat \X Nat /\ <<y, x>>[1] < <<y, x>>[2]
    BY <1>2
  <2>2. <<y, x>> \in OpToRel(<, Nat)
    BY <2>1, Zenon DEF OpToRel
  <2> QED BY <1>1, <2>2, Zenon
<1> QED BY <1>2

\* Induction up to a number.
LEMMA SetInduction ==
  ASSUME NEW P, NEW n \in Nat, 0 \in P, \A i \in 0 .. n - 1 : i \in P => i + 1 \in P
  PROVE  0 .. n \subseteq P
<1> DEFINE T == {i \in 0 .. n : i \notin P}
<1>1. SUFFICES ASSUME T # {} PROVE FALSE
  OBVIOUS
<1>2. PICK x \in T : \A y \in T : x <= y
  <2>1. T \subseteq Nat
    OBVIOUS
  <2> HIDE DEF T
  <2> QED BY <1>1, <2>1, Least
<1>3. x \in 1 .. n /\ x - 1 \notin T
  BY <1>2
<1>4. x - 1 \in P /\ x - 1 \in 0 .. n - 1
  BY <1>3
<1>5. x - 1 + 1 \in P
  BY <1>4
<1> QED BY <1>2, <1>3, <1>5

\* What EraseAll has built of the first k elements of s.
Built(s, es, k, f) ==
  /\ DOMAIN f = 0 .. k
  /\ \A i \in 0 .. k :
       f[i] = IF i = 0 THEN << >> ELSE IF s[i] \in es THEN f[i - 1] ELSE Append(f[i - 1], s[i])

\* The recursive definition of EraseAll has a solution.
LEMMA BuiltExists ==
  ASSUME NEW s, NEW es, NEW n \in Nat
  PROVE  \E f : Built(s, es, n, f)
<1> DEFINE P == {k \in Nat : \E f : Built(s, es, k, f)}
<1>1. 0 \in P
  <2>1. Built(s, es, 0, [i \in 0 .. 0 |-> << >>])
    BY DEF Built
  <2> QED BY <2>1, Zenon
<1>2. ASSUME NEW k \in 0 .. n - 1, k \in P PROVE k + 1 \in P
  <2>1. PICK f : Built(s, es, k, f)
    BY <1>2
  <2> DEFINE last == IF s[k + 1] \in es THEN f[k] ELSE Append(f[k], s[k + 1])
             g == [i \in 0 .. k + 1 |-> IF i = k + 1 THEN last ELSE f[i]]
  <2>2. k \in Nat /\ k + 1 \in Nat
    OBVIOUS
  <2>3. g[k + 1] = last /\ \A i \in 0 .. k : g[i] = f[i]
    BY <2>2
  <2>4. DOMAIN g = 0 .. k + 1
    OBVIOUS
  <2>5. ASSUME NEW i \in 0 .. k + 1
        PROVE  g[i] = IF i = 0 THEN << >> ELSE IF s[i] \in es THEN g[i - 1] ELSE Append(g[i - 1], s[i])
    <3> HIDE DEF g
    <3>1. CASE i = k + 1
      <4>1. i # 0 /\ i - 1 = k /\ k \in 0 .. k
        BY <2>2, <3>1
      <4> QED BY <2>3, <3>1, <4>1
    <3>2. CASE i \in 1 .. k
      <4>1. i - 1 \in 0 .. k /\ i \in 0 .. k
        BY <2>2, <3>2
      <4> QED BY <2>1, <2>3, <3>2, <4>1 DEF Built
    <3>3. CASE i = 0
      BY <2>1, <2>2, <2>3, <3>3 DEF Built
    <3> QED BY <2>2, <3>1, <3>2, <3>3
  <2> HIDE DEF g
  <2>6. Built(s, es, k + 1, g)
    BY <2>4, <2>5 DEF Built
  <2> QED BY <2>2, <2>6, Zenon
<1> HIDE DEF P
<1>3. 0 .. n \subseteq P
  BY <1>1, <1>2, SetInduction
<1> QED BY <1>3 DEF P

\* EraseAll is the last list of that solution.
LEMMA EraseAllBuilt ==
  ASSUME NEW S, NEW s \in Seq(S), NEW es
  PROVE  \E f : Built(s, es, Len(s), f) /\ EraseAll(s, es) = f[Len(s)]
<1> DEFINE Rest == CHOOSE f : f = [i \in 0 .. Len(s) |->
        IF i = 0 THEN << >> ELSE IF s[i] \in es THEN f[i - 1] ELSE Append(f[i - 1], s[i])]
<1>1. EraseAll(s, es) = Rest[Len(s)]
  BY Zenon DEF EraseAll
<1>2. Len(s) \in Nat
  OBVIOUS
<1>3. PICK f : Built(s, es, Len(s), f)
  BY <1>2, BuiltExists
<1>4. f = [i \in 0 .. Len(s) |->
        IF i = 0 THEN << >> ELSE IF s[i] \in es THEN f[i - 1] ELSE Append(f[i - 1], s[i])]
  <2>1. f = [i \in 0 .. Len(s) |-> f[i]]
    BY <1>3 DEF Built
  <2> QED BY <1>3, <2>1 DEF Built
<1>5. Rest = [i \in 0 .. Len(s) |->
        IF i = 0 THEN << >> ELSE IF s[i] \in es THEN Rest[i - 1] ELSE Append(Rest[i - 1], s[i])]
  BY <1>4, Zenon
<1> HIDE DEF Rest
<1>6. Built(s, es, Len(s), Rest)
  <2>1. DOMAIN Rest = 0 .. Len(s)
    BY <1>5, Zenon
  <2>2. ASSUME NEW i \in 0 .. Len(s)
        PROVE  Rest[i] = IF i = 0 THEN << >> ELSE IF s[i] \in es THEN Rest[i - 1] ELSE Append(Rest[i - 1], s[i])
    BY <1>5, Zenon
  <2> QED BY <2>1, <2>2 DEF Built
<1> QED BY <1>1, <1>6, Zenon

\* EraseAll takes the elements of a set out of a list.
LEMMA EraseAllFacts ==
  ASSUME NEW S, NEW s \in Seq(S), NEW es
  PROVE  /\ EraseAll(s, es) \in Seq(S)
         /\ Elements(EraseAll(s, es)) = Elements(s) \ es
         /\ Distinct(s) => Distinct(EraseAll(s, es))
<1> DEFINE n == Len(s)
<1>1. n \in Nat /\ DOMAIN s = 1 .. n
  OBVIOUS
<1>2. PICK f : Built(s, es, n, f) /\ EraseAll(s, es) = f[n]
  BY EraseAllBuilt
<1> DEFINE Upto(k) == {s[j] : j \in 1 .. k} \ es
           P == {k \in 0 .. n : /\ f[k] \in Seq(S)
                                /\ Elements(f[k]) = Upto(k)
                                /\ Distinct(s) => Distinct(f[k])}
<1>3. 0 \in P
  <2>1. f[0] = << >>
    BY <1>1, <1>2 DEF Built
  <2>2. Upto(0) = {}
    OBVIOUS
  <2>3. << >> \in Seq(S) /\ Elements(<< >>) = {} /\ Distinct(<< >>)
    BY DEF Elements, Distinct
  <2>4. 0 \in 0 .. n
    BY <1>1
  <2> HIDE DEF Upto
  <2> QED BY <2>1, <2>2, <2>3, <2>4
<1>4. ASSUME NEW k \in 0 .. n - 1, k \in P PROVE k + 1 \in P
  <2>1. k \in Nat /\ k + 1 \in 1 .. n /\ k + 1 \in 0 .. n /\ k + 1 # 0 /\ k + 1 - 1 = k
    BY <1>1
  <2>2. f[k + 1] = IF s[k + 1] \in es THEN f[k] ELSE Append(f[k], s[k + 1])
    <3>1. ASSUME NEW i \in 0 .. n
          PROVE  f[i] = IF i = 0 THEN << >> ELSE IF s[i] \in es THEN f[i - 1] ELSE Append(f[i - 1], s[i])
      BY <1>2, Zenon DEF Built
    <3> HIDE DEF n
    <3>2. f[k + 1] = IF s[k + 1] \in es THEN f[k + 1 - 1] ELSE Append(f[k + 1 - 1], s[k + 1])
      BY <2>1, <3>1
    <3> QED BY <2>1, <3>2
  <2>3. /\ f[k] \in Seq(S) /\ Elements(f[k]) = Upto(k)
        /\ Distinct(s) => Distinct(f[k])
    BY <1>4
  <2>4. s[k + 1] \in S
    <3>1. k + 1 \in DOMAIN s
      BY <1>1, <2>1
    <3> QED BY <3>1
  <2>5. Upto(k + 1) = Upto(k) \cup ({s[k + 1]} \ es)
    <3>1. \A j \in 1 .. k + 1 : j \in 1 .. k \/ j = k + 1
      BY <2>1
    <3>2. k + 1 \in 1 .. k + 1 /\ \A j \in 1 .. k : j \in 1 .. k + 1
      BY <2>1
    <3> QED BY <3>1, <3>2
  <2>6. Distinct(s) => s[k + 1] \notin Upto(k)
    <3>1. \A j \in 1 .. k : j \in DOMAIN s /\ k + 1 \in DOMAIN s /\ j # k + 1
      BY <1>1, <2>1
    <3> QED BY <3>1 DEF Distinct
  <2> HIDE DEF Upto
  <2>7. CASE s[k + 1] \in es
    BY <2>1, <2>2, <2>3, <2>5, <2>7
  <2>8. CASE s[k + 1] \notin es
    <3>1. /\ Append(f[k], s[k + 1]) \in Seq(S)
          /\ Elements(Append(f[k], s[k + 1])) = Elements(f[k]) \cup {s[k + 1]}
          /\ Distinct(f[k]) /\ s[k + 1] \notin Elements(f[k]) => Distinct(Append(f[k], s[k + 1]))
      BY <2>3, <2>4, AppendFacts
    <3> QED BY <2>1, <2>2, <2>3, <2>5, <2>6, <2>8, <3>1
  <2> QED BY <2>7, <2>8
<1> HIDE DEF P
<1>5. 0 .. n \subseteq P
  BY <1>1, <1>3, <1>4, SetInduction
<1>6. n \in P
  BY <1>1, <1>5
<1>7. Upto(n) = Elements(s) \ es
  BY <1>1 DEF Elements
<1> QED BY <1>2, <1>6, <1>7 DEF P

\* A branch, wherever it is recorded at the block it leaves.
Branch(a, b) == b \in Elements(succ[a]) \/ succ_back_edge[a] = b

\* The types of the variables VisitInv leaves out.
ListsInv ==
  /\ phase \in {"analysis", "visit", "visited",
                "block has two back edges", "header has two back edges"}
  /\ visits \in 0 .. MaxVisits
  /\ num_nodes >= NumBlocks
  /\ pred \in [Nodes -> Seq(Nodes)]
  /\ fake_pred \in [Nodes -> Seq(Nodes)]
  /\ pred_back_edge \in [Nodes -> Nodes \cup {Null}]

\* A branch is recorded at the block it leads to as well.
EndsInv ==
  /\ \A n \in Nodes : Distinct(pred[n])
  /\ \A a, b \in Nodes : succ_back_edge[a] = b <=> pred_back_edge[b] = a
  /\ \A a, b \in Nodes : Branch(a, b) <=> a \in Elements(pred[b]) \/ pred_back_edge[b] = a
  /\ \A n \in Nodes : pred_back_edge[n] # Null => n \in visited
  /\ phase = "analysis" => \A n \in Nodes : pred_back_edge[n] = Null
  /\ phase \in {"visit", "visited"} =>
       \A n \in Elements(post_order) : pred_back_edge[n] \notin Elements(pred[n])

\* A block that merges back edges branches to its header only, and where the
\* branches of the others lead is the input function.
OriginInv ==
  /\ \A m \in Nodes \ Blocks : \E h \in Blocks : \A x \in Nodes : Branch(m, x) <=> x = h
  /\ \A a \in Blocks :
       {Leads(s) : s \in {t \in Nodes : Branch(a, t)}} = {b \in Blocks : <<a, b>> \in origin}

\* The successors of block l before a position lead to block h.
BranchPassed(l, h, next) == \E j \in DOMAIN succ[l] : j < next /\ succ[l][j] = h

\* The analysis: calls of blocks of the input function, and the branches back to
\* an open call.
LatchInv ==
  /\ visited \subseteq Blocks /\ Traversing \subseteq visited
  /\ \A i, j \in DOMAIN stack : stack[i].node = stack[j].node => i = j
  /\ \A a \in Blocks : a \notin visited \/ a \in Traversing => Elements(succ[a]) \subseteq Blocks
  /\ \A n \in Nodes : Distinct(fake_pred[n]) /\ (fake_pred[n] # << >> => n \in visited)
  /\ \A k \in DOMAIN stack : \A l \in Elements(fake_pred[stack[k].node]) :
       /\ l \in visited /\ stack[k].node \in Elements(succ[l])
       /\ \A i \in DOMAIN stack : stack[i].node = l =>
            i >= k /\ BranchPassed(l, stack[k].node, stack[i].next)

\* The invariant of the branches.
EdgesInv ==
  /\ ListsInv /\ EndsInv /\ OriginInv
  /\ phase = "analysis" => LatchInv

-----------------------------------------------------------------------------
(* Branches at both of their ends.                                         *)

\* The blocks of the function come first in the pool (create_node).
LEMMA BlocksAreNodes ==
  ASSUME num_nodes \in Nat, num_nodes >= NumBlocks
  PROVE  Blocks \subseteq Nodes /\ Null \notin Nodes /\ entry_block \in Blocks
BY CVConstants DEF Blocks, Nodes, Null, entry_block

\* A block that merges back edges leads to the header it branches to.
LEMMA LeadsTo ==
  ASSUME Blocks \subseteq Nodes, NEW m, NEW h \in Blocks, m \notin Blocks,
         \A x \in Nodes : Branch(m, x) <=> x = h
  PROVE  Leads(m) = h
<1>1. \A x \in Blocks : (x \in Elements(succ[m]) \/ x = succ_back_edge[m]) <=> x = h
  BY DEF Branch
<1> QED BY <1>1 DEF Leads

\* What keeps every branch keeps where it leads.
LEMMA OriginKept ==
  ASSUME OriginInv, Blocks \subseteq Nodes, UNCHANGED <<num_nodes, origin>>,
         \A a, b \in Nodes : Branch(a, b)' <=> Branch(a, b)
  PROVE  OriginInv'
<1>1. Nodes' = Nodes
  BY DEF Nodes
<1>2. ASSUME NEW m \in Nodes \ Blocks
      PROVE  /\ \E h \in Blocks : \A x \in Nodes : Branch(m, x)' <=> x = h
             /\ Leads(m)' = Leads(m)
  <2>1. PICK h \in Blocks : \A x \in Nodes : Branch(m, x) <=> x = h
    BY DEF OriginInv
  <2>2. \A x \in Nodes : Branch(m, x)' <=> x = h
    BY <2>1
  <2>3. Leads(m) = h
    BY <2>1, LeadsTo
  <2>4. Leads(m)' = h
    <3>1. \A x \in Blocks : (x \in Elements(succ'[m]) \/ x = succ_back_edge'[m]) <=> x = h
      BY <2>2 DEF Branch
    <3> QED BY <3>1 DEF Leads
  <2> QED BY <2>2, <2>3, <2>4
<1>3. \A m \in Nodes : Leads(m)' = Leads(m)
  <2>1. \A m \in Blocks : Leads(m)' = m /\ Leads(m) = m
    BY DEF Leads
  <2> QED BY <1>2, <2>1
<1>4. ASSUME NEW a \in Blocks
      PROVE  {Leads(s)' : s \in {t \in Nodes' : Branch(a, t)'}} = {b \in Blocks : <<a, b>> \in origin'}
  <2>1. {t \in Nodes' : Branch(a, t)'} = {t \in Nodes : Branch(a, t)}
    BY <1>1
  <2>2. {Leads(s)' : s \in {t \in Nodes : Branch(a, t)}} = {Leads(s) : s \in {t \in Nodes : Branch(a, t)}}
    BY <1>3
  <2> QED BY <2>1, <2>2 DEF OriginInv
<1> QED BY <1>1, <1>2, <1>4 DEF OriginInv

\* add_branch records a branch at both of its ends.
LEMMA EdgesInit == CVInit => EdgesInv
<1> SUFFICES ASSUME CVInit PROVE EdgesInv
  OBVIOUS
<1>1. NumBlocks \in Nat \ {0} /\ MaxVisits \in Nat \ {0} /\ IsFunction(succ)
  BY CVConstants DEF CVInit, FunctionInit
<1>2. num_nodes = NumBlocks /\ Nodes = Blocks
  BY DEF Nodes, Blocks, CVInit, FunctionInit
<1>a. /\ pred = [n \in Blocks |-> EraseAll([m \in Blocks |-> m], {m \in Blocks : n \notin Elements(succ[m])})]
      /\ fake_pred = [n \in Blocks |-> << >>] /\ pred_back_edge = [n \in Blocks |-> Null]
      /\ succ_back_edge = [n \in Blocks |-> Null]
      /\ phase = "analysis" /\ stack = <<Frame(entry_block)>> /\ visited = {entry_block}
      /\ post_order = << >> /\ origin = Edges(succ) /\ visits = 0
  BY DEF CVInit, FunctionInit
<1>3. /\ entry_block \in Blocks /\ Null \notin Blocks
      /\ \A n \in Blocks : succ[n] \in Seq(Blocks) /\ Distinct(succ[n])
  <2>1. \A n \in Blocks : succ[n] \in Seq(Blocks \ {entry_block})
    BY <1>1 DEF IsFunction
  <2>2. \A n \in Blocks : succ[n] \in Seq(Blocks)
    BY <2>1, SeqInLarger
  <2>3. \A n \in Blocks : Distinct(succ[n])
    BY <1>1 DEF IsFunction, Distinct
  <2>4. entry_block \in Blocks /\ Null \notin Blocks
    BY <1>1 DEF Blocks, entry_block, Null
  <2> QED BY <2>2, <2>3, <2>4
<1> DEFINE all == [m \in Blocks |-> m]
<1>4. all \in Seq(Blocks) /\ Distinct(all) /\ Elements(all) = Blocks
  <2>1. all \in Seq(Blocks) /\ DOMAIN all = Blocks
    <3>1. DOMAIN all = 1 .. NumBlocks /\ NumBlocks \in Nat /\ \A m \in 1 .. NumBlocks : all[m] \in Blocks
      BY <1>1 DEF Blocks
    <3>2. all = [m \in 1 .. NumBlocks |-> all[m]]
      BY DEF Blocks
    <3> HIDE DEF all
    <3>3. all \in Seq(Blocks)
      BY <3>1, <3>2
    <3> QED BY <3>1, <3>3 DEF Blocks
  <2> QED BY <2>1 DEF Distinct, Elements
<1>5. ASSUME NEW n \in Blocks
      PROVE  /\ pred[n] \in Seq(Blocks) /\ Distinct(pred[n])
             /\ Elements(pred[n]) = {m \in Blocks : n \in Elements(succ[m])}
  <2> DEFINE others == {m \in Blocks : n \notin Elements(succ[m])}
  <2>1. pred[n] = EraseAll(all, others)
    BY <1>a
  <2> HIDE DEF all, others
  <2>2. pred[n] \in Seq(Blocks) /\ Distinct(pred[n]) /\ Elements(pred[n]) = Blocks \ others
    BY <1>4, <2>1, EraseAllFacts
  <2> QED BY <2>2 DEF others
<1> HIDE DEF all
<1>6. ListsInv
  <2>1. pred \in [Nodes -> Seq(Nodes)]
    <3>1. pred = [n \in Blocks |-> pred[n]]
      BY <1>a
    <3> QED BY <1>2, <1>5, <3>1
  <2>2. fake_pred \in [Nodes -> Seq(Nodes)]
    BY <1>2, <1>a
  <2>3. pred_back_edge \in [Nodes -> Nodes \cup {Null}]
    BY <1>2, <1>a
  <2> QED BY <1>1, <1>2, <1>a, <2>1, <2>2, <2>3 DEF ListsInv
<1>7. \A n \in Blocks : succ_back_edge[n] = Null /\ pred_back_edge[n] = Null /\ fake_pred[n] = << >>
  BY <1>a
<1>8. phase = "analysis" /\ stack = <<Frame(entry_block)>> /\ visited = {entry_block}
      /\ post_order = << >> /\ origin = Edges(succ)
  BY <1>a
<1>9. \A n \in Blocks : Elements(succ[n]) \subseteq Blocks
  BY <1>3 DEF Elements
<1> USE <1>2
<1>10. EndsInv
  BY <1>3, <1>5, <1>7, <1>8, <1>9 DEF EndsInv, Branch
<1>11. OriginInv
  <2>1. ASSUME NEW a \in Blocks
        PROVE  {Leads(s) : s \in {t \in Nodes : Branch(a, t)}} = {b \in Blocks : <<a, b>> \in origin}
    <3>1. DOMAIN succ = Blocks
      BY <1>1 DEF IsFunction
    <3>2. {t \in Nodes : Branch(a, t)} = Elements(succ[a])
      BY <1>3, <1>7, <1>9 DEF Branch
    <3>3. {b \in Blocks : <<a, b>> \in origin} = Elements(succ[a])
      BY <1>8, <1>9, <3>1 DEF Edges
    <3>4. \A s \in Elements(succ[a]) : Leads(s) = s
      BY <1>9 DEF Leads
    <3>5. {Leads(s) : s \in Elements(succ[a])} = Elements(succ[a])
      BY <3>4
    <3> QED BY <3>2, <3>3, <3>5
  <2> QED BY <2>1 DEF OriginInv
<1>12. LatchInv
  <2>1. /\ DOMAIN stack = {1} /\ stack[1].node = entry_block
        /\ Traversing = {entry_block}
    <3>1. DOMAIN stack = {1} /\ stack[1] = Frame(entry_block)
      BY <1>8
    <3> QED BY <3>1 DEF Frame, Traversing
  <2>2. \A n \in Blocks : Elements(fake_pred[n]) = {}
    BY <1>7 DEF Elements
  <2>3. visited \subseteq Blocks /\ Traversing \subseteq visited
    BY <1>3, <1>8, <2>1
  <2>4. \A n \in Nodes : Distinct(fake_pred[n]) /\ (fake_pred[n] # << >> => n \in visited)
    BY <1>7 DEF Distinct
  <2>5. \A k \in DOMAIN stack : Elements(fake_pred[stack[k].node]) = {}
    BY <1>3, <2>1, <2>2
  <2>6. \A i, j \in DOMAIN stack : i = j
    BY <2>1
  <2> QED BY <1>9, <2>3, <2>4, <2>5, <2>6 DEF LatchInv
<1> QED BY <1>6, <1>8, <1>10, <1>11, <1>12 DEF EdgesInv

\* A step that only goes on with the traversal keeps the branches.
LEMMA BranchesKept ==
  ASSUME TypeInv, ListsInv, EndsInv, OriginInv,
         UNCHANGED <<phase, visits, origin, num_nodes, succ, pred, succ_back_edge, pred_back_edge, post_order>>,
         visited \subseteq visited', fake_pred' \in [Nodes -> Seq(Nodes)]
  PROVE  ListsInv' /\ EndsInv' /\ OriginInv'
<1>1. Nodes' = Nodes
  BY DEF Nodes
<1>2. \A a, b : Branch(a, b)' <=> Branch(a, b)
  BY DEF Branch, Elements
<1>3. ListsInv'
  BY <1>1 DEF ListsInv
<1>4. EndsInv'
  <2>1. \A n \in Nodes : Distinct(pred[n])'
    BY DEF EndsInv, Distinct
  <2>2. \A n : Elements(pred[n])' = Elements(pred[n])
    BY DEF Elements
  <2>3. Elements(post_order)' = Elements(post_order)
    BY DEF Elements
  <2> QED BY <1>1, <1>2, <2>1, <2>2, <2>3 DEF EndsInv
<1>5. Blocks \subseteq Nodes
  BY BlocksAreNodes DEF TypeInv, ListsInv
<1>6. OriginInv'
  BY <1>2, <1>5, OriginKept
<1> QED BY <1>3, <1>4, <1>6

\* Passing a branch changes none.
LEMMA VisitSuccEdges == VisitInv /\ EdgesInv /\ VisitSucc => EdgesInv'
<1> SUFFICES ASSUME VisitInv, EdgesInv, VisitSucc PROVE EdgesInv'
  OBVIOUS
<1> DEFINE n == Top.node
           s == NextSucc
           L == Len(stack)
<1>1. TypeInv /\ GraphInv /\ stack # << >> /\ Top.next <= Len(succ[n])
  BY DEF VisitInv, VisitSucc, MoreSucc
<1>2. /\ L \in Nat \ {0} /\ DOMAIN stack = 1 .. L
      /\ n \in Nodes /\ Top.next \in Nat \ {0} /\ n \in Traversing
      /\ Advance \in Seq(FrameType) /\ Len(Advance) = L /\ DOMAIN Advance = DOMAIN stack
      /\ \A i \in DOMAIN stack : Advance[i].node = stack[i].node
      /\ \A i \in DOMAIN stack : i < L => Advance[i].next = stack[i].next
      /\ Advance[L].next = Top.next + 1
  BY <1>1, AdvanceFacts DEF Top
<1>f. \A k \in 1 .. L : stack[k] \in FrameType
  <2>1. stack \in Seq(FrameType)
    BY <1>1 DEF TypeInv, FrameType
  <2> QED BY <1>2, <2>1
<1>3. succ[n] \in Seq(Nodes) /\ Top.next \in DOMAIN succ[n] /\ s \in Nodes
  BY <1>1, <1>2 DEF TypeInv, NextSucc
<1>4. /\ UNCHANGED <<phase, visits, origin, num_nodes, succ, pred, succ_back_edge, pred_back_edge,
                     fake_pred, post_order>>
      /\ s \notin Traversing
  BY DEF VisitSucc, graphVars, backEdgeVars
<1>5. visited \subseteq visited' /\ Nodes' = Nodes
  BY <1>4 DEF VisitSucc, Nodes
<1>6. ListsInv' /\ EndsInv' /\ OriginInv'
  BY <1>1, <1>4, <1>5, BranchesKept DEF EdgesInv, ListsInv
<1>7. ASSUME phase = "analysis" PROVE LatchInv'
  <2>1. LatchInv
    BY <1>7 DEF EdgesInv
  <2>2. \A k \in 1 .. L : stack[k].node \in Nodes
    BY <1>1, <1>2, StackNodes
  <2>3. \A k \in 1 .. L : Advance[k].node = stack[k].node /\ Advance[k].next >= stack[k].next
    <3>1. \A k \in 1 .. L : stack[k].next \in Nat
      <4> QED BY <1>f DEF FrameType
    <3> QED BY <1>2, <3>1 DEF Top
  <2>4. s \in Blocks
    <3>1. n \in Blocks
      BY <1>2, <2>1 DEF LatchInv
    <3>2. s \in Elements(succ[n])
      BY <1>3 DEF NextSucc, Elements
    <3> QED BY <1>2, <2>1, <3>1, <3>2 DEF LatchInv
  <2>5. ASSUME NEW k \in 1 .. L, NEW l \in Elements(fake_pred[stack[k].node])
        PROVE  /\ l \in visited /\ stack[k].node \in Elements(succ[l])
               /\ \A i \in 1 .. L : stack[i].node = l =>
                    /\ i >= k
                    /\ BranchPassed(l, stack[k].node, Advance[i].next)
    <3>1. /\ l \in visited /\ stack[k].node \in Elements(succ[l])
          /\ \A i \in 1 .. L : stack[i].node = l =>
               i >= k /\ BranchPassed(l, stack[k].node, stack[i].next)
      BY <1>2, <2>1 DEF LatchInv
    <3>2. ASSUME NEW i \in 1 .. L, stack[i].node = l
          PROVE  BranchPassed(l, stack[k].node, Advance[i].next)
      <4>1. PICK j \in DOMAIN succ[l] : j < stack[i].next /\ succ[l][j] = stack[k].node
        BY <3>1, <3>2 DEF BranchPassed
      <4>2. stack[i] \in FrameType /\ Advance[i] \in FrameType
        BY <1>2, <1>f
      <4>3. stack[i].next \in Nat /\ Advance[i].next \in Nat
        BY <4>2 DEF FrameType
      <4>4. j \in Nat
        <5>1. succ[l] \in Seq(Nodes)
          BY <1>1, <2>2, <3>2 DEF TypeInv
        <5> QED BY <5>1
      <4>5. j < Advance[i].next
        BY <2>3, <4>1, <4>3, <4>4
      <4> QED BY <4>1, <4>5 DEF BranchPassed
    <3> QED BY <3>1, <3>2
  <2>6. CASE s \in visited
    <3>1. stack' = Advance /\ visited' = visited
      BY <2>6 DEF VisitSucc
    <3>2. Traversing' = Traversing
      BY <1>2, <3>1 DEF Traversing
    <3>3. \A i, j \in DOMAIN stack' : stack'[i].node = stack'[j].node => i = j
      BY <1>2, <2>1, <3>1 DEF LatchInv
    <3>4. \A k \in DOMAIN stack' : \A l \in Elements(fake_pred[stack'[k].node]) :
            /\ l \in visited /\ stack'[k].node \in Elements(succ[l])
            /\ \A i \in DOMAIN stack' : stack'[i].node = l =>
                 i >= k /\ BranchPassed(l, stack'[k].node, stack'[i].next)
      <4>1. DOMAIN stack' = 1 .. L /\ \A i \in 1 .. L : stack'[i].node = stack[i].node /\ stack'[i].next = Advance[i].next
        BY <1>2, <3>1
      <4> SUFFICES ASSUME NEW k \in 1 .. L, NEW l \in Elements(fake_pred[stack[k].node])
                   PROVE  /\ l \in visited /\ stack[k].node \in Elements(succ[l])
                          /\ \A i \in 1 .. L : stack[i].node = l =>
                               i >= k /\ BranchPassed(l, stack[k].node, Advance[i].next)
        BY <4>1
      <4> QED BY <2>5
    <3> QED BY <1>4, <1>5, <2>1, <3>1, <3>2, <3>3, <3>4 DEF LatchInv, Elements, Distinct, BranchPassed
  <2>7. CASE s \notin visited
    <3>1. stack' = Append(Advance, Frame(s)) /\ visited' = visited \cup {s}
      BY <2>7 DEF VisitSucc
    <3>2. Frame(s) \in FrameType /\ Frame(s).node = s
      BY <1>3 DEF Frame, FrameType
    <3>3. /\ DOMAIN stack' = 1 .. L + 1 /\ stack'[L + 1].node = s
          /\ \A i \in 1 .. L : stack'[i] = Advance[i]
      BY <1>2, <3>1, <3>2
    <3>4. \A i \in 1 .. L + 1 : i \in 1 .. L \/ i = L + 1
      BY <1>2
    <3>5. \A i \in 1 .. L : stack'[i].node = stack[i].node /\ stack[i].node \in visited
      <4>1. \A i \in 1 .. L : stack[i].node \in Traversing
        BY <1>2 DEF Traversing
      <4> QED BY <1>2, <2>1, <3>3, <4>1 DEF LatchInv
    <3>6. Traversing' = Traversing \cup {s}
      <4>1. L + 1 \in DOMAIN stack'
        BY <1>2, <3>3
      <4>2. \A i \in 1 .. L : i \in DOMAIN stack'
        BY <1>2, <3>3
      <4>3. \A i \in DOMAIN stack' : stack'[i].node \in Traversing \cup {s}
        BY <1>2, <3>3, <3>4, <3>5 DEF Traversing
      <4>4. s \in Traversing'
        BY <3>3, <4>1 DEF Traversing
      <4>5. \A i \in DOMAIN stack : stack[i].node \in Traversing'
        BY <1>2, <3>5, <4>2 DEF Traversing
      <4> QED BY <4>3, <4>4, <4>5 DEF Traversing
    <3>7. \A i, j \in DOMAIN stack' : stack'[i].node = stack'[j].node => i = j
      <4>1. \A i, j \in 1 .. L : stack'[i].node = stack'[j].node => i = j
        BY <1>2, <2>1, <3>5 DEF LatchInv
      <4> QED BY <2>7, <3>3, <3>4, <3>5, <4>1
    <3>8. Elements(fake_pred[s]) = {}
      BY <1>3, <2>1, <2>7 DEF LatchInv, Elements
    <3>9. \A k \in DOMAIN stack' : \A l \in Elements(fake_pred[stack'[k].node]) :
            /\ l \in visited' /\ stack'[k].node \in Elements(succ[l])
            /\ \A i \in DOMAIN stack' : stack'[i].node = l =>
                 i >= k /\ BranchPassed(l, stack'[k].node, stack'[i].next)
      <4> SUFFICES ASSUME NEW k \in 1 .. L + 1, NEW l \in Elements(fake_pred[stack'[k].node])
                   PROVE  /\ l \in visited' /\ stack'[k].node \in Elements(succ[l])
                          /\ \A i \in 1 .. L + 1 : stack'[i].node = l =>
                               i >= k /\ BranchPassed(l, stack'[k].node, stack'[i].next)
        BY <3>3
      <4>1. k \in 1 .. L /\ stack'[k].node = stack[k].node
        BY <3>3, <3>4, <3>5, <3>8
      <4>2. l \in visited /\ l # s
        BY <2>5, <2>7, <4>1
      <4> QED BY <2>5, <3>1, <3>3, <3>4, <3>5, <4>1, <4>2
    <3>10. /\ visited' \subseteq Blocks /\ Traversing' \subseteq visited'
           /\ \A a \in Blocks : a \notin visited' \/ a \in Traversing' => Elements(succ[a]) \subseteq Blocks
      BY <2>1, <2>4, <2>7, <3>1, <3>6 DEF LatchInv
    <3>11. \A m \in Nodes : Distinct(fake_pred[m]) /\ (fake_pred[m] # << >> => m \in visited')
      BY <2>1, <3>1 DEF LatchInv
    <3> QED BY <1>4, <1>5, <3>7, <3>9, <3>10, <3>11 DEF LatchInv, Elements, Distinct, BranchPassed
  <2> QED BY <2>6, <2>7
<1> QED BY <1>4, <1>6, <1>7 DEF EdgesInv

\* The analysis notes a branch that the latch has passed.
LEMMA RecordBackEdgeEdges == VisitInv /\ EdgesInv /\ RecordBackEdge => EdgesInv'
<1> SUFFICES ASSUME VisitInv, EdgesInv, RecordBackEdge PROVE EdgesInv'
  OBVIOUS
<1> DEFINE n == Top.node
           s == NextSucc
           L == Len(stack)
<1>1. TypeInv /\ GraphInv /\ stack # << >> /\ Top.next <= Len(succ[n]) /\ LatchInv /\ phase = "analysis"
  BY DEF VisitInv, RecordBackEdge, MoreSucc, EdgesInv
<1>2. /\ L \in Nat \ {0} /\ DOMAIN stack = 1 .. L
      /\ n \in Nodes /\ Top.next \in Nat \ {0} /\ n \in Traversing
      /\ Advance \in Seq(FrameType) /\ Len(Advance) = L /\ DOMAIN Advance = DOMAIN stack
      /\ \A i \in DOMAIN stack : Advance[i].node = stack[i].node
      /\ \A i \in DOMAIN stack : i < L => Advance[i].next = stack[i].next
      /\ Advance[L].next = Top.next + 1
  BY <1>1, AdvanceFacts DEF Top
<1>f. \A k \in 1 .. L : stack[k] \in FrameType
  <2>1. stack \in Seq(FrameType)
    BY <1>1 DEF TypeInv, FrameType
  <2> QED BY <1>2, <2>1
<1>3. succ[n] \in Seq(Nodes) /\ Distinct(succ[n]) /\ Top.next \in DOMAIN succ[n] /\ s \in Nodes
  <2>1. succ[n] \in Seq(Nodes) /\ Distinct(succ[n])
    BY <1>1, <1>2 DEF TypeInv, GraphInv
  <2> QED BY <1>1, <1>2, <2>1 DEF NextSucc
<1>4. /\ UNCHANGED <<phase, visits, origin, num_nodes, succ, pred, succ_back_edge, pred_back_edge,
                     visited, post_order>>
      /\ s \in Traversing /\ stack' = Advance
      /\ fake_pred' = [fake_pred EXCEPT ![s] = Append(@, n)]
  BY DEF RecordBackEdge, graphVars, backEdgeVars
<1>5. /\ fake_pred' \in [Nodes -> Seq(Nodes)] /\ fake_pred'[s] = Append(fake_pred[s], n)
      /\ \A m \in Nodes : m # s => fake_pred'[m] = fake_pred[m]
  <2>1. fake_pred \in [Nodes -> Seq(Nodes)]
    BY DEF EdgesInv, ListsInv
  <2>2. Append(fake_pred[s], n) \in Seq(Nodes)
    BY <1>2, <1>3, <2>1
  <2> QED BY <1>3, <1>4, <2>1, <2>2
<1>6. ListsInv' /\ EndsInv' /\ OriginInv'
  BY <1>1, <1>4, <1>5, BranchesKept DEF EdgesInv
<1>7. Nodes' = Nodes /\ Traversing' = Traversing
  <2>1. DOMAIN stack' = DOMAIN stack /\ \A i \in DOMAIN stack : stack'[i].node = stack[i].node
    BY <1>2, <1>4
  <2>2. Traversing' = Traversing
    BY <2>1 DEF Traversing
  <2> QED BY <1>4, <2>2 DEF Nodes
<1>8. \A k \in 1 .. L : /\ stack'[k].node = stack[k].node /\ stack[k].node \in Nodes
                        /\ stack[k].next \in Nat /\ stack'[k].next \in Nat
                        /\ stack'[k].next >= stack[k].next
  <2>1. \A k \in 1 .. L : stack[k].next \in Nat
    BY <1>f DEF FrameType
  <2> QED BY <1>1, <1>2, <1>4, <2>1, StackNodes DEF Top
<1>9. fake_pred[s] \in Seq(Nodes) /\ Elements(fake_pred'[s]) = Elements(fake_pred[s]) \cup {n}
  <2>1. fake_pred[s] \in Seq(Nodes)
    BY <1>3 DEF EdgesInv, ListsInv
  <2>2. Elements(Append(fake_pred[s], n)) = Elements(fake_pred[s]) \cup {n}
    BY <1>2, <2>1, AppendFacts
  <2> QED BY <1>5, <2>1, <2>2
<1>10. PICK k \in 1 .. L : stack[k].node = s
  BY <1>2, <1>4 DEF Traversing
<1>11. n \notin Elements(fake_pred[s])
  <2> SUFFICES ASSUME n \in Elements(fake_pred[s]) PROVE FALSE
    OBVIOUS
  <2>1. L \in DOMAIN stack /\ stack[L].node = n /\ stack[L].next = Top.next
    BY <1>2 DEF Top
  <2>2. BranchPassed(n, s, Top.next)
    BY <1>1, <1>2, <1>10, <2>1 DEF LatchInv
  <2>3. PICK j \in DOMAIN succ[n] : j < Top.next /\ succ[n][j] = s
    BY <2>2 DEF BranchPassed
  <2>4. j = Top.next
    BY <1>3, <2>3 DEF Distinct, NextSucc
  <2> QED BY <1>2, <2>3, <2>4
<1>12. Distinct(fake_pred'[s])
  BY <1>1, <1>2, <1>3, <1>5, <1>9, <1>11, AppendFacts DEF LatchInv
<1>13. s \in visited
  BY <1>1, <1>4 DEF LatchInv
<1>14. \A m \in Nodes' : Distinct(fake_pred'[m]) /\ (fake_pred'[m] # << >> => m \in visited')
  BY <1>1, <1>4, <1>5, <1>7, <1>12, <1>13 DEF LatchInv
<1>15. ASSUME NEW h \in 1 .. L, NEW l \in Elements(fake_pred'[stack[h].node])
       PROVE  /\ l \in visited /\ stack[h].node \in Elements(succ[l])
              /\ \A i \in 1 .. L : stack[i].node = l =>
                   i >= h /\ BranchPassed(l, stack[h].node, stack'[i].next)
  <2>1. CASE l \in Elements(fake_pred[stack[h].node])
    <3>1. /\ l \in visited /\ stack[h].node \in Elements(succ[l])
          /\ \A i \in 1 .. L : stack[i].node = l =>
               i >= h /\ BranchPassed(l, stack[h].node, stack[i].next)
      BY <1>1, <1>2, <2>1 DEF LatchInv
    <3>2. ASSUME NEW i \in 1 .. L, stack[i].node = l
          PROVE  BranchPassed(l, stack[h].node, stack'[i].next)
      <4>1. PICK j \in DOMAIN succ[l] : j < stack[i].next /\ succ[l][j] = stack[h].node
        BY <3>1, <3>2 DEF BranchPassed
      <4>2. j \in Nat
        <5>1. succ[l] \in Seq(Nodes)
          BY <1>1, <1>8, <3>2 DEF TypeInv
        <5> QED BY <5>1
      <4>3. j < stack'[i].next
        BY <1>8, <4>1, <4>2
      <4> QED BY <4>1, <4>3 DEF BranchPassed
    <3> QED BY <3>1, <3>2
  <2>2. CASE l \notin Elements(fake_pred[stack[h].node])
    <3>1. stack[h].node = s /\ l = n
      BY <1>5, <1>8, <1>9, <2>2
    <3>2. n \in visited /\ s \in Elements(succ[n])
      BY <1>1, <1>2, <1>3 DEF LatchInv, NextSucc, Elements
    <3>3. ASSUME NEW i \in 1 .. L, stack[i].node = n
          PROVE  i >= h /\ BranchPassed(n, s, stack'[i].next)
      <4>1. i = L
        <5>1. L \in DOMAIN stack /\ stack[L].node = n
          BY <1>2 DEF Top
        <5> QED BY <1>1, <1>2, <3>3, <5>1 DEF LatchInv
      <4>2. stack'[i].next = Top.next + 1
        BY <1>2, <1>4, <4>1
      <4>3. BranchPassed(n, s, Top.next + 1)
        BY <1>2, <1>3 DEF BranchPassed, NextSucc
      <4> QED BY <1>2, <4>1, <4>2, <4>3
    <3> QED BY <3>1, <3>2, <3>3
  <2> QED BY <2>1, <2>2
<1>16. LatchInv'
  <2>1. DOMAIN stack' = 1 .. L
    BY <1>2, <1>4
  <2>2. \A i, j \in DOMAIN stack' : stack'[i].node = stack'[j].node => i = j
    BY <1>1, <1>2, <1>8, <2>1 DEF LatchInv
  <2>3. \A h \in DOMAIN stack' : \A l \in Elements(fake_pred'[stack'[h].node]) :
          /\ l \in visited /\ stack'[h].node \in Elements(succ[l])
          /\ \A i \in DOMAIN stack' : stack'[i].node = l =>
               i >= h /\ BranchPassed(l, stack'[h].node, stack'[i].next)
    <3> SUFFICES ASSUME NEW h \in 1 .. L, NEW l \in Elements(fake_pred'[stack[h].node])
                 PROVE  /\ l \in visited /\ stack[h].node \in Elements(succ[l])
                        /\ \A i \in 1 .. L : stack[i].node = l =>
                             i >= h /\ BranchPassed(l, stack[h].node, stack'[i].next)
      BY <1>8, <2>1
    <3> QED BY <1>15
  <2>4. /\ visited' \subseteq Blocks /\ Traversing' \subseteq visited'
        /\ \A a \in Blocks : a \notin visited' \/ a \in Traversing' => Elements(succ[a]) \subseteq Blocks
    BY <1>1, <1>4, <1>7 DEF LatchInv
  <2>5. /\ \A l : Elements(succ'[l]) = Elements(succ[l])
        /\ visited' = visited
        /\ \A l, h, x : (\E j \in DOMAIN succ'[l] : j < x /\ succ'[l][j] = h) <=> BranchPassed(l, h, x)
    BY <1>4 DEF BranchPassed
  <2> HIDE DEF n, s, L
  <2>6. \A h \in DOMAIN stack' : \A l \in Elements(fake_pred'[stack'[h].node]) :
          /\ l \in visited' /\ stack'[h].node \in Elements(succ'[l])
          /\ \A i \in DOMAIN stack' : stack'[i].node = l =>
               /\ i >= h
               /\ \E j \in DOMAIN succ'[l] : j < stack'[i].next /\ succ'[l][j] = stack'[h].node
    BY <2>3, <2>5
  <2>7. /\ visited' \subseteq Blocks /\ Traversing' \subseteq visited'
        /\ \A a \in Blocks : a \notin visited' \/ a \in Traversing' => Elements(succ'[a]) \subseteq Blocks
    BY <2>4, <2>5
  <2> QED BY <1>14, <2>2, <2>6, <2>7 DEF LatchInv, BranchPassed
<1> QED BY <1>6, <1>16 DEF EdgesInv

\* The branch back to an ancestor is recorded at both ends as a back edge, or an
\* assertion fails.
LEMMA VisitBackEdgeEdges == VisitInv /\ EdgesInv /\ VisitBackEdge => EdgesInv'
<1> SUFFICES ASSUME VisitInv, EdgesInv, VisitBackEdge PROVE EdgesInv'
  OBVIOUS
<1> DEFINE n == Top.node
           s == NextSucc
<1>1. TypeInv /\ GraphInv /\ CallInv /\ stack # << >> /\ Top.next <= Len(succ[n])
      /\ ListsInv /\ EndsInv /\ OriginInv /\ phase = "visit"
  BY DEF VisitInv, VisitBackEdge, MoreSucc, EdgesInv
<1>2. n \in Nodes /\ Top.next \in Nat \ {0} /\ n \in Traversing
  BY <1>1, AdvanceFacts DEF Top
<1>3. succ[n] \in Seq(Nodes) /\ Top.next \in DOMAIN succ[n] /\ s \in Nodes /\ s \in Elements(succ[n])
  BY <1>1, <1>2 DEF TypeInv, NextSucc, Elements
<1>4. /\ UNCHANGED <<visits, origin, num_nodes, succ, pred, visited, post_order, fake_pred>>
      /\ s \in Traversing
  BY DEF VisitBackEdge, graphVars
<1>5. Nodes' = Nodes
  BY <1>4 DEF Nodes
<1>6. Blocks \subseteq Nodes /\ Null \notin Nodes
  BY <1>1, BlocksAreNodes DEF TypeInv, ListsInv
<1>7. CASE UNCHANGED <<succ_back_edge, pred_back_edge>>
            /\ phase' \in {"block has two back edges", "header has two back edges"}
  <2>1. \A a, b : Branch(a, b)' <=> Branch(a, b)
    BY <1>4, <1>7 DEF Branch, Elements
  <2>2. ListsInv'
    BY <1>1, <1>4, <1>5, <1>7 DEF ListsInv
  <2>3. EndsInv'
    <3>1. \A m : Elements(pred[m])' = Elements(pred[m]) /\ Distinct(pred[m])' = Distinct(pred[m])
      BY <1>4 DEF Distinct, Elements
    <3>2. phase' \notin {"analysis", "visit", "visited"}
      BY <1>7
    <3>3. \A a : succ_back_edge'[a] = succ_back_edge[a] /\ pred_back_edge'[a] = pred_back_edge[a]
      BY <1>7
    <3>4. UNCHANGED visited
      BY <1>4
    <3> QED BY <1>1, <1>5, <2>1, <3>1, <3>2, <3>3, <3>4 DEF EndsInv
  <2>4. OriginInv'
    BY <1>1, <1>4, <1>6, <2>1, OriginKept
  <2> QED BY <1>7, <2>2, <2>3, <2>4 DEF EdgesInv
<1>8. CASE /\ succ_back_edge[n] \in {Null, s} /\ pred_back_edge[s] \in {Null, n}
           /\ succ_back_edge' = [succ_back_edge EXCEPT ![n] = s]
           /\ pred_back_edge' = [pred_back_edge EXCEPT ![s] = n]
           /\ phase' = phase
  <2>1. /\ succ_back_edge'[n] = s /\ pred_back_edge'[s] = n
        /\ \A m \in Nodes : m # n => succ_back_edge'[m] = succ_back_edge[m]
        /\ \A m \in Nodes : m # s => pred_back_edge'[m] = pred_back_edge[m]
        /\ pred_back_edge' \in [Nodes -> Nodes \cup {Null}]
    BY <1>1, <1>2, <1>3, <1>8 DEF TypeInv, ListsInv
  <2>2. \A a, b \in Nodes : Branch(a, b)' <=> Branch(a, b)
    <3>1. Branch(n, s)
      BY <1>3 DEF Branch
    <3>2. \A a : Elements(succ[a])' = Elements(succ[a])
      BY <1>4 DEF Elements
    <3> QED BY <1>6, <1>8, <2>1, <3>1, <3>2 DEF Branch
  <2>3. ListsInv'
    BY <1>1, <1>4, <1>5, <1>8, <2>1 DEF ListsInv
  <2>4. n \in visited /\ s \in visited /\ n \notin Elements(post_order) /\ s \notin Elements(post_order)
    BY <1>1, <1>2, <1>4 DEF CallInv
  <2>5. EndsInv'
    <3>1. \A a, b \in Nodes : succ_back_edge'[a] = b <=> pred_back_edge'[b] = a
      <4>1. \A a, b \in Nodes : succ_back_edge[a] = b <=> pred_back_edge[b] = a
        BY <1>1 DEF EndsInv
      <4> QED BY <1>2, <1>3, <1>6, <1>8, <2>1, <4>1
    <3>2. \A a : Elements(pred[a])' = Elements(pred[a])
      BY <1>4 DEF Elements
    <3>3. \A a, b \in Nodes : Branch(a, b)' <=> (a \in Elements(pred[b]) \/ pred_back_edge'[b] = a)
      <4>1. \A a, b \in Nodes : Branch(a, b) <=> (a \in Elements(pred[b]) \/ pred_back_edge[b] = a)
        BY <1>1 DEF EndsInv
      <4>2. Branch(n, s)
        BY <1>3 DEF Branch
      <4> QED BY <1>2, <1>3, <1>6, <1>8, <2>1, <2>2, <4>1, <4>2
    <3>4. \A m \in Nodes : pred_back_edge'[m] # Null => m \in visited
      BY <1>1, <2>1, <2>4 DEF EndsInv
    <3>5. \A m \in Elements(post_order) : pred_back_edge'[m] \notin Elements(pred[m])
      <4>1. \A m \in Elements(post_order) : m \in Nodes
        BY <1>1 DEF TypeInv, Elements
      <4> QED BY <1>1, <2>1, <2>4, <4>1 DEF EndsInv
    <3>6. \A m \in Nodes : Distinct(pred[m])
      BY <1>1 DEF EndsInv
    <3> QED BY <1>1, <1>4, <1>5, <1>8, <3>1, <3>2, <3>3, <3>4, <3>5, <3>6 DEF EndsInv, Elements, Distinct
  <2>6. OriginInv'
    BY <1>1, <1>4, <1>6, <2>2, OriginKept
  <2> QED BY <1>1, <1>8, <2>3, <2>5, <2>6 DEF EdgesInv
<1> QED BY <1>7, <1>8, Zenon DEF VisitBackEdge, backEdgeVars

\* The back edge that is erased at each of its ends is still recorded there.
LEMMA ReturnFromVisitEdges == VisitInv /\ EdgesInv /\ ReturnFromVisit => EdgesInv'
<1> SUFFICES ASSUME VisitInv, EdgesInv, ReturnFromVisit PROVE EdgesInv'
  OBVIOUS
<1> DEFINE n == Top.node
<1>1. TypeInv /\ GraphInv /\ stack # << >> /\ ListsInv /\ EndsInv /\ OriginInv /\ phase = "visit"
  BY DEF VisitInv, ReturnFromVisit, Returns, EdgesInv
<1>2. n \in Nodes
  BY <1>1, AdvanceFacts DEF Top
<1>3. /\ UNCHANGED <<visits, origin, num_nodes, succ_back_edge, pred_back_edge, fake_pred, visited>>
      /\ succ' = [succ EXCEPT ![n] = ForwardSucc(n)]
      /\ pred' = [pred EXCEPT ![n] = ForwardPred(n)]
      /\ post_order' = Append(post_order, n)
      /\ phase' \in {"visit", "visited"}
  BY DEF ReturnFromVisit, backEdgeVars
<1>4. Nodes' = Nodes /\ Blocks \subseteq Nodes /\ Null \notin Nodes
  BY <1>1, <1>3, BlocksAreNodes DEF TypeInv, ListsInv, Nodes
<1>5. /\ succ[n] \in Seq(Nodes) /\ Distinct(succ[n])
      /\ pred[n] \in Seq(Nodes) /\ Distinct(pred[n])
  BY <1>1, <1>2 DEF TypeInv, GraphInv, ListsInv, EndsInv
<1>6. Elements(ForwardSucc(n)) = Elements(succ[n]) \ {succ_back_edge[n]}
  BY <1>5, EraseFacts DEF ForwardSucc
<1>7. /\ ForwardPred(n) \in Seq(Nodes) /\ Distinct(ForwardPred(n))
      /\ Elements(ForwardPred(n)) = Elements(pred[n]) \ {pred_back_edge[n]}
  BY <1>5, EraseFacts DEF ForwardPred
<1>8. /\ succ'[n] = ForwardSucc(n) /\ pred'[n] = ForwardPred(n)
      /\ \A m \in Nodes : m # n => succ'[m] = succ[m] /\ pred'[m] = pred[m]
      /\ pred' \in [Nodes -> Seq(Nodes)]
  BY <1>1, <1>2, <1>3, <1>7 DEF TypeInv, ListsInv
<1>9. Elements(post_order') = Elements(post_order) \cup {n} /\ Elements(post_order) \subseteq Nodes
  <2>1. post_order \in Seq(Nodes)
    BY <1>1 DEF TypeInv
  <2>2. Elements(post_order) \subseteq Nodes
    BY <2>1 DEF Elements
  <2> QED BY <1>2, <1>3, <2>1, <2>2, AppendFacts
<1>10. \A a, b \in Nodes : Branch(a, b)' <=> Branch(a, b)
  BY <1>3, <1>6, <1>8 DEF Branch
<1>11. ListsInv'
  BY <1>1, <1>3, <1>4, <1>8 DEF ListsInv
<1>12. EndsInv'
  <2>1. \A m \in Nodes : Distinct(pred'[m])
    BY <1>1, <1>7, <1>8 DEF EndsInv
  <2>2. \A b \in Nodes : \A a : (a \in Elements(pred'[b]) \/ pred_back_edge[b] = a)
                                <=> (a \in Elements(pred[b]) \/ pred_back_edge[b] = a)
    BY <1>7, <1>8
  <2>3. \A a, b \in Nodes : Branch(a, b)' <=> (a \in Elements(pred'[b]) \/ pred_back_edge[b] = a)
    BY <1>1, <1>10, <2>2 DEF EndsInv
  <2>4. \A m \in Elements(post_order') : pred_back_edge[m] \notin Elements(pred'[m])
    <3> SUFFICES ASSUME NEW m \in Elements(post_order') PROVE pred_back_edge[m] \notin Elements(pred'[m])
      OBVIOUS
    <3>1. CASE m = n
      BY <1>7, <1>8, <3>1
    <3>2. CASE m # n
      BY <1>1, <1>8, <1>9, <3>2 DEF EndsInv
    <3> QED BY <3>1, <3>2
  <2> QED BY <1>1, <1>3, <1>4, <2>1, <2>3, <2>4 DEF EndsInv
<1>13. OriginInv'
  BY <1>1, <1>3, <1>4, <1>10, OriginKept
<1> QED BY <1>3, <1>11, <1>12, <1>13 DEF EdgesInv

\* A list of edges with the back edge behind it again.
LEMMA PushFacts ==
  ASSUME NEW s \in Seq(Nodes), Distinct(s), NEW e \in Nodes \cup {Null},
         e # Null => e \notin Elements(s), Null \notin Nodes
  PROVE  /\ PushUnlessNull(s, e) \in Seq(Nodes) /\ Distinct(PushUnlessNull(s, e))
         /\ \A x \in Nodes : x \in Elements(PushUnlessNull(s, e)) <=> x \in Elements(s) \/ x = e
<1>1. CASE e = Null
  BY <1>1 DEF PushUnlessNull
<1>2. CASE e # Null
  <2>1. e \in Nodes /\ e \notin Elements(s) /\ PushUnlessNull(s, e) = Append(s, e)
    BY <1>2 DEF PushUnlessNull
  <2> QED BY <2>1, AppendFacts
<1> QED BY <1>1, <1>2

\* reset_traversal puts every back edge back.
LEMMA RestoreFacts ==
  ASSUME VisitInv, EdgesInv, Recompute, NEW n \in Nodes
  PROVE  /\ succ'[n] = PushUnlessNull(succ[n], succ_back_edge[n])
         /\ pred'[n] = PushUnlessNull(pred[n], pred_back_edge[n])
         /\ pred'[n] \in Seq(Nodes) /\ Distinct(pred'[n])
         /\ \A x \in Nodes : x \in Elements(succ'[n]) <=> Branch(n, x)
         /\ \A x \in Nodes : x \in Elements(pred'[n]) <=> x \in Elements(pred[n]) \/ pred_back_edge[n] = x
<1>1. TypeInv /\ GraphInv /\ ListsInv /\ EndsInv
  BY DEF VisitInv, EdgesInv
<1>2. Null \notin Nodes
  BY <1>1, BlocksAreNodes DEF TypeInv, ListsInv
<1>3. succ'[n] = PushUnlessNull(succ[n], succ_back_edge[n]) /\ pred'[n] = PushUnlessNull(pred[n], pred_back_edge[n])
  BY DEF Recompute, RestoreBackEdges
<1>4. phase = "visited" => visited = Elements(post_order)
  <2> SUFFICES ASSUME phase = "visited" PROVE visited = Elements(post_order)
    OBVIOUS
  <2>1. CallInv /\ stack = << >>
    BY DEF VisitInv, CallInv
  <2>2. Traversing = {}
    BY <2>1 DEF Traversing
  <2> QED BY <2>1, <2>2 DEF CallInv
<1>5. phase \in {"analysis", "visited"}
  BY DEF Recompute
<1>6. /\ succ_back_edge[n] # Null => succ_back_edge[n] \notin Elements(succ[n])
      /\ pred_back_edge[n] # Null => pred_back_edge[n] \notin Elements(pred[n])
  <2>1. CASE phase = "analysis"
    BY <1>1, <2>1 DEF GraphInv, EndsInv
  <2>2. CASE phase = "visited"
    BY <1>1, <1>4, <2>2 DEF GraphInv, EndsInv
  <2> QED BY <1>5, <2>1, <2>2
<1>7. /\ succ[n] \in Seq(Nodes) /\ Distinct(succ[n]) /\ succ_back_edge[n] \in Nodes \cup {Null}
      /\ pred[n] \in Seq(Nodes) /\ Distinct(pred[n]) /\ pred_back_edge[n] \in Nodes \cup {Null}
  BY <1>1 DEF TypeInv, GraphInv, ListsInv, EndsInv
<1>8. \A x \in Nodes : x \in Elements(succ'[n]) <=> x \in Elements(succ[n]) \/ x = succ_back_edge[n]
  BY <1>2, <1>3, <1>6, <1>7, PushFacts
<1>9. /\ pred'[n] \in Seq(Nodes) /\ Distinct(pred'[n])
      /\ \A x \in Nodes : x \in Elements(pred'[n]) <=> x \in Elements(pred[n]) \/ x = pred_back_edge[n]
  BY <1>2, <1>3, <1>6, <1>7, PushFacts
<1> QED BY <1>3, <1>8, <1>9 DEF Branch

\* reset_traversal records every branch at the same ends as before.
LEMMA RecomputeEdges == VisitInv /\ EdgesInv /\ Recompute => EdgesInv'
<1> SUFFICES ASSUME VisitInv, EdgesInv, Recompute PROVE EdgesInv'
  OBVIOUS
<1>1. TypeInv /\ ListsInv /\ EndsInv /\ OriginInv
  BY DEF VisitInv, EdgesInv
<1>2. /\ UNCHANGED <<num_nodes, origin>> /\ phase' = "visit" /\ post_order' = << >>
      /\ visits < MaxVisits /\ visits' = visits + 1
      /\ succ_back_edge' = [n \in Nodes |-> Null]
      /\ pred_back_edge' = [n \in Nodes |-> Null]
      /\ fake_pred' = [n \in Nodes |-> << >>]
      /\ DOMAIN pred' = Nodes /\ DOMAIN succ' = Nodes
      /\ pred' = [n \in Nodes |-> pred'[n]]
  BY DEF Recompute, RestoreBackEdges
<1>3. Nodes' = Nodes /\ Blocks \subseteq Nodes /\ Null \notin Nodes
  BY <1>1, <1>2, BlocksAreNodes DEF TypeInv, ListsInv, Nodes
<1>4. \A n \in Nodes :
        /\ pred'[n] \in Seq(Nodes) /\ Distinct(pred'[n])
        /\ \A x \in Nodes : x \in Elements(succ'[n]) <=> Branch(n, x)
        /\ \A x \in Nodes : x \in Elements(pred'[n]) <=> x \in Elements(pred[n]) \/ pred_back_edge[n] = x
  BY RestoreFacts
<1>5. \A a, b \in Nodes : Branch(a, b)' <=> Branch(a, b)
  BY <1>2, <1>3, <1>4 DEF Branch
<1>6. ListsInv'
  <2>1. pred' \in [Nodes -> Seq(Nodes)]
    BY <1>2, <1>4
  <2>2. visits' \in 0 .. MaxVisits
    <3>1. MaxVisits \in Nat /\ visits \in 0 .. MaxVisits
      BY <1>1, CVConstants DEF ListsInv
    <3> QED BY <1>2, <3>1
  <2>3. fake_pred' \in [Nodes -> Seq(Nodes)] /\ pred_back_edge' \in [Nodes -> Nodes \cup {Null}]
    BY <1>2
  <2> QED BY <1>1, <1>2, <1>3, <2>1, <2>2, <2>3 DEF ListsInv
<1>7. EndsInv'
  <2>1. \A a, b \in Nodes : Branch(a, b)' <=> (a \in Elements(pred'[b]) \/ pred_back_edge'[b] = a)
    <3>1. \A a, b \in Nodes : Branch(a, b) <=> (a \in Elements(pred[b]) \/ pred_back_edge[b] = a)
      BY <1>1 DEF EndsInv
    <3>2. \A a, b \in Nodes : pred_back_edge'[b] # a
      BY <1>2, <1>3
    <3> QED BY <1>4, <1>5, <3>1, <3>2
  <2>2. Elements(post_order') = {}
    BY <1>2 DEF Elements
  <2>3. \A n \in Nodes : succ_back_edge'[n] = Null /\ pred_back_edge'[n] = Null
    BY <1>2
  <2> QED BY <1>2, <1>3, <1>4, <2>1, <2>2, <2>3 DEF EndsInv
<1>8. OriginInv'
  BY <1>1, <1>2, <1>3, <1>5, OriginKept
<1> QED BY <1>2, <1>6, <1>7, <1>8 DEF EdgesInv

\* The call that returns from the analysis is that of its last block.
LEMMA LastCall ==
  ASSUME TypeInv, LatchInv, stack # << >>
  PROVE  /\ Top.node \in Blocks /\ Top.node \in visited
         /\ \A i \in 1 .. Len(stack) - 1 : stack[i].node # Top.node /\ stack[i].node \in Traversing
         /\ \A l \in Elements(fake_pred[Top.node]) :
              /\ l \in visited /\ l \in Blocks /\ Top.node \in Elements(succ[l])
              /\ \A i \in 1 .. Len(stack) - 1 : stack[i].node # l
<1> DEFINE n == Top.node
           L == Len(stack)
<1>1. L \in Nat \ {0} /\ DOMAIN stack = 1 .. L /\ n \in Traversing /\ L \in DOMAIN stack
  BY AdvanceFacts
<1>2. stack[L].node = n
  BY DEF Top
<1>3. n \in visited /\ visited \subseteq Blocks
  BY <1>1 DEF LatchInv
<1>4. \A i \in 1 .. L - 1 : i \in DOMAIN stack /\ i # L
  <2>1. \A i \in 1 .. L - 1 : i \in 1 .. L /\ i # L
    <3>1. L \in Nat
      BY <1>1
    <3> HIDE DEF L
    <3> QED BY <3>1
  <2> QED BY <1>1, <2>1
<1>5. \A i \in 1 .. L - 1 : stack[i].node # n /\ stack[i].node \in Traversing
  BY <1>1, <1>2, <1>4 DEF LatchInv, Traversing
<1>6. ASSUME NEW l \in Elements(fake_pred[n])
      PROVE  /\ l \in visited /\ l \in Blocks /\ n \in Elements(succ[l])
             /\ \A i \in 1 .. L - 1 : stack[i].node # l
  <2>1. /\ l \in visited /\ n \in Elements(succ[l])
        /\ \A i \in DOMAIN stack : stack[i].node = l => i >= L
    <3>1. l \in Elements(fake_pred[stack[L].node])
      BY <1>2
    <3>2. L \in DOMAIN stack
      BY <1>1
    <3> HIDE DEF L, n
    <3> QED BY <1>2, <3>1, <3>2 DEF LatchInv
  <2>2. \A i \in 1 .. L - 1 : ~ (i >= L)
    BY <1>1
  <2> QED BY <1>3, <1>4, <2>1, <2>2
<1> QED BY <1>3, <1>5, <1>6

\* The open calls and their back edges, when the last call returned.
LEMMA LatchesKept ==
  ASSUME TypeInv, LatchInv, stack # << >>, UNCHANGED visited, stack' = Pop, Nodes \subseteq Nodes', Blocks \subseteq Nodes,
         \A m \in Nodes : fake_pred'[m] = fake_pred[m],
         \A m \in Nodes' \ Nodes : fake_pred'[m] = << >>,
         \A a \in Nodes : a \notin visited \/ a \in {stack[i].node : i \in 1 .. Len(stack) - 1} => succ'[a] = succ[a],
         \A a \in Nodes : \A h \in Blocks \ {Top.node} : h \in Elements(succ[a]) => h \in Elements(succ'[a])
  PROVE  LatchInv'
<1> DEFINE n == Top.node
           L == Len(stack)
<1>1. /\ L \in Nat \ {0} /\ DOMAIN stack = 1 .. L /\ DOMAIN stack' = 1 .. L - 1
      /\ \A i \in 1 .. L - 1 : i \in DOMAIN stack /\ stack'[i] = stack[i]
  BY AdvanceFacts, PopFacts
<1>2. \A i \in 1 .. L - 1 : /\ stack[i].node # n /\ stack[i].node \in Traversing
                            /\ stack[i].node \in visited /\ stack[i].node \in Blocks
  BY LastCall DEF LatchInv
<1>3. Traversing' = {stack[i].node : i \in 1 .. L - 1}
  BY <1>1 DEF Traversing
<1>4. Traversing' \subseteq Traversing
  BY <1>2, <1>3
<1>5. visited' \subseteq Blocks /\ Traversing' \subseteq visited'
  BY <1>4 DEF LatchInv
<1>6. \A i, j \in DOMAIN stack' : stack'[i].node = stack'[j].node => i = j
  BY <1>1 DEF LatchInv
<1>7. ASSUME NEW a \in Blocks, a \notin visited' \/ a \in Traversing'
      PROVE  Elements(succ'[a]) \subseteq Blocks
  <2>1. succ'[a] = succ[a]
    BY <1>3, <1>7
  <2> QED BY <1>4, <1>7, <2>1 DEF LatchInv
<1>8. \A m \in Nodes' : Distinct(fake_pred'[m]) /\ (fake_pred'[m] # << >> => m \in visited')
  <2>1. Distinct(<< >>)
    BY DEF Distinct
  <2> QED BY <2>1 DEF LatchInv
<1>9. ASSUME NEW k \in 1 .. L - 1, NEW l \in Elements(fake_pred[stack[k].node])
      PROVE  /\ l \in visited /\ stack[k].node \in Elements(succ'[l])
             /\ \A i \in 1 .. L - 1 : stack[i].node = l =>
                  /\ i >= k
                  /\ \E j \in DOMAIN succ'[l] : j < stack[i].next /\ succ'[l][j] = stack[k].node
  <2>1. /\ l \in visited /\ stack[k].node \in Elements(succ[l])
        /\ \A i \in DOMAIN stack : stack[i].node = l =>
             i >= k /\ BranchPassed(l, stack[k].node, stack[i].next)
    BY <1>1 DEF LatchInv
  <2>2. l \in Nodes
    BY <2>1 DEF TypeInv
  <2>3. stack[k].node \in Elements(succ'[l])
    BY <1>2, <2>1, <2>2
  <2>4. ASSUME NEW i \in 1 .. L - 1, stack[i].node = l
        PROVE  succ'[l] = succ[l] /\ i >= k /\ BranchPassed(l, stack[k].node, stack[i].next)
    BY <1>1, <2>1, <2>2, <2>4
  <2> QED BY <2>1, <2>3, <2>4 DEF BranchPassed
<1>10. \A k \in DOMAIN stack' : \A l \in Elements(fake_pred'[stack'[k].node]) :
         /\ l \in visited' /\ stack'[k].node \in Elements(succ'[l])
         /\ \A i \in DOMAIN stack' : stack'[i].node = l =>
              /\ i >= k
              /\ \E j \in DOMAIN succ'[l] : j < stack'[i].next /\ succ'[l][j] = stack'[k].node
  <2>1. \A k \in 1 .. L - 1 : stack'[k] = stack[k] /\ fake_pred'[stack[k].node] = fake_pred[stack[k].node]
    BY <1>1, <1>2
  <2> HIDE DEF L
  <2> SUFFICES ASSUME NEW k \in 1 .. L - 1, NEW l \in Elements(fake_pred[stack[k].node])
               PROVE  /\ l \in visited' /\ stack[k].node \in Elements(succ'[l])
                      /\ \A i \in 1 .. L - 1 : stack[i].node = l =>
                           /\ i >= k
                           /\ \E j \in DOMAIN succ'[l] : j < stack[i].next /\ succ'[l][j] = stack[k].node
    <3>1. DOMAIN stack' = 1 .. L - 1
      BY <1>1 DEF L
    <3> QED BY <2>1, <3>1
  <2> QED BY <1>9 DEF L
<1> HIDE DEF n, L
<1> QED BY <1>5, <1>6, <1>7, <1>8, <1>10 DEF LatchInv, BranchPassed

\* retarget_branch_pre_traversal exchanges one successor for another.
LEMMA ReplaceFacts ==
  ASSUME NEW S, NEW s \in Seq(S), NEW old \in Elements(s), NEW new, new # old
  PROVE  Elements(Replace(s, old, new)) = (Elements(s) \ {old}) \cup {new}
<1>1. DOMAIN Replace(s, old, new) = DOMAIN s
  BY DEF Replace
<1>2. \A i \in DOMAIN s : Replace(s, old, new)[i] = IF s[i] = old THEN new ELSE s[i]
  BY DEF Replace
<1>3. PICK p \in DOMAIN s : s[p] = old
  BY DEF Elements
<1> QED BY <1>1, <1>2, <1>3 DEF Elements

\* The graph after block new has taken over the back edges of header n.
MergedGraph(n, new, latches) ==
  /\ num_nodes' = new /\ new \in Nodes' /\ new \notin Nodes /\ Nodes' = Nodes \cup {new}
  /\ n \in Blocks /\ latches \subseteq Blocks /\ Blocks \subseteq Nodes
  /\ \A l \in latches : Branch(l, n)
  /\ \A m \in Nodes' : succ_back_edge'[m] = Null /\ pred_back_edge'[m] = Null
  /\ \A m \in Nodes : succ_back_edge[m] = Null /\ pred_back_edge[m] = Null
  /\ pred_back_edge' \in [Nodes' -> Nodes' \cup {Null}]
  /\ fake_pred' \in [Nodes' -> Seq(Nodes')]
  /\ fake_pred'[new] = << >> /\ \A m \in Nodes : fake_pred'[m] = fake_pred[m]
  /\ pred' \in [Nodes' -> Seq(Nodes')]
  /\ \A m \in Nodes' : Distinct(pred'[m])
  /\ Elements(pred'[new]) = latches
  /\ Elements(pred'[n]) = (Elements(pred[n]) \ latches) \cup {new}
  /\ \A m \in Nodes \ {n} : pred'[m] = pred[m]
  /\ Elements(succ'[new]) = {n}
  /\ \A l \in latches : Elements(succ'[l]) = (Elements(succ[l]) \ {n}) \cup {new}
  /\ \A m \in Nodes \ latches : succ'[m] = succ[m]

\* MergeBackEdges builds that graph.
LEMMA MergeFacts ==
  ASSUME VisitInv, EdgesInv, phase = "analysis", stack # << >>, NeedsMerge(Top.node),
         MergeBackEdges(Top.node),
         NEW n, n = Top.node, NEW new, new = num_nodes + 1, NEW latches, latches = Elements(fake_pred[n])
  PROVE  MergedGraph(n, new, latches)
<1>1. TypeInv /\ GraphInv /\ ListsInv /\ EndsInv /\ OriginInv /\ LatchInv
  BY DEF VisitInv, EdgesInv
<1>2. /\ n \in Blocks /\ latches \subseteq Blocks /\ Blocks \subseteq Nodes /\ Null \notin Nodes
      /\ \A l \in latches : n \in Elements(succ[l])
  <2>1. n \in Blocks /\ \A l \in latches : l \in Blocks /\ n \in Elements(succ[l])
    BY <1>1, LastCall
  <2>2. Blocks \subseteq Nodes /\ Null \notin Nodes
    BY <1>1, BlocksAreNodes DEF TypeInv, ListsInv
  <2> QED BY <2>1, <2>2
<1>3. /\ num_nodes' = new
      /\ succ' = [m \in 1 .. new |->
                    IF m = new THEN <<n>>
                    ELSE IF m \in latches THEN Replace(succ[m], n, new) ELSE succ[m]]
      /\ pred' = [m \in 1 .. new |->
                    IF m = new THEN fake_pred[n]
                    ELSE IF m = n THEN Append(EraseAll(pred[n], latches), new) ELSE pred[m]]
      /\ succ_back_edge' = [m \in 1 .. new |-> Null]
      /\ pred_back_edge' = [m \in 1 .. new |-> Null]
      /\ fake_pred' = [m \in 1 .. new |-> IF m = new THEN << >> ELSE fake_pred[m]]
  BY DEF MergeBackEdges
<1>4. /\ num_nodes \in Nat /\ Nodes = 1 .. num_nodes /\ Nodes' = 1 .. new
      /\ Nodes \subseteq Nodes' /\ new \in Nodes' /\ new \notin Nodes /\ Nodes' = Nodes \cup {new}
  <2>1. num_nodes \in Nat /\ num_nodes' = num_nodes + 1 /\ new = num_nodes + 1
    BY <1>1, <1>3 DEF TypeInv
  <2> QED BY <2>1 DEF Nodes
<1>5. n \in Nodes /\ latches \subseteq Nodes /\ n # new
  BY <1>2, <1>4
<1>6. \A l \in latches : Branch(l, n)
  BY <1>2 DEF Branch
<1>7. \A m \in Nodes' : succ_back_edge'[m] = Null /\ pred_back_edge'[m] = Null
  BY <1>3, <1>4
<1>8. \A m \in Nodes : succ_back_edge[m] = Null /\ pred_back_edge[m] = Null
  BY <1>1 DEF GraphInv, EndsInv
<1>9. pred_back_edge' \in [Nodes' -> Nodes' \cup {Null}]
  BY <1>3, <1>4
<1>10. fake_pred'[new] = << >> /\ \A m \in Nodes : fake_pred'[m] = fake_pred[m]
  BY <1>3, <1>4
<1>11. fake_pred' \in [Nodes' -> Seq(Nodes')]
  <2>1. \A m \in Nodes : fake_pred[m] \in Seq(Nodes')
    BY <1>1, <1>4, SeqInLarger DEF ListsInv
  <2>2. \A m \in Nodes' : fake_pred'[m] \in Seq(Nodes')
    <3>1. << >> \in Seq(Nodes')
      OBVIOUS
    <3> QED BY <1>4, <1>10, <2>1, <3>1
  <2>3. fake_pred' = [m \in Nodes' |-> fake_pred'[m]]
    BY <1>3, <1>4
  <2> QED BY <2>2, <2>3
<1>12. /\ pred'[new] = fake_pred[n] /\ pred'[n] = Append(EraseAll(pred[n], latches), new)
       /\ \A m \in Nodes \ {n} : pred'[m] = pred[m]
  BY <1>3, <1>4, <1>5
<1>13. \A m \in Nodes : pred[m] \in Seq(Nodes) /\ Distinct(pred[m])
  BY <1>1 DEF ListsInv, EndsInv
<1>14. /\ EraseAll(pred[n], latches) \in Seq(Nodes) /\ Distinct(EraseAll(pred[n], latches))
       /\ Elements(EraseAll(pred[n], latches)) = Elements(pred[n]) \ latches
  BY <1>5, <1>13, EraseAllFacts
<1>15. /\ pred'[n] \in Seq(Nodes') /\ Distinct(pred'[n])
       /\ Elements(pred'[n]) = (Elements(pred[n]) \ latches) \cup {new}
  <2>1. Elements(pred[n]) \subseteq Nodes
    BY <1>5, <1>13 DEF Elements
  <2>2. new \notin Elements(EraseAll(pred[n], latches))
    BY <1>4, <1>14, <2>1
  <2>3. EraseAll(pred[n], latches) \in Seq(Nodes')
    BY <1>4, <1>14, SeqInLarger
  <2> QED BY <1>4, <1>12, <1>14, <2>2, <2>3, AppendFacts
<1>16. Elements(pred'[new]) = latches /\ Distinct(pred'[new]) /\ pred'[new] \in Seq(Nodes')
  <2>1. fake_pred[n] \in Seq(Nodes) /\ Distinct(fake_pred[n])
    BY <1>1, <1>5 DEF ListsInv, LatchInv
  <2>2. fake_pred[n] \in Seq(Nodes')
    BY <1>4, <2>1, SeqInLarger
  <2> QED BY <1>12, <2>1, <2>2
<1>17. ASSUME NEW m \in Nodes' PROVE pred'[m] \in Seq(Nodes') /\ Distinct(pred'[m])
  <2>1. CASE m = new
    BY <1>16, <2>1
  <2>2. CASE m = n
    BY <1>15, <2>2
  <2>3. CASE m \notin {n, new}
    <3>1. m \in Nodes /\ pred'[m] = pred[m]
      BY <1>4, <1>12, <2>3
    <3>2. pred[m] \in Seq(Nodes')
      BY <1>4, <1>13, <3>1, SeqInLarger
    <3> QED BY <1>13, <3>1, <3>2
  <2> QED BY <2>1, <2>2, <2>3
<1>18. pred' \in [Nodes' -> Seq(Nodes')]
  <2>1. pred' = [m \in Nodes' |-> pred'[m]]
    BY <1>3, <1>4
  <2> QED BY <1>17, <2>1
<1>19. /\ succ'[new] = <<n>> /\ \A l \in latches : succ'[l] = Replace(succ[l], n, new)
       /\ \A m \in Nodes \ latches : succ'[m] = succ[m]
  BY <1>3, <1>4, <1>5
<1>20. Elements(succ'[new]) = {n}
  BY <1>19 DEF Elements
<1>21. ASSUME NEW l \in latches PROVE Elements(succ'[l]) = (Elements(succ[l]) \ {n}) \cup {new}
  <2>1. succ[l] \in Seq(Nodes) /\ n \in Elements(succ[l])
    BY <1>1, <1>2, <1>5 DEF TypeInv
  <2> QED BY <1>5, <1>19, <2>1, ReplaceFacts
<1> QED BY <1>2, <1>3, <1>4, <1>6, <1>7, <1>8, <1>9, <1>10, <1>11, <1>12, <1>15, <1>16, <1>17, <1>18, <1>19,
           <1>20, <1>21 DEF MergedGraph

\* Where branches lead when block new has taken over the back edges of header n.
LEMMA MergedBranches ==
  ASSUME VisitInv, EdgesInv, phase = "analysis", NEW n \in Nodes, NEW new, NEW latches, MergedGraph(n, new, latches)
  PROVE  \A a, b \in Nodes' :
           Branch(a, b)' <=> \/ a = new /\ b = n
                             \/ a \in latches /\ b = new
                             \/ a \in Nodes /\ b \in Nodes /\ Branch(a, b) /\ ~ (a \in latches /\ b = n)
<1>1. TypeInv /\ ListsInv /\ EndsInv /\ GraphInv
  BY DEF VisitInv, EdgesInv
<1>2. /\ num_nodes' = new /\ new \in Nodes' /\ new \notin Nodes /\ Nodes' = Nodes \cup {new}
      /\ latches \subseteq Blocks /\ Blocks \subseteq Nodes
      /\ \A m \in Nodes' : succ_back_edge'[m] = Null
      /\ \A m \in Nodes : succ_back_edge[m] = Null
      /\ Elements(succ'[new]) = {n}
      /\ \A l \in latches : Elements(succ'[l]) = (Elements(succ[l]) \ {n}) \cup {new}
      /\ \A m \in Nodes \ latches : succ'[m] = succ[m]
  BY DEF MergedGraph
<1>3. latches \subseteq Nodes /\ n # new /\ Null \notin Nodes'
  <2>1. new \in Nat \ {0}
    BY <1>1, <1>2 DEF TypeInv, Nodes
  <2>2. Null \notin Nodes
    BY <1>1, BlocksAreNodes DEF TypeInv, ListsInv
  <2> QED BY <1>2, <2>1, <2>2 DEF Null
<1>4. \A m \in Nodes : Elements(succ[m]) \subseteq Nodes
  <2>1. \A m \in Nodes : succ[m] \in Seq(Nodes)
    BY <1>1 DEF TypeInv
  <2> QED BY <2>1 DEF Elements
<1>5. \A a, b \in Nodes : Branch(a, b) <=> b \in Elements(succ[a])
  BY <1>2, <1>3 DEF Branch
<1>6. \A a, b \in Nodes' : Branch(a, b)' <=> b \in Elements(succ'[a])
  BY <1>2, <1>3 DEF Branch
<1> SUFFICES ASSUME NEW a \in Nodes', NEW b \in Nodes'
             PROVE  b \in Elements(succ'[a]) <=>
                      \/ a = new /\ b = n
                      \/ a \in latches /\ b = new
                      \/ a \in Nodes /\ b \in Nodes /\ Branch(a, b) /\ ~ (a \in latches /\ b = n)
  BY <1>6
<1>7. CASE a = new
  BY <1>2, <1>3, <1>7
<1>8. CASE a \in latches
  <2>1. a \in Nodes /\ a # new /\ Elements(succ'[a]) = (Elements(succ[a]) \ {n}) \cup {new}
    BY <1>2, <1>3, <1>8
  <2>2. b \in Elements(succ[a]) <=> b \in Nodes /\ Branch(a, b)
    BY <1>4, <1>5, <2>1
  <2> QED BY <1>2, <1>3, <1>8, <2>1, <2>2
<1>9. CASE a \in Nodes \ latches
  BY <1>2, <1>3, <1>4, <1>5, <1>9
<1> QED BY <1>2, <1>7, <1>8, <1>9

\* A header whose back edges are merged keeps all branches that lead to it.
LEMMA ReturnFromAnalysisEdges == VisitInv /\ EdgesInv /\ ReturnFromAnalysis => EdgesInv'
<1> SUFFICES ASSUME VisitInv, EdgesInv, ReturnFromAnalysis PROVE EdgesInv'
  OBVIOUS
<1>0. PICK n : n = Top.node
  OBVIOUS
<1>1. TypeInv /\ GraphInv /\ ListsInv /\ EndsInv /\ OriginInv /\ LatchInv /\ stack # << >>
  BY DEF VisitInv, ReturnFromAnalysis, Returns, EdgesInv
<1>2. UNCHANGED <<phase, visits, origin, visited, post_order>> /\ phase = "analysis" /\ stack' = Pop
  BY DEF ReturnFromAnalysis
<1>3. Blocks \subseteq Nodes /\ Null \notin Nodes
  BY <1>1, BlocksAreNodes DEF TypeInv, ListsInv
<1>4. CASE ~ NeedsMerge(n)
  <2>1. UNCHANGED <<num_nodes, succ, pred, succ_back_edge, pred_back_edge, fake_pred>>
    BY <1>0, <1>4 DEF ReturnFromAnalysis, graphVars, backEdgeVars
  <2>2. Nodes' = Nodes
    BY <2>1 DEF Nodes
  <2>3. fake_pred' \in [Nodes -> Seq(Nodes)]
    BY <1>1, <2>1 DEF ListsInv
  <2>4. ListsInv' /\ EndsInv' /\ OriginInv'
    BY <1>1, <1>2, <2>1, <2>3, BranchesKept
  <2>5. LatchInv'
    BY <1>1, <1>2, <1>3, <2>1, <2>2, LatchesKept
  <2> QED BY <2>4, <2>5 DEF EdgesInv
<1>5. CASE NeedsMerge(n)
  <2>0. PICK new, latches : new = num_nodes + 1 /\ latches = Elements(fake_pred[n])
    OBVIOUS
  <2>1. MergeBackEdges(n)
    BY <1>0, <1>5 DEF ReturnFromAnalysis
  <2>m. MergedGraph(n, new, latches)
    <3>1. NeedsMerge(Top.node) /\ MergeBackEdges(Top.node)
      BY <1>0, <1>5, <2>1
    <3>2. phase = "analysis" /\ stack # << >>
      BY <1>1, <1>2
    <3> QED BY <1>0, <2>0, <3>1, <3>2, MergeFacts, Zenon
  <2>2. /\ num_nodes' = new /\ new \in Nodes' /\ new \notin Nodes /\ Nodes' = Nodes \cup {new}
        /\ n \in Blocks /\ latches \subseteq Blocks
        /\ \A l \in latches : Branch(l, n)
        /\ \A m \in Nodes' : succ_back_edge'[m] = Null /\ pred_back_edge'[m] = Null
        /\ \A m \in Nodes : succ_back_edge[m] = Null /\ pred_back_edge[m] = Null
        /\ pred_back_edge' \in [Nodes' -> Nodes' \cup {Null}]
        /\ fake_pred' \in [Nodes' -> Seq(Nodes')]
        /\ fake_pred'[new] = << >> /\ \A m \in Nodes : fake_pred'[m] = fake_pred[m]
        /\ pred' \in [Nodes' -> Seq(Nodes')]
        /\ \A m \in Nodes' : Distinct(pred'[m])
        /\ Elements(pred'[new]) = latches
        /\ Elements(pred'[n]) = (Elements(pred[n]) \ latches) \cup {new}
        /\ \A m \in Nodes \ {n} : pred'[m] = pred[m]
        /\ Elements(succ'[new]) = {n}
        /\ \A l \in latches : Elements(succ'[l]) = (Elements(succ[l]) \ {n}) \cup {new}
        /\ \A m \in Nodes \ latches : succ'[m] = succ[m]
    BY <2>m DEF MergedGraph
  <2>3. n \in Nodes /\ latches \subseteq Nodes /\ n # new /\ Null \notin Nodes'
    <3>1. new \in Nat /\ new > 0
      BY <1>1, <2>0 DEF TypeInv
    <3> QED BY <1>3, <2>2, <3>1 DEF Null
  <2>4. \A m \in Nodes : Elements(succ[m]) \subseteq Nodes /\ Elements(pred[m]) \subseteq Nodes
    <3>1. \A m \in Nodes : succ[m] \in Seq(Nodes) /\ pred[m] \in Seq(Nodes)
      BY <1>1 DEF TypeInv, ListsInv
    <3> QED BY <3>1 DEF Elements
  <2>5. \A a, b \in Nodes : (Branch(a, b) <=> b \in Elements(succ[a])) /\ (Branch(a, b) <=> a \in Elements(pred[b]))
    BY <1>1, <1>3, <2>2 DEF Branch, EndsInv
  <2>6. \A a, b \in Nodes' : Branch(a, b)' <=> b \in Elements(succ'[a])
    BY <2>2, <2>3 DEF Branch
  <2> DEFINE After(a, b) == \/ a = new /\ b = n
                            \/ a \in latches /\ b = new
                            \/ a \in Nodes /\ b \in Nodes /\ Branch(a, b) /\ ~ (a \in latches /\ b = n)
  <2>7. \A a, b \in Nodes' : Branch(a, b)' <=> After(a, b)
    BY <1>1, <1>2, <2>3, <2>m, MergedBranches
  <2>8. \A a, b \in Nodes' : a \in Elements(pred'[b]) <=> After(a, b)
    <3> SUFFICES ASSUME NEW a \in Nodes', NEW b \in Nodes' PROVE a \in Elements(pred'[b]) <=> After(a, b)
      OBVIOUS
    <3>1. CASE b = new
      BY <2>2, <2>3, <3>1
    <3>2. CASE b = n
      BY <2>2, <2>3, <2>4, <2>5, <3>2
    <3>3. CASE b \in Nodes \ {n}
      BY <2>2, <2>3, <2>4, <2>5, <3>3
    <3> QED BY <2>2, <3>1, <3>2, <3>3
  <2>9. ListsInv'
    <3>1. num_nodes' >= NumBlocks
      <4>1. num_nodes \in Nat /\ num_nodes >= NumBlocks /\ NumBlocks \in Nat
        BY <1>1, CVConstants DEF ListsInv, TypeInv
      <4>2. num_nodes' = num_nodes + 1
        BY <2>0, <2>2
      <4> QED BY <4>1, <4>2
    <3> QED BY <1>1, <1>2, <2>2, <3>1 DEF ListsInv
  <2>10. EndsInv'
    <3>1. \A a, b \in Nodes' : Branch(a, b)' <=> (a \in Elements(pred'[b]) \/ pred_back_edge'[b] = a)
      BY <2>2, <2>3, <2>7, <2>8
    <3> QED BY <1>2, <2>2, <2>3, <3>1 DEF EndsInv
  <2>11. \A m \in Nodes \ Blocks : \E h \in Blocks : \A x \in Nodes' : Branch(m, x)' <=> x = h
    <3> SUFFICES ASSUME NEW m \in Nodes \ Blocks
                 PROVE  \E h \in Blocks : \A x \in Nodes' : Branch(m, x)' <=> x = h
      OBVIOUS
    <3>1. PICK h \in Blocks : \A x \in Nodes : Branch(m, x) <=> x = h
      BY <1>1 DEF OriginInv
    <3>2. \A x \in Nodes' : Branch(m, x)' <=> x = h
      BY <1>3, <2>2, <2>7, <3>1
    <3> QED BY <3>2
  <2>12. \A x \in Nodes' : Branch(new, x)' <=> x = n
    <3>1. new \in Nodes' /\ new \notin latches /\ new \notin Nodes
      BY <2>2, <2>3
    <3> QED BY <2>7, <3>1
  <2>13. \A h \in Blocks : \A m : (h \in Elements(succ'[m]) \/ h = succ_back_edge'[m]) <=> Branch(m, h)'
    BY DEF Branch
  <2>14. Leads(new)' = n
    <3>1. \A h \in Blocks : (h \in Elements(succ'[new]) \/ h = succ_back_edge'[new]) <=> h = n
      BY <1>3, <2>2, <2>12, <2>13
    <3>2. new \notin Blocks
      BY <1>3, <2>2
    <3>3. n \in Blocks
      BY <2>2
    <3> HIDE DEF After
    <3> QED BY <3>1, <3>2, <3>3 DEF Leads
  <2>15. ASSUME NEW m \in Nodes PROVE Leads(m)' = Leads(m)
    <3>1. CASE m \in Blocks
      BY <3>1 DEF Leads
    <3>2. CASE m \notin Blocks
      <4>1. PICK h \in Blocks : \A x \in Nodes : Branch(m, x) <=> x = h
        BY <1>1, <3>2 DEF OriginInv
      <4>2. \A x \in Blocks : Branch(m, x)' <=> x = h
        BY <1>3, <2>2, <2>7, <3>2, <4>1
      <4>3. Leads(m)' = h
        <5>1. \A x \in Blocks : (x \in Elements(succ'[m]) \/ x = succ_back_edge'[m]) <=> x = h
          BY <2>13, <4>2
        <5> QED BY <3>2, <5>1 DEF Leads
      <4>4. Leads(m) = h
        BY <1>3, <3>2, <4>1, LeadsTo
      <4> QED BY <4>3, <4>4
    <3> QED BY <3>1, <3>2
  <2>16. ASSUME NEW a \in Blocks
         PROVE  {Leads(s)' : s \in {t \in Nodes' : Branch(a, t)'}} = {b \in Blocks : <<a, b>> \in origin'}
    <3> DEFINE Old == {t \in Nodes : Branch(a, t)}
               Now == {t \in Nodes' : Branch(a, t)'}
    <3>1. {Leads(s) : s \in Old} = {b \in Blocks : <<a, b>> \in origin'}
      BY <1>1, <1>2 DEF OriginInv
    <3>2. CASE a \notin latches
      <4>1. a # new
        BY <1>3, <2>2
      <4>2. a \in Nodes' /\ a \in Nodes /\ Nodes \subseteq Nodes'
        BY <1>3, <2>2
      <4>x. \A t \in Nodes' : Branch(a, t)' <=> t \in Nodes /\ Branch(a, t)
        BY <2>7, <3>2, <4>1, <4>2
      <4>y. Now = Old
        BY <4>2, <4>x
      <4>3. {Leads(s)' : s \in Old} = {Leads(s) : s \in Old}
        BY <2>15
      <4> QED BY <3>1, <4>y, <4>3
    <3>3. CASE a \in latches
      <4>1. Now = (Old \ {n}) \cup {new} /\ n \in Old
        BY <2>2, <2>3, <2>7, <3>3
      <4>2. Leads(n) = n
        BY <2>2 DEF Leads
      <4>3. {Leads(s)' : s \in Now} = {Leads(s) : s \in Old}
        <5>1. \A s \in Old \ {n} : Leads(s)' = Leads(s)
          BY <2>15
        <5> HIDE DEF Old, Now
        <5>2. ASSUME NEW s \in Now PROVE \E t \in Old : Leads(t) = Leads(s)'
          <6>1. CASE s = new
            BY <2>14, <4>1, <4>2, <6>1
          <6>2. CASE s # new
            <7>1. s \in Old \ {n}
              BY <4>1, <6>2
            <7> QED BY <5>1, <7>1
          <6> QED BY <6>1, <6>2
        <5>3. ASSUME NEW t \in Old PROVE \E s \in Now : Leads(s)' = Leads(t)
          <6>1. CASE t = n
            BY <2>14, <4>1, <4>2, <6>1
          <6>2. CASE t # n
            <7>1. t \in Now /\ t \in Old \ {n}
              BY <4>1, <6>2
            <7> QED BY <5>1, <7>1
          <6> QED BY <6>1, <6>2
        <5> QED BY <5>2, <5>3
      <4> QED BY <3>1, <4>3
    <3> QED BY <3>2, <3>3
  <2>17. OriginInv'
    <3>1. \A m \in Nodes' \ Blocks : \E h \in Blocks : \A x \in Nodes' : Branch(m, x)' <=> x = h
      <4> SUFFICES ASSUME NEW m \in Nodes' \ Blocks
                   PROVE  \E h \in Blocks : \A x \in Nodes' : Branch(m, x)' <=> x = h
        OBVIOUS
      <4>1. CASE m = new
        <5>1. n \in Blocks
          BY <2>2
        <5> QED BY <2>12, <4>1, <5>1
      <4>2. CASE m \in Nodes \ Blocks
        BY <2>11, <4>2
      <4> QED BY <2>2, <4>1, <4>2
    <3> QED BY <2>16, <3>1 DEF OriginInv
  <2>18. LatchInv'
    <3>1. \A a \in Nodes : a \notin visited \/ a \in {stack[i].node : i \in 1 .. Len(stack) - 1} => succ'[a] = succ[a]
      <4>1. \A l \in latches : l \in visited /\ \A i \in 1 .. Len(stack) - 1 : stack[i].node # l
        BY <1>0, <1>1, <2>0, LastCall
      <4> QED BY <2>2, <4>1
    <3>2. \A a \in Nodes : \A h \in Blocks \ {n} : h \in Elements(succ[a]) => h \in Elements(succ'[a])
      BY <2>2
    <3>3. \A m \in Nodes' \ Nodes : fake_pred'[m] = << >>
      BY <2>2
    <3>4. Nodes \subseteq Nodes'
      BY <2>2
    <3> QED BY <1>1, <1>2, <1>3, <2>2, <3>1, <3>2, <3>3, <3>4, <1>0, LatchesKept
  <2> QED BY <2>9, <2>10, <2>17, <2>18 DEF EdgesInv
<1> QED BY <1>4, <1>5

\* What a step keeps that changes nothing.
LEMMA StutterEdges == VisitInv /\ EdgesInv /\ UNCHANGED visitVars => EdgesInv'
<1> SUFFICES ASSUME VisitInv, EdgesInv, UNCHANGED visitVars PROVE EdgesInv'
  OBVIOUS
<1>1. UNCHANGED <<phase, visits, origin, num_nodes, succ, pred, succ_back_edge, pred_back_edge,
                  fake_pred, visited, stack, post_order>>
  BY DEF visitVars, graphVars, backEdgeVars
<1>2. Nodes' = Nodes
  BY <1>1 DEF Nodes
<1>3. TypeInv /\ ListsInv /\ EndsInv /\ OriginInv
  BY DEF VisitInv, EdgesInv
<1>4. ListsInv' /\ EndsInv' /\ OriginInv'
  BY <1>1, <1>3, BranchesKept DEF ListsInv
<1>5. LatchInv => LatchInv'
  BY <1>1, <1>2 DEF LatchInv, Traversing, Elements, Distinct, BranchPassed
<1> QED BY <1>1, <1>4, <1>5 DEF EdgesInv

\* Every branch is recorded at both ends, and leads where it led in the input.
THEOREM EdgesInvariant == CVSpec => []EdgesInv
<1>1. CVInit => EdgesInv
  BY EdgesInit
<1>2. VisitInv /\ EdgesInv /\ [CVNext]_visitVars => EdgesInv'
  BY VisitSuccEdges, RecordBackEdgeEdges, ReturnFromAnalysisEdges, RecomputeEdges,
     VisitBackEdgeEdges, ReturnFromVisitEdges, StutterEdges DEF CVNext
<1> QED BY <1>1, <1>2, VisitInvariant, PTL DEF CVSpec

\* What a traversal has returned from.
LEMMA VisitedReturned ==
  ASSUME VisitInv, phase = "visited"
  PROVE  visited = Elements(post_order)
<1>1. CallInv /\ stack = << >>
  BY DEF VisitInv, CallInv
<1>2. Traversing = {}
  BY <1>1 DEF Traversing
<1> QED BY <1>1, <1>2 DEF CallInv

\* What the properties say of a graph whose branches are recorded so.
LEMMA EdgesProperties == VisitInv /\ EdgesInv => CVTypeOK /\ EdgesHaveTwoEnds /\ BranchesPreserved
<1> SUFFICES ASSUME VisitInv, EdgesInv PROVE CVTypeOK /\ EdgesHaveTwoEnds /\ BranchesPreserved
  OBVIOUS
<1>1. TypeInv /\ GraphInv /\ ListsInv /\ EndsInv /\ OriginInv
  BY DEF VisitInv, EdgesInv
<1>2. Blocks \subseteq Nodes /\ Null \notin Nodes
  BY <1>1, BlocksAreNodes DEF TypeInv, ListsInv
<1>3. CVTypeOK
  BY <1>1 DEF CVTypeOK, TypeInv, ListsInv
<1>4. EdgesHaveTwoEnds
  <2> SUFFICES ASSUME phase = "visited", NEW a \in visited, NEW b \in visited
               PROVE  /\ b \in Elements(succ[a]) <=> a \in Elements(pred[b])
                      /\ succ_back_edge[a] = b <=> pred_back_edge[b] = a
    BY DEF EdgesHaveTwoEnds
  <2>1. a \in Nodes /\ b \in Nodes /\ a \in Elements(post_order) /\ b \in Elements(post_order)
    BY <1>1, VisitedReturned DEF TypeInv
  <2>2. succ_back_edge[a] = b <=> pred_back_edge[b] = a
    BY <1>1, <2>1 DEF EndsInv
  <2>3. succ_back_edge[a] \notin Elements(succ[a]) /\ pred_back_edge[b] \notin Elements(pred[b])
    BY <1>1, <2>1 DEF GraphInv, EndsInv
  <2>4. Branch(a, b) <=> (a \in Elements(pred[b]) \/ pred_back_edge[b] = a)
    BY <1>1, <2>1 DEF EndsInv
  <2> QED BY <2>2, <2>3, <2>4 DEF Branch
<1>5. BranchesPreserved
  <2> SUFFICES ASSUME phase = "visited", NEW a \in visited \cap Blocks
               PROVE  {Leads(s) : s \in (Elements(succ[a]) \cup {succ_back_edge[a]}) \ {Null}}
                        = {b \in Blocks : <<a, b>> \in origin}
    BY DEF BranchesPreserved
  <2>1. a \in Nodes /\ succ[a] \in Seq(Nodes) /\ succ_back_edge[a] \in Nodes \cup {Null}
    BY <1>1, <1>2 DEF TypeInv
  <2>2. Elements(succ[a]) \subseteq Nodes
    BY <2>1 DEF Elements
  <2>3. (Elements(succ[a]) \cup {succ_back_edge[a]}) \ {Null} = {t \in Nodes : Branch(a, t)}
    BY <1>2, <2>1, <2>2 DEF Branch
  <2> QED BY <1>1, <2>3 DEF OriginInv
<1> QED BY <1>3, <1>4, <1>5

\* One element of a list before another.
Precedes(s, a, b) == \E i, j \in DOMAIN s : i < j /\ s[i] = a /\ s[j] = b

\* A list goes over into another that has the same members of a set, in order.
KeepsOrder(s, t, Z) ==
  /\ Elements(s) \cap Z = Elements(t) \cap Z
  /\ \A a, b \in Z : Precedes(t, a, b) => Precedes(s, a, b)

\* A moment of a traversal: the call it is in (Null when all have returned), the
\* blocks it has entered and those it has left, in order.
Start == [node |-> entry_block, seen |-> {entry_block}, done |-> << >>]
Enters(m, e) == [node |-> e, seen |-> m.seen \cup {e}, done |-> m.done]
Leaves(m, p) == [node |-> p, seen |-> m.seen, done |-> Append(m.done, m.node)]

\* What comes after a moment, looking at the blocks of X only: the call of the
\* first successor that was not entered, or the return to the caller.
Goes(r, X, sc, m) ==
  \/ /\ Elements(sc[m.node]) \cap X \subseteq m.seen
     /\ Leaves(m, r.up[m.node]) \in r.moments
  \/ \E e \in (Elements(sc[m.node]) \cap X) \ m.seen :
       /\ \A a \in X : Precedes(sc[m.node], a, e) => a \in m.seen
       /\ Enters(m, e) \in r.moments
       /\ r.up[e] = m.node /\ r.above[e] = r.above[m.node] \cup {e}

\* The record r of a traversal of the blocks D: its moments, and of every block
\* its caller and its ancestors.  What comes after the moments in made is not yet
\* known: the last one while the record is made, and none when it is complete.
Recorded(r, X, sc, D, made) ==
  /\ D \subseteq X /\ Start \in r.moments
  /\ r.up[entry_block] = Null /\ r.above[entry_block] = {entry_block}
  /\ \A n \in D : r.above[n] \subseteq D /\ (r.up[n] # Null => r.up[n] \in D)
  /\ \A m \in r.moments : m.seen \subseteq D
  /\ \A m \in r.moments : m.node # Null =>
       /\ m.node \in m.seen /\ r.above[m.node] \subseteq m.seen
       /\ Goes(r, X, sc, m) \/ m \in made
  /\ \A m \in r.moments : m.node = Null => m = r.last /\ m.seen = D
  /\ \A m \in made : m.seen = D /\ (m.node # Null => \A k \in r.moments : k.node # Null)

\* The call of a member of X that was made last.
Current(X) ==
  IF stack = << >> THEN Null
  ELSE IF Top.node \in X THEN Top.node ELSE stack[Len(stack) - 1].node

\* The traversal is at moment c of the record.
Now(r, X, c) == c \in r.moments /\ c.seen = visited \cap X /\ c.node = Current(X)

\* The open calls are those that the record tells.
Paths(r, X) ==
  \A i \in DOMAIN stack : stack[i].node \in X =>
    /\ r.up[stack[i].node] = IF i = 1 THEN Null ELSE stack[i - 1].node
    /\ r.above[stack[i].node] = {stack[k].node : k \in 1 .. i}

\* An open call has entered every successor it has passed.
PassedVisited ==
  \A i \in DOMAIN stack : \A j \in DOMAIN succ[stack[i].node] :
    j < stack[i].next => succ[stack[i].node][j] \in visited

\* A branch of an open call that it has still to look at.
Unpassed(x, h) == \E i \in DOMAIN stack : stack[i].node = x /\ ~ BranchPassed(x, h, stack[i].next)

\* A branch of an entered block back to an ancestor.
Loops(r, x, h) == x \in visited /\ h \in r.above[x] /\ Branch(x, h)

\* A branch of a block of the function back to an ancestor, or of a block that
\* merges back edges.
Latch(r, D, x, h) == Branch(x, h) /\ (x \in Blocks => x \in D /\ h \in r.above[x])

\* A header of H has no second one.
OneLatch(r, D, H) == \A h \in H : \A x, y \in Nodes : Latch(r, D, x, h) /\ Latch(r, D, y, h) => x = y

\* A block that merges back edges merges those of an ancestor.
MergedAbove(r, D) ==
  \A l \in D : \A m \in Nodes \ Blocks : \A h \in Nodes : Branch(l, m) /\ Branch(m, h) => h \in r.above[l]

\* The back edges that the analysis has noted, those of open calls completely, and
\* merged.
LatchesAbove(r) == \A h \in Nodes : \A x \in Elements(fake_pred[h]) : x \in visited /\ h \in r.above[x]
LoopsNoted(r) ==
  \A h \in Traversing : \A x \in Nodes : Loops(r, x, h) => x \in Elements(fake_pred[h]) \/ Unpassed(x, h)
MergesReturned == \A m \in Nodes \ Blocks : \A h \in Nodes : Branch(m, h) => h \in visited \ Traversing

\* The analysis makes a record of the blocks of the function.
AnalysisRec(r, c) ==
  /\ Recorded(r, Blocks, succ, visited, {c})
  /\ Now(r, Blocks, c) /\ Paths(r, Blocks) /\ PassedVisited
  /\ MergedAbove(r, visited) /\ LatchesAbove(r) /\ LoopsNoted(r) /\ MergesReturned
  /\ OneLatch(r, visited, visited \ Traversing)

\* The back edges that a visit has found, and its open calls: that of a block that
\* merges back edges can only be the last one.
BackEdgesLatch(r, D) == \A x, h \in Nodes : succ_back_edge[x] = h => Latch(r, D, x, h)
MergesOnTop == \A i \in DOMAIN stack : stack[i].node \in Blocks \/ (i = Len(stack) /\ i > 1)
CallsBranch == \A i \in DOMAIN stack : i > 1 => Branch(stack[i - 1].node, stack[i].node)

\* Every traversal that follows goes by that record.
VisitRec(r, c, D) ==
  /\ Recorded(r, Blocks, succ, D, {})
  /\ Now(r, Blocks, c) /\ Paths(r, Blocks) /\ PassedVisited
  /\ MergedAbove(r, D) /\ OneLatch(r, D, Nodes)
  /\ BackEdgesLatch(r, D) /\ MergesOnTop /\ CallsBranch

\* The back edges that a record tells.
BackEdgesAre(r, D, back, pback) ==
  /\ back \in [Nodes -> Nodes \cup {Null}] /\ pback \in [Nodes -> Nodes \cup {Null}]
  /\ \A n, s \in Nodes : back[n] = s <=> n \in D /\ s \in r.above[n] /\ Branch(n, s)
  /\ \A n, s \in Nodes : back[n] = s <=> pback[s] = n

\* The back edges of a visit are the branches to ancestors that it has passed.
LoopsFound(r) == \A x, h \in Nodes : Loops(r, x, h) => succ_back_edge[x] = h \/ Unpassed(x, h)
BackEdgesLoop(r) == \A x, h \in Nodes : succ_back_edge[x] = h => x \in visited /\ h \in r.above[x]

\* The first visit makes a record of all blocks X, and the others go by it.
StableRec(r, c, D, X) ==
  /\ X = Nodes /\ Recorded(r, X, succ, D, IF visits = 1 THEN {c} ELSE {})
  /\ Now(r, X, c) /\ c.done = post_order /\ Paths(r, X) /\ PassedVisited
  /\ LoopsFound(r) /\ BackEdgesLoop(r)
  /\ visits > 1 => \E back, pback : previous = <<r.last.done, back, pback>> /\ BackEdgesAre(r, D, back, pback)

-----------------------------------------------------------------------------

\* Taking an element out keeps the order of the others.
LEMMA EraseKeeps ==
  ASSUME NEW S, NEW s \in Seq(S), Distinct(s), NEW e, NEW Z, e \notin Z
  PROVE  KeepsOrder(s, Erase(s, e), Z)
<1>1. Elements(Erase(s, e)) = Elements(s) \ {e}
  BY EraseFacts
<1>2. ASSUME NEW a \in Z, NEW b \in Z, Precedes(Erase(s, e), a, b)
      PROVE  Precedes(s, a, b)
  <2>1. CASE e \notin Elements(s)
    BY <1>2, <2>1 DEF Erase
  <2>2. CASE e \in Elements(s)
    <3>1. PICK p : p = Position(s, e)
      OBVIOUS
    <3>2. PICK t : t = [i \in 1 .. Len(s) - 1 |-> IF i < p THEN s[i] ELSE s[i + 1]]
      OBVIOUS
    <3>3. Erase(s, e) = t
      BY <2>2, <3>1, <3>2 DEF Erase
    <3>4. p \in 1 .. Len(s) /\ Len(s) \in Nat /\ DOMAIN s = 1 .. Len(s)
      BY <2>2, <3>1 DEF Elements, Position
    <3>5. PICK i, j \in 1 .. Len(s) - 1 : i < j /\ t[i] = a /\ t[j] = b
      BY <1>2, <3>2, <3>3 DEF Precedes
    <3>6. PICK k : k = (IF i < p THEN i ELSE i + 1)
      OBVIOUS
    <3>7. PICK l : l = (IF j < p THEN j ELSE j + 1)
      OBVIOUS
    <3>8. k \in DOMAIN s /\ l \in DOMAIN s /\ k < l
      BY <3>4, <3>5, <3>6, <3>7
    <3>9. s[k] = a /\ s[l] = b
      BY <3>2, <3>5, <3>6, <3>7
    <3> QED BY <3>8, <3>9 DEF Precedes
  <2> QED BY <2>1, <2>2
<1> QED BY <1>1, <1>2 DEF KeepsOrder

\* So does an element at the end.
LEMMA PushKeeps ==
  ASSUME NEW S, NEW s \in Seq(S), NEW e, NEW Z, e # Null => e \in S, e \notin Z
  PROVE  KeepsOrder(s, PushUnlessNull(s, e), Z)
<1>1. CASE e = Null
  BY <1>1 DEF PushUnlessNull, KeepsOrder
<1>2. CASE e # Null
  <2>1. PushUnlessNull(s, e) = Append(s, e) /\ e \in S
    BY <1>2 DEF PushUnlessNull
  <2>2. Elements(Append(s, e)) = Elements(s) \cup {e}
    BY <2>1, AppendFacts
  <2>3. /\ DOMAIN s = 1 .. Len(s) /\ Len(s) \in Nat
        /\ DOMAIN Append(s, e) = 1 .. Len(s) + 1 /\ Append(s, e)[Len(s) + 1] = e
        /\ \A i \in 1 .. Len(s) : Append(s, e)[i] = s[i]
    BY <2>1
  <2>4. ASSUME NEW a \in Z, NEW b \in Z, Precedes(Append(s, e), a, b)
        PROVE  Precedes(s, a, b)
    <3>1. PICK i, j \in 1 .. Len(s) + 1 : i < j /\ Append(s, e)[i] = a /\ Append(s, e)[j] = b
      BY <2>3, <2>4 DEF Precedes
    <3>2. i \in 1 .. Len(s) /\ j \in 1 .. Len(s)
      BY <2>3, <3>1
    <3> QED BY <2>3, <3>1, <3>2 DEF Precedes
  <2> QED BY <2>1, <2>2, <2>4 DEF KeepsOrder
<1> QED BY <1>1, <1>2

\* So does an element in the place of another.
LEMMA ReplaceKeeps ==
  ASSUME NEW S, NEW s \in Seq(S), NEW old, NEW new, NEW Z, old \notin Z, new \notin Z
  PROVE  KeepsOrder(s, Replace(s, old, new), Z)
<1>1. /\ DOMAIN Replace(s, old, new) = DOMAIN s
      /\ \A i \in DOMAIN s : Replace(s, old, new)[i] = IF s[i] = old THEN new ELSE s[i]
  BY DEF Replace
<1>2. Elements(s) \cap Z = Elements(Replace(s, old, new)) \cap Z
  BY <1>1 DEF Elements
<1>3. \A a, b \in Z : Precedes(Replace(s, old, new), a, b) => Precedes(s, a, b)
  BY <1>1 DEF Precedes
<1> QED BY <1>2, <1>3 DEF KeepsOrder

\* A record fits every graph with the same branches, in order, to blocks that are
\* no ancestors.
LEMMA RecordKept ==
  ASSUME NEW r, NEW X, NEW sc, NEW sc2, NEW D, NEW made,
         Recorded(r, X, sc, D, made),
         \A n \in D : KeepsOrder(sc[n], sc2[n], X \ r.above[n])
  PROVE  Recorded(r, X, sc2, D, made)
<1>1. ASSUME NEW m \in r.moments, m.node # Null, Goes(r, X, sc, m) PROVE Goes(r, X, sc2, m)
  <2>1. m.node \in m.seen /\ r.above[m.node] \subseteq m.seen /\ m.node \in D
    BY <1>1 DEF Recorded
  <2>2. KeepsOrder(sc[m.node], sc2[m.node], X \ r.above[m.node])
    BY <2>1
  <2>3. \A e \in X \ m.seen : e \in X \ r.above[m.node]
    BY <2>1
  <2>4. CASE Elements(sc[m.node]) \cap X \subseteq m.seen /\ Leaves(m, r.up[m.node]) \in r.moments
    <3>1. Elements(sc2[m.node]) \cap X \subseteq m.seen
      BY <2>1, <2>2, <2>4 DEF KeepsOrder
    <3> QED BY <2>4, <3>1 DEF Goes
  <2>5. CASE \E e \in (Elements(sc[m.node]) \cap X) \ m.seen :
               /\ \A a \in X : Precedes(sc[m.node], a, e) => a \in m.seen
               /\ Enters(m, e) \in r.moments
               /\ r.up[e] = m.node /\ r.above[e] = r.above[m.node] \cup {e}
    <3>1. PICK e \in (Elements(sc[m.node]) \cap X) \ m.seen :
               /\ \A a \in X : Precedes(sc[m.node], a, e) => a \in m.seen
               /\ Enters(m, e) \in r.moments
               /\ r.up[e] = m.node /\ r.above[e] = r.above[m.node] \cup {e}
      BY <2>5
    <3>2. e \in Elements(sc2[m.node])
      BY <2>2, <2>3, <3>1 DEF KeepsOrder
    <3>3. ASSUME NEW a \in X, Precedes(sc2[m.node], a, e) PROVE a \in m.seen
      <4>1. CASE a \in r.above[m.node]
        BY <2>1, <4>1
      <4>2. CASE a \notin r.above[m.node]
        <5>1. Precedes(sc[m.node], a, e)
          BY <2>2, <2>3, <3>1, <3>3, <4>2 DEF KeepsOrder
        <5> QED BY <3>1, <5>1
      <4> QED BY <4>1, <4>2
    <3> QED BY <3>1, <3>2, <3>3 DEF Goes
  <2> QED BY <1>1, <2>4, <2>5 DEF Goes
<1> QED BY <1>1 DEF Recorded

\* The record of a traversal that has entered the entry block.
LEMMA StartRecord ==
  ASSUME NEW X, entry_block \in X, NEW sc
  PROVE  \E r : /\ Recorded(r, X, sc, {entry_block}, {Start}) /\ Start \in r.moments
                /\ r.up[entry_block] = Null /\ r.above[entry_block] = {entry_block}
<1> DEFINE r == [moments |-> {Start}, up |-> [n \in X |-> Null], above |-> [n \in X |-> {entry_block}],
                 last |-> Start]
<1>1. Start.node = entry_block /\ Start.seen = {entry_block} /\ entry_block # Null
  BY DEF Start, entry_block, Null
<1>2. /\ r.moments = {Start} /\ r.last = Start
      /\ r.up[entry_block] = Null /\ r.above[entry_block] = {entry_block}
  OBVIOUS
<1> HIDE DEF r
<1>3. Recorded(r, X, sc, {entry_block}, {Start})
  BY <1>1, <1>2 DEF Recorded
<1> QED BY <1>2, <1>3

\* Moment m of a record is followed by the call of e, or by the return.
EntersIn(r, X, sc, D, D2, made2, m, e) ==
  \E r2 : /\ Recorded(r2, X, sc, D2, made2) /\ Enters(m, e) \in r2.moments
          /\ r2.up[e] = m.node /\ r2.above[e] = r.above[m.node] \cup {e}
          /\ \A x \in D : r2.up[x] = r.up[x] /\ r2.above[x] = r.above[x]
          /\ made2 = {} => r2 = r

\* The return from the call of moment m is in the record, or in one that goes on.
LeavesIn(r, X, sc, D, made2, m) ==
  \E r2 : /\ Recorded(r2, X, sc, D, made2) /\ Leaves(m, r.up[m.node]) \in r2.moments
          /\ r2.up = r.up /\ r2.above = r.above
          /\ made2 = {} => r2 = r

\* The call of the first successor that was not entered is in the record, or it
\* is added.
LEMMA EnterRecord ==
  ASSUME NEW r, NEW X, NEW sc, NEW D, NEW c, NEW made, NEW s, NEW made2, NEW D2,
         Recorded(r, X, sc, D, made), made \subseteq {c}, c \in r.moments, c.node # Null, Null \notin X,
         s \in (Elements(sc[c.node]) \cap X) \ c.seen,
         \A a \in X : Precedes(sc[c.node], a, s) => a \in c.seen,
         \A a \in Elements(sc[c.node]) : a = s \/ Precedes(sc[c.node], a, s) \/ Precedes(sc[c.node], s, a),
         made = {} => made2 = {} /\ D2 = D, made # {} => made2 = {Enters(c, s)} /\ D2 = D \cup {s}
  PROVE  EntersIn(r, X, sc, D, D2, made2, c, s)
<1> PICK c2 : c2 = Enters(c, s)
  OBVIOUS
<1>1. CASE Goes(r, X, sc, c)
  <2>1. PICK e \in (Elements(sc[c.node]) \cap X) \ c.seen :
               /\ \A a \in X : Precedes(sc[c.node], a, e) => a \in c.seen
               /\ Enters(c, e) \in r.moments
               /\ r.up[e] = c.node /\ r.above[e] = r.above[c.node] \cup {e}
    BY <1>1 DEF Goes
  <2>2. e = s
    BY <2>1
  <2>3. made = {}
    <3>1. s \in Enters(c, s).seen
      BY DEF Enters
    <3>2. s \in D
      BY <2>1, <2>2, <3>1 DEF Recorded
    <3> QED BY <3>2 DEF Recorded
  <2>4. Recorded(r, X, sc, D2, made2)
    BY <2>3 DEF Recorded
  <2> QED BY <2>1, <2>2, <2>3, <2>4 DEF EntersIn
<1>2. CASE ~ Goes(r, X, sc, c)
  <2>1. made = {c} /\ c.seen = D /\ s \notin D
    BY <1>2 DEF Recorded
  <2>d. D2 = D \cup {s}
    BY <2>1
  <2> DEFINE r2 == [moments |-> r.moments \cup {c2},
                    up |-> [x \in X |-> IF x = s THEN c.node ELSE r.up[x]],
                    above |-> [x \in X |-> IF x = s THEN r.above[c.node] \cup {s} ELSE r.above[x]],
                    last |-> r.last]
  <2>2. c2.node = s /\ c2.seen = D2
    BY <2>1, <2>d DEF Enters
  <2>3. D \subseteq X /\ D2 \subseteq X /\ s # Null /\ c.node \in D /\ entry_block \in D
    <3>1. Start.seen = {entry_block}
      BY DEF Start
    <3> QED BY <3>1, <2>1, <2>d DEF Recorded
  <2>4. /\ r2.moments = r.moments \cup {c2} /\ r2.last = r.last
        /\ r2.up[s] = c.node /\ r2.above[s] = r.above[c.node] \cup {s}
        /\ \A x \in D : r2.up[x] = r.up[x] /\ r2.above[x] = r.above[x]
    BY <2>1, <2>3
  <2> HIDE DEF r2
  <2>5. ASSUME NEW m \in r.moments
        PROVE  m.node # Null /\ m.node \in D /\ m.seen \subseteq D /\ m.node \in m.seen /\ r.above[m.node] \subseteq m.seen
    BY <2>1 DEF Recorded
  <2>6. ASSUME NEW m \in r.moments, Goes(r, X, sc, m) PROVE Goes(r2, X, sc, m)
    <3>1. CASE Elements(sc[m.node]) \cap X \subseteq m.seen /\ Leaves(m, r.up[m.node]) \in r.moments
      BY <2>4, <2>5, <3>1 DEF Goes
    <3>2. CASE \E e \in (Elements(sc[m.node]) \cap X) \ m.seen :
                 /\ \A a \in X : Precedes(sc[m.node], a, e) => a \in m.seen
                 /\ Enters(m, e) \in r.moments
                 /\ r.up[e] = m.node /\ r.above[e] = r.above[m.node] \cup {e}
      <4>1. PICK e \in (Elements(sc[m.node]) \cap X) \ m.seen :
                 /\ \A a \in X : Precedes(sc[m.node], a, e) => a \in m.seen
                 /\ Enters(m, e) \in r.moments
                 /\ r.up[e] = m.node /\ r.above[e] = r.above[m.node] \cup {e}
        BY <3>2
      <4>2. e \in Enters(m, e).seen
        BY DEF Enters
      <4>3. e \in D /\ m.node \in D
        BY <2>5, <4>1, <4>2
      <4> QED BY <2>4, <4>1, <4>3 DEF Goes
    <3> QED BY <2>6, <3>1, <3>2 DEF Goes
  <2>7. Goes(r2, X, sc, c)
    BY <2>3, <2>4 DEF Goes
  <2>8. Recorded(r2, X, sc, D2, made2)
    <3>1. Start \in r2.moments /\ r2.up[entry_block] = Null /\ r2.above[entry_block] = {entry_block}
      BY <2>3, <2>4 DEF Recorded
    <3>2. \A n \in D2 : r2.above[n] \subseteq D2 /\ (r2.up[n] # Null => r2.up[n] \in D2)
      <4>1. \A n \in D : r.above[n] \subseteq D /\ (r.up[n] # Null => r.up[n] \in D)
        BY DEF Recorded
      <4> QED BY <2>d, <2>3, <2>4, <4>1
    <3>3. ASSUME NEW m \in r2.moments
          PROVE  /\ m.seen \subseteq D2 /\ m.node # Null
                 /\ m.node \in m.seen /\ r2.above[m.node] \subseteq m.seen
                 /\ Goes(r2, X, sc, m) \/ m = c2
      <4>1. CASE m = c2
        <5>1. r.above[c.node] \subseteq D
          BY <2>3 DEF Recorded
        <5> QED BY <2>d, <2>2, <2>3, <2>4, <4>1, <5>1
      <4>2. CASE m # c2
        <5>1. m \in r.moments
          BY <2>4, <4>2
        <5>2. Goes(r, X, sc, m) \/ m = c
          BY <2>5, <5>1 DEF Recorded
        <5> QED BY <2>d, <2>4, <2>5, <2>6, <2>7, <5>1, <5>2
      <4> QED BY <4>1, <4>2
    <3> QED BY <2>1, <2>2, <2>3, <3>1, <3>2, <3>3 DEF Recorded
  <2> QED BY <2>1, <2>4, <2>8 DEF EntersIn
<1> QED BY <1>1, <1>2

\* When all successors were entered, the return to the caller is in the record,
\* or it is added.
LEMMA LeaveRecord ==
  ASSUME NEW r, NEW X, NEW sc, NEW D, NEW c, NEW made, NEW made2,
         Recorded(r, X, sc, D, made), made \subseteq {c}, c \in r.moments, c.node # Null,
         Elements(sc[c.node]) \cap X \subseteq c.seen,
         made = {} => made2 = {}, made # {} => made2 = {Leaves(c, r.up[c.node])}
  PROVE  LeavesIn(r, X, sc, D, made2, c)
<1> PICK c2 : c2 = Leaves(c, r.up[c.node])
  OBVIOUS
<1>1. CASE made = {}
  <2>1. Goes(r, X, sc, c)
    BY <1>1 DEF Recorded
  <2>2. c2 \in r.moments
    BY <2>1 DEF Goes
  <2>3. Recorded(r, X, sc, D, made2)
    BY <1>1 DEF Recorded
  <2> QED BY <1>1, <2>2, <2>3 DEF LeavesIn
<1>2. CASE made = {c}
  <2>1. c.seen = D /\ \A m \in r.moments : m.node # Null
    BY <1>2 DEF Recorded
  <2>2. c2.node = r.up[c.node] /\ c2.seen = D
    BY <2>1 DEF Leaves
  <2>3. c.node \in D
    BY <2>1 DEF Recorded
  <2>4. PICK r2 : r2 = [moments |-> r.moments \cup {c2}, up |-> r.up, above |-> r.above,
                        last |-> IF c2.node = Null THEN c2 ELSE r.last]
    OBVIOUS
  <2>5. /\ r2.moments = r.moments \cup {c2} /\ r2.up = r.up /\ r2.above = r.above
        /\ c2.node = Null => r2.last = c2
    BY <2>4
  <2>6. ASSUME NEW m \in r.moments, Goes(r, X, sc, m) PROVE Goes(r2, X, sc, m)
    BY <2>5, <2>6 DEF Goes
  <2>7. Goes(r2, X, sc, c)
    BY <2>5 DEF Goes
  <2>8. /\ D \subseteq X /\ Start \in r.moments
        /\ r.up[entry_block] = Null /\ r.above[entry_block] = {entry_block}
        /\ \A n \in D : r.above[n] \subseteq D /\ (r.up[n] # Null => r.up[n] \in D)
        /\ \A m \in r.moments : m.seen \subseteq D
        /\ \A m \in r.moments : m.node \in m.seen /\ r.above[m.node] \subseteq m.seen /\ (Goes(r, X, sc, m) \/ m = c)
    BY <2>1 DEF Recorded
  <2>9. ASSUME NEW m \in r2.moments
        PROVE  /\ m.seen \subseteq D
               /\ m.node # Null => /\ m.node \in m.seen /\ r2.above[m.node] \subseteq m.seen
                                   /\ Goes(r2, X, sc, m) \/ m = c2
               /\ m.node = Null => m = r2.last /\ m.seen = D
    <3>1. CASE m = c2
      BY <2>2, <2>3, <2>5, <2>8, <3>1
    <3>2. CASE m # c2
      <4>1. m \in r.moments /\ m.node # Null
        BY <2>1, <2>5, <3>2
      <4> QED BY <2>5, <2>6, <2>7, <2>8, <4>1
    <3> QED BY <3>1, <3>2
  <2>10. c2.node # Null => \A m \in r2.moments : m.node # Null
    BY <2>1, <2>5
  <2>11. Recorded(r2, X, sc, D, made2)
    BY <1>2, <2>2, <2>5, <2>8, <2>9, <2>10 DEF Recorded
  <2> QED BY <1>2, <2>5, <2>11 DEF LeavesIn
<1> QED BY <1>1, <1>2

\* A record that is complete stays one.
LEMMA CloseRecord ==
  ASSUME NEW r, NEW X, NEW sc, NEW D, NEW made,
         Recorded(r, X, sc, D, made), \A m \in made : m.node = Null
  PROVE  Recorded(r, X, sc, D, {})
BY DEF Recorded

\* The open calls, and the one that looks at its successors.
LEMMA CallFacts ==
  ASSUME TypeInv, stack # << >>
  PROVE  /\ Len(stack) \in Nat \ {0} /\ DOMAIN stack = 1 .. Len(stack) /\ Len(stack) \in DOMAIN stack
         /\ stack[Len(stack)] = Top
         /\ \A i \in 1 .. Len(stack) : /\ stack[i].node \in Nodes /\ stack[i].node \in Traversing
                                       /\ stack[i].next \in Nat \ {0}
                                       /\ succ[stack[i].node] \in Seq(Nodes)
<1>1. Len(stack) \in Nat \ {0} /\ DOMAIN stack = 1 .. Len(stack) /\ stack \in Seq(FrameType)
  BY AdvanceFacts DEF TypeInv, FrameType
<1>2. \A i \in 1 .. Len(stack) : stack[i] \in FrameType
  BY <1>1
<1>3. \A i \in 1 .. Len(stack) : stack[i].node \in Nodes /\ stack[i].next \in Nat \ {0}
  BY <1>2 DEF FrameType
<1>4. \A i \in 1 .. Len(stack) : stack[i].node \in Traversing
  BY <1>1 DEF Traversing
<1> QED BY <1>1, <1>3, <1>4 DEF Top, TypeInv

\* The open calls after the loop has moved on.
LEMMA AdvancedCalls ==
  ASSUME TypeInv, stack # << >>, stack' = Advance
  PROVE  /\ stack' # << >> /\ Len(stack') = Len(stack) /\ DOMAIN stack' = 1 .. Len(stack)
         /\ \A i \in 1 .. Len(stack) : stack'[i].node = stack[i].node
         /\ \A i \in 1 .. Len(stack) : i < Len(stack) => stack'[i].next = stack[i].next
         /\ stack'[Len(stack)].next = stack[Len(stack)].next + 1
         /\ Traversing' = Traversing
<1>1. /\ Len(stack) \in Nat \ {0} /\ DOMAIN stack = 1 .. Len(stack)
      /\ Len(Advance) = Len(stack) /\ DOMAIN Advance = DOMAIN stack
      /\ \A i \in DOMAIN stack : Advance[i].node = stack[i].node
      /\ \A i \in DOMAIN stack : i < Len(stack) => Advance[i].next = stack[i].next
      /\ Advance[Len(stack)].next = stack[Len(stack)].next + 1
  BY AdvanceFacts
<1>2. stack' # << >>
  BY <1>1
<1>3. Traversing' = Traversing
  BY <1>1 DEF Traversing
<1> QED BY <1>1, <1>2, <1>3

\* The open calls after one has begun.
LEMMA EnteredCalls ==
  ASSUME TypeInv, stack # << >>, NEW s \in Nodes, stack' = Append(Advance, Frame(s))
  PROVE  /\ stack' # << >> /\ Len(stack') = Len(stack) + 1 /\ DOMAIN stack' = 1 .. Len(stack) + 1
         /\ \A i \in 1 .. Len(stack) : stack'[i].node = stack[i].node
         /\ \A i \in 1 .. Len(stack) : i < Len(stack) => stack'[i].next = stack[i].next
         /\ stack'[Len(stack)].next = stack[Len(stack)].next + 1
         /\ stack'[Len(stack) + 1].node = s /\ stack'[Len(stack) + 1].next = 1
         /\ Traversing' = Traversing \cup {s}
<1>1. /\ Len(stack) \in Nat \ {0} /\ DOMAIN stack = 1 .. Len(stack)
      /\ Advance \in Seq(FrameType)
      /\ Len(Advance) = Len(stack) /\ DOMAIN Advance = DOMAIN stack
      /\ \A i \in DOMAIN stack : Advance[i].node = stack[i].node
      /\ \A i \in DOMAIN stack : i < Len(stack) => Advance[i].next = stack[i].next
      /\ Advance[Len(stack)].next = stack[Len(stack)].next + 1
  BY AdvanceFacts
<1>2. Frame(s) \in FrameType /\ Frame(s).node = s /\ Frame(s).next = 1
  BY DEF Frame, FrameType
<1>3. /\ Len(stack') = Len(stack) + 1 /\ DOMAIN stack' = 1 .. Len(stack) + 1
      /\ \A i \in 1 .. Len(stack) : stack'[i] = Advance[i]
      /\ stack'[Len(stack) + 1] = Frame(s)
  BY <1>1, <1>2
<1>4. stack' # << >>
  BY <1>1, <1>3
<1>5. \A i \in 1 .. Len(stack) : stack'[i].node = stack[i].node
  BY <1>1, <1>3
<1>6. Traversing' = Traversing \cup {s}
  <2> PICK L \in Nat : L = Len(stack)
    BY <1>1
  <2>1. /\ DOMAIN stack = 1 .. L /\ DOMAIN stack' = 1 .. L + 1
        /\ \A i \in 1 .. L : stack'[i].node = stack[i].node
        /\ stack'[L + 1].node = s
    BY <1>1, <1>2, <1>3, <1>5
  <2>2. \A i \in 1 .. L + 1 : i \in 1 .. L \/ i = L + 1
    OBVIOUS
  <2>3. L + 1 \in 1 .. L + 1 /\ \A i \in 1 .. L : i \in 1 .. L + 1
    OBVIOUS
  <2>4. ASSUME NEW x \in Traversing' PROVE x \in Traversing \cup {s}
    BY <2>1, <2>2 DEF Traversing
  <2>5. \A x \in Traversing : x \in Traversing'
    BY <2>1, <2>3 DEF Traversing
  <2>6. s \in Traversing'
    BY <2>1, <2>3 DEF Traversing
  <2> QED BY <2>4, <2>5, <2>6
<1>7. /\ \A i \in 1 .. Len(stack) : i < Len(stack) => stack'[i].next = stack[i].next
      /\ stack'[Len(stack)].next = stack[Len(stack)].next + 1
  <2>1. \A i \in 1 .. Len(stack) : stack'[i] = Advance[i]
    BY <1>3
  <2>2. Len(stack) \in 1 .. Len(stack) /\ DOMAIN stack = 1 .. Len(stack)
    BY <1>1
  <2> QED BY <1>1, <2>1, <2>2
<1> QED BY <1>2, <1>3, <1>4, <1>5, <1>6, <1>7

\* The open calls after the last has returned.
LEMMA PoppedCalls ==
  ASSUME TypeInv, stack # << >>, stack' = Pop
  PROVE  /\ DOMAIN stack' = 1 .. Len(stack) - 1 /\ Len(stack') = Len(stack) - 1
         /\ \A i \in 1 .. Len(stack) - 1 : i \in 1 .. Len(stack) /\ stack'[i] = stack[i]
         /\ stack' = << >> <=> Len(stack) = 1
         /\ \A x \in Traversing : x \in Traversing' \/ x = Top.node
         /\ Traversing' \subseteq Traversing
<1>1. /\ Len(stack) \in Nat \ {0} /\ DOMAIN stack = 1 .. Len(stack) /\ stack[Len(stack)] = Top
  BY CallFacts
<1>2. /\ DOMAIN stack' = 1 .. Len(stack) - 1 /\ Len(stack') = Len(stack) - 1
      /\ \A i \in 1 .. Len(stack) - 1 : i \in 1 .. Len(stack) /\ stack'[i] = stack[i]
  BY <1>1, PopFacts
<1>3. stack' = << >> <=> Len(stack) = 1
  <2>1. stack' \in Seq(FrameType)
    BY PopFacts
  <2>2. stack' = << >> <=> Len(stack') = 0
    BY <2>1
  <2> QED BY <1>1, <1>2, <2>2
<1>4. \A i \in 1 .. Len(stack) : i \in 1 .. Len(stack) - 1 \/ i = Len(stack)
  <2> PICK L \in Nat : L = Len(stack)
    BY <1>1
  <2>1. \A i \in 1 .. L : i \in 1 .. L - 1 \/ i = L
    OBVIOUS
  <2> QED BY <2>1
<1>5. \A x \in Traversing : x \in Traversing' \/ x = Top.node
  BY <1>1, <1>2, <1>4 DEF Traversing
<1>6. Traversing' \subseteq Traversing
  BY <1>1, <1>2 DEF Traversing
<1> QED BY <1>2, <1>3, <1>5, <1>6

\* The successor that a call looks at, when it was not visited: what comes before
\* it was.
LEMMA FirstUnvisited ==
  ASSUME TypeInv, GraphInv, MoreSucc, PassedVisited, NextSucc \notin visited
  PROVE  /\ NextSucc \in Elements(succ[Top.node])
         /\ \A a : Precedes(succ[Top.node], a, NextSucc) => a \in visited
         /\ \A a \in Elements(succ[Top.node]) :
              a = NextSucc \/ Precedes(succ[Top.node], a, NextSucc) \/ Precedes(succ[Top.node], NextSucc, a)
<1>1. PICK t, p : t = succ[Top.node] /\ p = Top.next
  OBVIOUS
<1>2. /\ Top.node \in Nodes /\ p \in Nat \ {0} /\ t \in Seq(Nodes) /\ p <= Len(t)
      /\ Len(stack) \in DOMAIN stack /\ stack[Len(stack)] = Top
  BY <1>1, CallFacts DEF MoreSucc
<1>3. p \in DOMAIN t /\ t[p] = NextSucc /\ Distinct(t) /\ \A j \in DOMAIN t : j \in Nat
  BY <1>1, <1>2 DEF GraphInv, NextSucc
<1>4. \A j \in DOMAIN t : j < p => t[j] \in visited
  BY <1>1, <1>2 DEF PassedVisited
<1>5. \A a : Precedes(t, a, NextSucc) => a \in visited
  <2> SUFFICES ASSUME NEW i \in DOMAIN t, NEW j \in DOMAIN t, i < j, t[j] = NextSucc
               PROVE  t[i] \in visited
    BY DEF Precedes
  <2>1. j = p
    BY <1>3 DEF Distinct
  <2> QED BY <1>4, <2>1
<1>6. ASSUME NEW i \in DOMAIN t
      PROVE  t[i] = NextSucc \/ Precedes(t, t[i], NextSucc) \/ Precedes(t, NextSucc, t[i])
  <2>1. i < p \/ i = p \/ p < i
    BY <1>2, <1>3
  <2> QED BY <1>3, <2>1 DEF Precedes
<1> QED BY <1>1, <1>3, <1>5, <1>6 DEF Elements

\* A call that returns has seen all its successors visited.
LEMMA AllVisited ==
  ASSUME TypeInv, Returns, PassedVisited
  PROVE  Elements(succ[Top.node]) \subseteq visited
<1>1. /\ succ[Top.node] \in Seq(Nodes) /\ Top.next \in Nat
      /\ Len(stack) \in DOMAIN stack /\ stack[Len(stack)] = Top
  BY CallFacts DEF Returns
<1>2. \A j \in DOMAIN succ[Top.node] : j < Top.next
  BY <1>1 DEF Returns
<1> QED BY <1>1, <1>2 DEF PassedVisited, Elements

\* What the loop that moves on keeps.
LEMMA AdvanceKeeps ==
  ASSUME TypeInv, stack # << >>, stack' = Advance, NEW X
  PROVE  /\ Current(X)' = Current(X)
         /\ \A r : Paths(r, X) => Paths(r, X)'
<1>1. /\ stack' # << >> /\ Len(stack') = Len(stack) /\ DOMAIN stack' = 1 .. Len(stack)
      /\ \A i \in 1 .. Len(stack) : stack'[i].node = stack[i].node
  BY AdvancedCalls
<1>2. Len(stack) \in Nat \ {0} /\ DOMAIN stack = 1 .. Len(stack)
  BY CallFacts
<1>3. Top' = stack'[Len(stack)] /\ Top = stack[Len(stack)]
  BY <1>1 DEF Top
<1>4. Current(X)' = Current(X)
  <2> PICK L \in Nat \ {0} : L = Len(stack)
    BY <1>2
  <2>1. L \in 1 .. L
    OBVIOUS
  <2>2. Top'.node = Top.node
    BY <1>1, <1>3, <2>1
  <2>3. CASE L = 1
    <3>1. Current(X) = IF Top.node \in X THEN Top.node ELSE stack[0].node
      BY <2>3 DEF Current
    <3>2. Current(X)' = IF Top'.node \in X THEN Top'.node ELSE stack'[0].node
      BY <1>1, <2>3 DEF Current
    <3>3. stack'[0] = stack[0]
      BY <1>1, <1>2, <2>3 DEF Advance
    <3> QED BY <2>2, <3>1, <3>2, <3>3
  <2>4. CASE L # 1
    <3>1. L - 1 \in 1 .. L
      BY <2>4
    <3>2. stack'[L - 1].node = stack[L - 1].node
      BY <1>1, <3>1
    <3> QED BY <1>1, <2>2, <3>2 DEF Current
  <2> QED BY <2>3, <2>4
<1>5. ASSUME NEW r, Paths(r, X) PROVE Paths(r, X)'
  <2> PICK L \in Nat \ {0} : L = Len(stack)
    BY <1>2
  <2>1. ASSUME NEW i \in 1 .. L, stack'[i].node \in X
        PROVE  /\ r.up[stack'[i].node] = IF i = 1 THEN Null ELSE stack'[i - 1].node
               /\ r.above[stack'[i].node] = {stack'[k].node : k \in 1 .. i}
    <3>1. /\ r.up[stack[i].node] = IF i = 1 THEN Null ELSE stack[i - 1].node
          /\ r.above[stack[i].node] = {stack[k].node : k \in 1 .. i}
          /\ stack'[i].node = stack[i].node
      BY <1>1, <1>2, <1>5, <2>1 DEF Paths
    <3>2. i # 1 => i - 1 \in 1 .. L
      OBVIOUS
    <3>3. \A k \in 1 .. i : stack'[k].node = stack[k].node
      BY <1>1
    <3> QED BY <1>1, <3>1, <3>2, <3>3
  <2> QED BY <1>1, <2>1 DEF Paths
<1> QED BY <1>4, <1>5

\* A call of a member of X begins, as a record tells.
LEMMA EnterPaths ==
  ASSUME TypeInv, stack # << >>, NEW X, NEW s \in Nodes, s \notin Traversing, Top.node \in X,
         stack' = Append(Advance, Frame(s)), NEW r, NEW r2, Paths(r, X),
         \A x \in Traversing \cap X : r2.up[x] = r.up[x] /\ r2.above[x] = r.above[x],
         s \in X => r2.up[s] = Top.node /\ r2.above[s] = r.above[Top.node] \cup {s}
  PROVE  /\ Paths(r2, X)'
         /\ Current(X)' = IF s \in X THEN s ELSE Top.node
<1> PICK L \in Nat \ {0} : L = Len(stack)
  BY CallFacts
<1>1. /\ stack' # << >> /\ Len(stack') = L + 1 /\ DOMAIN stack' = 1 .. L + 1
      /\ \A i \in 1 .. L : stack'[i].node = stack[i].node
      /\ stack'[L + 1].node = s
  BY EnteredCalls
<1>2. /\ DOMAIN stack = 1 .. L /\ stack[L] = Top
      /\ \A i \in 1 .. L : stack[i].node \in Traversing
  BY CallFacts
<1>3. L \in 1 .. L /\ L + 1 - 1 = L /\ \A i \in 1 .. L + 1 : i \in 1 .. L \/ i = L + 1
  OBVIOUS
<1>4. stack'[L].node = Top.node
  BY <1>1, <1>2, <1>3
<1>5. Current(X)' = IF s \in X THEN s ELSE Top.node
  <2>1. Top' = stack'[L + 1]
    BY <1>1 DEF Top
  <2> QED BY <1>1, <1>3, <1>4, <2>1 DEF Current
<1>6. ASSUME NEW i \in 1 .. L, stack[i].node \in X
      PROVE  /\ r2.up[stack'[i].node] = IF i = 1 THEN Null ELSE stack'[i - 1].node
             /\ r2.above[stack'[i].node] = {stack'[k].node : k \in 1 .. i}
  <2>1. /\ r.up[stack[i].node] = IF i = 1 THEN Null ELSE stack[i - 1].node
        /\ r.above[stack[i].node] = {stack[k].node : k \in 1 .. i}
        /\ stack'[i].node = stack[i].node
    BY <1>1, <1>2, <1>6 DEF Paths
  <2>2. i # 1 => i - 1 \in 1 .. L
    OBVIOUS
  <2>3. \A k \in 1 .. i : stack'[k].node = stack[k].node
    BY <1>1
  <2>4. r2.up[stack[i].node] = r.up[stack[i].node] /\ r2.above[stack[i].node] = r.above[stack[i].node]
    BY <1>2, <1>6
  <2>5. {stack'[k].node : k \in 1 .. i} = {stack[k].node : k \in 1 .. i}
    BY <2>3
  <2>6. (IF i = 1 THEN Null ELSE stack'[i - 1].node) = (IF i = 1 THEN Null ELSE stack[i - 1].node)
    BY <1>1, <2>2
  <2> QED BY <2>1, <2>4, <2>5, <2>6
<1>7. ASSUME s \in X
      PROVE  /\ r2.up[s] = stack'[L].node
             /\ r2.above[s] = {stack'[k].node : k \in 1 .. L + 1}
  <2>1. r.above[Top.node] = {stack[k].node : k \in 1 .. L}
    BY <1>2, <1>3 DEF Paths
  <2>2. {stack'[k].node : k \in 1 .. L + 1} = {stack[k].node : k \in 1 .. L} \cup {s}
    <3>1. \A k \in 1 .. L : k \in 1 .. L + 1
      OBVIOUS
    <3> QED BY <1>1, <1>3, <3>1
  <2> QED BY <1>4, <1>7, <2>1, <2>2
<1>8. Paths(r2, X)'
  <2> SUFFICES ASSUME NEW i \in 1 .. L + 1, stack'[i].node \in X
               PROVE  /\ r2.up[stack'[i].node] = IF i = 1 THEN Null ELSE stack'[i - 1].node
                      /\ r2.above[stack'[i].node] = {stack'[k].node : k \in 1 .. i}
    BY <1>1 DEF Paths
  <2>1. CASE i \in 1 .. L
    <3>1. stack[i].node \in X
      BY <1>1, <2>1
    <3> QED BY <1>6, <2>1, <3>1
  <2>2. CASE i = L + 1
    <3>1. s \in X /\ i # 1 /\ i - 1 = L
      BY <1>1, <2>2
    <3>2. r2.up[s] = stack'[L].node /\ r2.above[s] = {stack'[k].node : k \in 1 .. L + 1}
      BY <1>7, <3>1
    <3> QED BY <1>1, <2>2, <3>1, <3>2
  <2> QED BY <1>3, <2>1, <2>2
<1> QED BY <1>5, <1>8

\* The last call returns, as a record tells.
LEMMA LeavePaths ==
  ASSUME TypeInv, stack # << >>, NEW X, stack' = Pop, NEW r, NEW r2, Paths(r, X),
         r2.up = r.up, r2.above = r.above,
         \A i \in DOMAIN stack : stack[i].node \in X \/ (i = Len(stack) /\ i > 1)
  PROVE  /\ Paths(r2, X)'
         /\ Current(X)' = IF Top.node \in X THEN r.up[Top.node] ELSE Current(X)
<1> PICK L \in Nat \ {0} : L = Len(stack)
  BY CallFacts
<1>1. DOMAIN stack = 1 .. L /\ stack[L] = Top /\ L \in 1 .. L
  BY CallFacts
<1>2. /\ DOMAIN stack' = 1 .. L - 1 /\ Len(stack') = L - 1
      /\ \A i \in 1 .. L - 1 : i \in 1 .. L /\ stack'[i] = stack[i]
      /\ stack' = << >> <=> L = 1
  BY PoppedCalls
<1>3. Paths(r2, X)'
  <2>1. ASSUME NEW i \in 1 .. L - 1, stack'[i].node \in X
        PROVE  /\ r2.up[stack'[i].node] = IF i = 1 THEN Null ELSE stack'[i - 1].node
               /\ r2.above[stack'[i].node] = {stack'[k].node : k \in 1 .. i}
    <3>1. i \in DOMAIN stack /\ stack'[i] = stack[i]
      BY <1>1, <1>2
    <3>2. /\ r.up[stack[i].node] = IF i = 1 THEN Null ELSE stack[i - 1].node
          /\ r.above[stack[i].node] = {stack[k].node : k \in 1 .. i}
      BY <2>1, <3>1 DEF Paths
    <3>3. \A k \in 1 .. i : stack'[k] = stack[k]
      <4>1. \A k \in 1 .. i : k \in 1 .. L - 1
        OBVIOUS
      <4> QED BY <1>2, <4>1
    <3>4. {stack'[k].node : k \in 1 .. i} = {stack[k].node : k \in 1 .. i}
      BY <3>3
    <3>5. i # 1 => stack'[i - 1] = stack[i - 1]
      <4>1. i # 1 => i - 1 \in 1 .. i
        OBVIOUS
      <4> QED BY <3>3, <4>1
    <3>6. (IF i = 1 THEN Null ELSE stack'[i - 1].node) = (IF i = 1 THEN Null ELSE stack[i - 1].node)
      BY <3>5
    <3> QED BY <3>1, <3>2, <3>4, <3>6
  <2> QED BY <1>2, <2>1 DEF Paths
<1>4. CASE L = 1
  <2>1. Top.node \in X
    BY <1>1, <1>4
  <2>2. Current(X)' = Null
    BY <1>2, <1>4 DEF Current
  <2>3. r.up[Top.node] = Null
    BY <1>1, <1>4, <2>1 DEF Paths
  <2> QED BY <1>3, <2>1, <2>2, <2>3
<1>5. CASE L # 1
  <2>1. L - 1 \in 1 .. L - 1 /\ L - 1 \in 1 .. L /\ L - 1 # L
    BY <1>5
  <2>2. stack[L - 1].node \in X /\ stack'[L - 1] = stack[L - 1]
    BY <1>1, <1>2, <2>1
  <2>3. Top' = stack[L - 1] /\ stack' # << >>
    BY <1>2, <1>5, <2>2 DEF Top
  <2>4. Current(X)' = stack[L - 1].node
    BY <2>2, <2>3 DEF Current
  <2>5. CASE Top.node \in X
    <3>1. r.up[Top.node] = stack[L - 1].node
      BY <1>1, <1>5, <2>5 DEF Paths
    <3> QED BY <1>3, <2>4, <2>5, <3>1
  <2>6. CASE Top.node \notin X
    <3>1. Current(X) = stack[L - 1].node
      BY <2>6 DEF Current
    <3> QED BY <1>3, <2>4, <2>6, <3>1
  <2> QED BY <2>5, <2>6
<1> QED BY <1>3, <1>4, <1>5

\* The branch that a call looks at has been passed when the loop has moved on.
LEMMA PassBranch ==
  ASSUME TypeInv, MoreSucc, UNCHANGED succ, visited \subseteq visited', NEW s, s = NextSucc, s \in visited',
         \/ stack' = Advance
         \/ stack' = Append(Advance, Frame(s))
  PROVE  /\ PassedVisited => PassedVisited'
         /\ \A x, h : Unpassed(x, h) => Unpassed(x, h)' \/ (x = Top.node /\ h = s)
         /\ stack' = Append(Advance, Frame(s)) => \A h : Unpassed(s, h)'
<1>1. stack # << >> /\ Top.next <= Len(succ[Top.node])
  BY DEF MoreSucc
<1> PICK L \in Nat \ {0} : L = Len(stack)
  BY <1>1, CallFacts
<1>2. /\ DOMAIN stack = 1 .. L /\ stack[L] = Top /\ L \in 1 .. L
      /\ \A i \in 1 .. L : stack[i].next \in Nat /\ succ[stack[i].node] \in Seq(Nodes) /\ stack[i].node \in Nodes
  BY <1>1, CallFacts
<1>3. Top.next \in DOMAIN succ[Top.node] /\ succ[Top.node][Top.next] = s /\ s \in Nodes
  <2>1. Top.next \in Nat \ {0} /\ succ[Top.node] \in Seq(Nodes)
    BY <1>1, <1>2, CallFacts
  <2> QED BY <1>1, <2>1 DEF NextSucc
<1>4. PICK M \in {L, L + 1} :
        /\ DOMAIN stack' = 1 .. M
        /\ M = L + 1 => stack'[M].node = s /\ stack'[M].next = 1
        /\ stack' = Append(Advance, Frame(s)) => M = L + 1
  <2>1. CASE stack' = Advance
    <3>1. DOMAIN stack' = 1 .. L
      BY <1>1, <2>1, AdvancedCalls
    <3>2. Len(stack') = L
      BY <1>1, <2>1, AdvancedCalls
    <3>3. stack' # Append(Advance, Frame(s))
      <4>1. Advance \in Seq(FrameType)
        BY <1>1, AdvanceFacts
      <4>2. Len(Append(Advance, Frame(s))) = L + 1
        BY <2>1, <3>2, <4>1
      <4> QED BY <3>2, <4>2
    <3> QED BY <3>1, <3>3
  <2>2. CASE stack' = Append(Advance, Frame(s))
    BY <1>1, <1>3, <2>2, EnteredCalls
  <2> QED BY <2>1, <2>2
<1>5. /\ \A i \in 1 .. L : stack'[i].node = stack[i].node
      /\ \A i \in 1 .. L : i < L => stack'[i].next = stack[i].next
      /\ stack'[L].next = Top.next + 1
  <2>1. CASE stack' = Advance
    BY <1>1, <1>2, <2>1, AdvancedCalls
  <2>2. CASE stack' = Append(Advance, Frame(s))
    BY <1>1, <1>2, <1>3, <2>2, EnteredCalls
  <2> QED BY <2>1, <2>2
<1>6. ASSUME NEW i \in 1 .. L, NEW j \in DOMAIN succ[stack[i].node], j < stack'[i].next
      PROVE  j < stack[i].next \/ (i = L /\ j = Top.next)
  <2>1. j \in Nat
    BY <1>2
  <2>2. CASE i < L
    BY <1>5, <1>6, <2>2
  <2>3. CASE i = L
    <3>1. Top.next \in Nat
      BY <1>2
    <3> QED BY <1>2, <1>5, <1>6, <2>1, <2>3, <3>1
  <2> QED BY <2>2, <2>3
<1>7. ASSUME PassedVisited PROVE PassedVisited'
  <2>1. ASSUME NEW i \in 1 .. M, NEW j \in DOMAIN succ'[stack'[i].node], j < stack'[i].next
        PROVE  succ'[stack'[i].node][j] \in visited'
    <3>1. CASE i \in 1 .. L
      <4>1. stack'[i].node = stack[i].node /\ j \in DOMAIN succ[stack[i].node]
        BY <1>5, <2>1, <3>1
      <4>2. j < stack[i].next \/ (i = L /\ j = Top.next)
        BY <1>6, <2>1, <3>1, <4>1
      <4>3. CASE j < stack[i].next
        <5>1. succ[stack[i].node][j] \in visited
          BY <1>2, <1>7, <3>1, <4>1, <4>3 DEF PassedVisited
        <5> QED BY <4>1, <5>1
      <4>4. CASE i = L /\ j = Top.next
        BY <1>2, <1>3, <4>1, <4>4
      <4> QED BY <4>2, <4>3, <4>4
    <3>2. CASE i = L + 1
      <4>1. stack'[i].node = s /\ stack'[i].next = 1
        BY <1>4, <3>2
      <4>2. succ[s] \in Seq(Nodes)
        BY <1>3 DEF TypeInv
      <4>3. j \in Nat \ {0}
        BY <2>1, <4>1, <4>2
      <4> QED BY <2>1, <4>1, <4>3
    <3> QED BY <1>4, <3>1, <3>2
  <2> QED BY <1>4, <2>1 DEF PassedVisited
<1>8. ASSUME NEW x, NEW h, Unpassed(x, h), ~ (x = Top.node /\ h = s) PROVE Unpassed(x, h)'
  <2>1. PICK i \in 1 .. L : stack[i].node = x /\ ~ BranchPassed(x, h, stack[i].next)
    BY <1>2, <1>8 DEF Unpassed
  <2>2. ~ \E j \in DOMAIN succ'[x] : j < stack'[i].next /\ succ'[x][j] = h
    <3> SUFFICES ASSUME NEW j \in DOMAIN succ[x], j < stack'[i].next, succ[x][j] = h PROVE FALSE
      OBVIOUS
    <3>1. j < stack[i].next \/ (i = L /\ j = Top.next)
      BY <1>6, <2>1
    <3>2. CASE j < stack[i].next
      BY <2>1, <3>2 DEF BranchPassed
    <3>3. CASE i = L /\ j = Top.next
      BY <1>2, <1>3, <1>8, <2>1, <3>3
    <3> QED BY <3>1, <3>2, <3>3
  <2>3. i \in 1 .. M /\ stack'[i].node = x
    BY <1>4, <1>5, <2>1
  <2> QED BY <1>4, <2>2, <2>3 DEF Unpassed, BranchPassed
<1>9. ASSUME stack' = Append(Advance, Frame(s)), NEW h PROVE Unpassed(s, h)'
  <2>1. M = L + 1 /\ M \in 1 .. M /\ stack'[M].node = s /\ stack'[M].next = 1
    BY <1>4, <1>9
  <2>2. succ'[s] \in Seq(Nodes)
    BY <1>3 DEF TypeInv
  <2>3. \A j \in DOMAIN succ'[s] : ~ (j < 1)
    BY <2>2
  <2>4. ~ \E j \in DOMAIN succ'[s] : j < stack'[M].next /\ succ'[s][j] = h
    BY <2>1, <2>3
  <2>5. M \in DOMAIN stack'
    BY <1>4, <2>1
  <2> QED BY <2>1, <2>4, <2>5 DEF Unpassed, BranchPassed
<1> QED BY <1>7, <1>8, <1>9

\* The call that returns has passed all its branches; those of the others are
\* what they were.
LEMMA PopBranch ==
  ASSUME TypeInv, Returns, visited \subseteq visited', stack' = Pop,
         \A i, j \in DOMAIN stack : stack[i].node = stack[j].node => i = j,
         \A x \in Traversing \ {Top.node} : succ'[x] = succ[x]
  PROVE  /\ PassedVisited => PassedVisited'
         /\ \A x, h : Unpassed(x, h) => Unpassed(x, h)' \/ x = Top.node
         /\ \A h \in Elements(succ[Top.node]) : ~ Unpassed(Top.node, h)
<1>1. stack # << >> /\ Top.next > Len(succ[Top.node])
  BY DEF Returns
<1> PICK L \in Nat \ {0} : L = Len(stack)
  BY <1>1, CallFacts
<1>2. /\ DOMAIN stack = 1 .. L /\ stack[L] = Top /\ L \in 1 .. L
      /\ \A i \in 1 .. L : stack[i].next \in Nat /\ succ[stack[i].node] \in Seq(Nodes) /\ stack[i].node \in Traversing
  BY <1>1, CallFacts
<1>3. /\ DOMAIN stack' = 1 .. L - 1 
      /\ \A i \in 1 .. L - 1 : i \in 1 .. L /\ stack'[i] = stack[i]
  BY <1>1, PoppedCalls
<1>4. \A i \in 1 .. L - 1 : stack[i].node # Top.node /\ succ'[stack[i].node] = succ[stack[i].node]
  <2>1. \A i \in 1 .. L - 1 : i \in 1 .. L /\ i # L
    OBVIOUS
  <2> QED BY <1>2, <2>1
<1>5. PassedVisited => PassedVisited'
  BY <1>2, <1>3, <1>4 DEF PassedVisited
<1>6. ASSUME NEW x, NEW h, Unpassed(x, h), x # Top.node PROVE Unpassed(x, h)'
  <2>1. PICK i \in 1 .. L : stack[i].node = x /\ ~ BranchPassed(x, h, stack[i].next)
    BY <1>2, <1>6 DEF Unpassed
  <2>2. i \in 1 .. L - 1
    BY <1>2, <1>6, <2>1
  <2>3. ~ \E j \in DOMAIN succ'[x] : j < stack'[i].next /\ succ'[x][j] = h
    BY <1>3, <1>4, <2>1, <2>2 DEF BranchPassed
  <2>4. stack'[i].node = x
    BY <1>3, <2>1, <2>2
  <2> QED BY <1>3, <2>2, <2>3, <2>4 DEF Unpassed, BranchPassed
<1>7. ASSUME NEW h \in Elements(succ[Top.node]), Unpassed(Top.node, h) PROVE FALSE
  <2>1. PICK i \in 1 .. L : stack[i].node = Top.node /\ ~ BranchPassed(Top.node, h, stack[i].next)
    BY <1>2, <1>7 DEF Unpassed
  <2>2. stack[i] = Top
    BY <1>2, <2>1
  <2>3. PICK j \in DOMAIN succ[Top.node] : succ[Top.node][j] = h
    BY <1>7 DEF Elements
  <2>4. j < Top.next
    <3>1. succ[Top.node] \in Seq(Nodes) /\ Top.next \in Nat
      BY <1>2
    <3> QED BY <1>1, <3>1
  <2> QED BY <2>1, <2>2, <2>3, <2>4 DEF BranchPassed
<1> QED BY <1>5, <1>6, <1>7

\* The call of the analysis that looks at its successors.
LEMMA AnalysisFacts ==
  ASSUME VisitInv, EdgesInv, phase = "analysis", NEW r, NEW c, AnalysisRec(r, c), stack # << >>
  PROVE  /\ TypeInv /\ GraphInv /\ LatchInv
         /\ Top.node \in Blocks /\ Top.node \in Nodes /\ Top.node \in Traversing
         /\ c \in r.moments /\ c.node = Top.node /\ c.node # Null /\ c.seen = visited
         /\ r.above[Top.node] = Traversing
         /\ visited \subseteq Blocks /\ Traversing \subseteq visited
         /\ Blocks \subseteq Nodes /\ Null \notin Nodes /\ Null \notin Blocks
         /\ \A i \in DOMAIN stack : stack[i].node \in Blocks
<1>1. TypeInv /\ GraphInv /\ ListsInv /\ LatchInv
  BY DEF VisitInv, EdgesInv
<1>2. Blocks \subseteq Nodes /\ Null \notin Nodes
  BY <1>1, BlocksAreNodes DEF TypeInv, ListsInv
<1>3. visited \subseteq Blocks /\ Traversing \subseteq visited
  BY <1>1 DEF LatchInv
<1>4. /\ DOMAIN stack = 1 .. Len(stack) /\ Len(stack) \in DOMAIN stack /\ stack[Len(stack)] = Top
      /\ \A i \in DOMAIN stack : stack[i].node \in Traversing /\ stack[i].node \in Nodes
  BY <1>1, CallFacts
<1>5. Top.node \in Traversing /\ Top.node \in Blocks
  BY <1>3, <1>4
<1>6. c \in r.moments /\ c.node = Top.node /\ c.seen = visited
  BY <1>3, <1>5 DEF AnalysisRec, Now, Current
<1>7. r.above[Top.node] = Traversing
  <2>1. r.above[stack[Len(stack)].node] = {stack[k].node : k \in 1 .. Len(stack)}
    BY <1>4, <1>5 DEF AnalysisRec, Paths
  <2> QED BY <1>4, <2>1 DEF Traversing
<1> QED BY <1>1, <1>2, <1>3, <1>4, <1>5, <1>6, <1>7

\* The analysis passes a branch.
LEMMA VisitSuccAnalysis ==
  ASSUME VisitInv, EdgesInv, phase = "analysis", NEW r, NEW c, AnalysisRec(r, c), VisitSucc
  PROVE  \E r2, c2 : AnalysisRec(r2, c2)'
<1>1. /\ UNCHANGED <<num_nodes, succ, succ_back_edge, fake_pred>> /\ MoreSucc /\ stack # << >>
      /\ NextSucc \notin Traversing
  BY DEF VisitSucc, graphVars, backEdgeVars, MoreSucc
<1>2. PICK n, s : n = Top.node /\ s = NextSucc
  OBVIOUS
<1>3. /\ TypeInv /\ GraphInv /\ LatchInv
      /\ n \in Blocks /\ n \in Nodes /\ n \in Traversing
      /\ c \in r.moments /\ c.node = n /\ c.node # Null /\ c.seen = visited
      /\ r.above[n] = Traversing
      /\ visited \subseteq Blocks /\ Traversing \subseteq visited
      /\ Blocks \subseteq Nodes /\ Null \notin Nodes /\ Null \notin Blocks
      /\ \A i \in DOMAIN stack : stack[i].node \in Blocks
  BY <1>1, <1>2, AnalysisFacts
<1>4. Nodes' = Nodes /\ \A a, b : Branch(a, b)' <=> Branch(a, b)
  BY <1>1 DEF Nodes, Branch, Elements
<1>5. /\ Recorded(r, Blocks, succ, visited, {c}) /\ Now(r, Blocks, c) /\ Paths(r, Blocks) /\ PassedVisited
      /\ MergedAbove(r, visited) /\ LatchesAbove(r) /\ LoopsNoted(r) /\ MergesReturned
      /\ OneLatch(r, visited, visited \ Traversing)
  BY DEF AnalysisRec
<1>6. s \in Blocks /\ s \in Elements(succ[n])
  <2>1. Top.next \in Nat \ {0} /\ Top.next <= Len(succ[n]) /\ succ[n] \in Seq(Nodes)
    BY <1>1, <1>2, <1>3, CallFacts DEF MoreSucc, TypeInv
  <2>2. s \in Elements(succ[n])
    BY <1>2, <2>1 DEF NextSucc, Elements
  <2> QED BY <1>3, <2>2 DEF LatchInv
<1>7. \A h : \A x \in Elements(fake_pred[h])' : x \in Elements(fake_pred[h])
  BY <1>1 DEF Elements
<1>e. \A h : Elements(fake_pred[h])' = Elements(fake_pred[h])
  BY <1>1 DEF Elements
<1>8. CASE s \in visited
  <2>1. stack' = Advance /\ visited' = visited
    BY <1>2, <1>8 DEF VisitSucc
  <2>2. Traversing' = Traversing /\ stack' # << >>
    BY <1>1, <1>3, <2>1, AdvancedCalls
  <2>3. Paths(r, Blocks)' /\ Now(r, Blocks, c)'
    BY <1>1, <1>3, <1>5, <2>1, AdvanceKeeps DEF Now
  <2>4. PassedVisited' /\ \A x, h : Unpassed(x, h) => Unpassed(x, h)' \/ (x = Top.node /\ h = s)
    BY <1>1, <1>2, <1>3, <1>5, <1>8, <2>1, PassBranch
  <2>5. MergedAbove(r, visited)'
    BY <1>4, <1>5, <2>1 DEF MergedAbove
  <2>6. LatchesAbove(r)'
    BY <1>4, <1>5, <1>e, <2>1 DEF LatchesAbove
  <2>7. LoopsNoted(r)'
    <3>1. ASSUME NEW h \in Traversing, NEW x \in Nodes, Loops(r, x, h)'
          PROVE  x \in Elements(fake_pred[h])' \/ Unpassed(x, h)'
      <4>1. Loops(r, x, h)
        BY <1>4, <2>1, <3>1 DEF Loops
      <4> QED BY <1>1, <1>2, <1>5, <1>e, <2>4, <4>1 DEF LoopsNoted
    <3> QED BY <1>4, <2>2, <3>1 DEF LoopsNoted
  <2>8. MergesReturned'
    BY <1>4, <1>5, <2>1, <2>2 DEF MergesReturned
  <2>9. OneLatch(r, visited, visited \ Traversing)'
    BY <1>4, <1>5, <2>1, <2>2 DEF OneLatch, Latch
  <2>10. Recorded(r, Blocks, succ, visited, {c})'
    BY <1>1, <1>5, <2>1
  <2> QED BY <2>3, <2>4, <2>5, <2>6, <2>7, <2>8, <2>9, <2>10 DEF AnalysisRec
<1>9. CASE s \notin visited
  <2>1. stack' = Append(Advance, Frame(s)) /\ visited' = visited \cup {s}
    BY <1>2, <1>9 DEF VisitSucc
  <2>2. PICK c2 : c2 = Enters(c, s)
    OBVIOUS
  <2>3. c2.node = s /\ c2.seen = visited' /\ s \in Nodes
    BY <1>3, <1>6, <2>1, <2>2 DEF Enters
  <2>4. PICK r2 : /\ Recorded(r2, Blocks, succ, visited \cup {s}, {c2}) /\ c2 \in r2.moments
                  /\ r2.up[s] = n /\ r2.above[s] = r.above[n] \cup {s}
                  /\ \A x \in visited : r2.up[x] = r.up[x] /\ r2.above[x] = r.above[x]
    <3>1. /\ \A a : Precedes(succ[n], a, s) => a \in visited
          /\ \A a \in Elements(succ[n]) : a = s \/ Precedes(succ[n], a, s) \/ Precedes(succ[n], s, a)
      BY <1>1, <1>2, <1>3, <1>5, <1>9, FirstUnvisited
    <3>2. s \in (Elements(succ[c.node]) \cap Blocks) \ c.seen
      BY <1>3, <1>6, <1>9
    <3>3. \A a \in Blocks : Precedes(succ[c.node], a, s) => a \in c.seen
      BY <1>3, <3>1
    <3>4. \A a \in Elements(succ[c.node]) : a = s \/ Precedes(succ[c.node], a, s) \/ Precedes(succ[c.node], s, a)
      BY <1>3, <3>1
    <3>5. EntersIn(r, Blocks, succ, visited, visited \cup {s}, {c2}, c, s)
      BY <1>3, <1>5, <2>2, <3>2, <3>3, <3>4, EnterRecord
    <3> QED BY <1>3, <2>2, <3>5 DEF EntersIn
  <2>5. Recorded(r2, Blocks, succ, visited, {c2})'
    BY <1>1, <2>1, <2>4
  <2>6. Traversing' = Traversing \cup {s}
    BY <1>1, <1>3, <2>1, <2>3, EnteredCalls
  <2>7. Paths(r2, Blocks)' /\ Current(Blocks)' = s
    BY <1>1, <1>2, <1>3, <1>5, <1>6, <2>1, <2>3, <2>4, EnterPaths
  <2>8. Now(r2, Blocks, c2)'
    BY <1>3, <1>6, <2>1, <2>3, <2>4, <2>7 DEF Now
  <2>9. /\ PassedVisited' /\ \A x, h : Unpassed(x, h) => Unpassed(x, h)' \/ (x = n /\ h = s)
        /\ \A h : Unpassed(s, h)'
    <3>1. visited \subseteq visited' /\ s \in visited'
      BY <2>1
    <3> QED BY <1>1, <1>2, <1>3, <1>5, <2>1, <3>1, PassBranch
  <2>10. MergedAbove(r2, visited)'
    <3>1. ASSUME NEW l \in visited', NEW m \in Nodes \ Blocks, NEW h \in Nodes, Branch(l, m), Branch(m, h)
          PROVE  h \in r2.above[l]
      <4>1. CASE l = s
        <5>1. Elements(succ[s]) \subseteq Blocks /\ succ_back_edge[s] = Null
          BY <1>3, <1>6, <1>9, <2>3 DEF LatchInv, GraphInv
        <5> QED BY <1>3, <3>1, <4>1, <5>1 DEF Branch
      <4>2. CASE l \in visited
        BY <1>5, <2>4, <3>1, <4>2 DEF MergedAbove
      <4> QED BY <2>1, <4>1, <4>2
    <3> QED BY <1>4, <3>1 DEF MergedAbove
  <2>11. LatchesAbove(r2)'
    BY <1>4, <1>5, <1>e, <2>1, <2>4 DEF LatchesAbove
  <2>12. LoopsNoted(r2)'
    <3>1. ASSUME NEW h \in Traversing', NEW x \in Nodes, Loops(r2, x, h)', ~ Unpassed(x, h)'
          PROVE  x \in Elements(fake_pred[h])
      <4>1. x \in visited /\ h \in r.above[x] /\ Branch(x, h)
        BY <1>4, <2>1, <2>4, <2>9, <3>1 DEF Loops
      <4>2. h \in visited
        BY <1>5, <4>1 DEF Recorded
      <4>3. h \in Traversing /\ ~ (x = n /\ h = s)
        BY <1>9, <2>6, <3>1, <4>2
      <4> QED BY <1>5, <2>9, <3>1, <4>1, <4>3 DEF LoopsNoted, Loops
    <3> QED BY <1>4, <1>e, <3>1 DEF LoopsNoted
  <2>13. visited' \ Traversing' = visited \ Traversing
    BY <1>9, <2>1, <2>6
  <2>14. MergesReturned'
    BY <1>4, <1>5, <2>13 DEF MergesReturned
  <2>15. OneLatch(r2, visited, visited \ Traversing)'
    <3>1. ASSUME NEW h \in visited \ Traversing, NEW x \in Nodes, Latch(r2, visited, x, h)'
          PROVE  Latch(r, visited, x, h)
      <4>1. CASE x = s
        <5>1. h \in r.above[n] \cup {s}
          BY <1>6, <2>4, <3>1, <4>1 DEF Latch
        <5> QED BY <1>3, <1>9, <5>1
      <4>2. CASE x # s
        BY <1>4, <2>1, <2>4, <3>1, <4>2 DEF Latch
      <4> QED BY <4>1, <4>2
    <3> QED BY <1>4, <1>5, <2>13, <3>1 DEF OneLatch
  <2> QED BY <2>5, <2>7, <2>8, <2>9, <2>10, <2>11, <2>12, <2>14, <2>15 DEF AnalysisRec
<1> QED BY <1>8, <1>9

\* The analysis notes a back edge.
LEMMA RecordBackEdgeAnalysis ==
  ASSUME VisitInv, EdgesInv, NEW r, NEW c, AnalysisRec(r, c), RecordBackEdge
  PROVE  AnalysisRec(r, c)'
<1>1. /\ UNCHANGED <<num_nodes, succ, succ_back_edge, visited>> /\ MoreSucc /\ stack # << >>
      /\ NextSucc \in Traversing /\ phase = "analysis" /\ stack' = Advance
  BY DEF RecordBackEdge, graphVars, backEdgeVars, MoreSucc
<1>2. PICK n, s : n = Top.node /\ s = NextSucc
  OBVIOUS
<1>3. /\ TypeInv /\ GraphInv /\ LatchInv
      /\ n \in Blocks /\ n \in Nodes /\ n \in Traversing
      /\ c \in r.moments /\ c.node = n /\ c.node # Null /\ c.seen = visited
      /\ r.above[n] = Traversing
      /\ visited \subseteq Blocks /\ Traversing \subseteq visited
      /\ Blocks \subseteq Nodes /\ Null \notin Nodes /\ Null \notin Blocks
      /\ \A i \in DOMAIN stack : stack[i].node \in Blocks
  BY <1>1, <1>2, AnalysisFacts
<1>4. Nodes' = Nodes /\ \A a, b : Branch(a, b)' <=> Branch(a, b)
  BY <1>1 DEF Nodes, Branch, Elements
<1>5. /\ Recorded(r, Blocks, succ, visited, {c}) /\ Now(r, Blocks, c) /\ Paths(r, Blocks) /\ PassedVisited
      /\ MergedAbove(r, visited) /\ LatchesAbove(r) /\ LoopsNoted(r) /\ MergesReturned
      /\ OneLatch(r, visited, visited \ Traversing)
  BY DEF AnalysisRec
<1>6. s \in visited /\ s \in Traversing /\ s \in Nodes
  BY <1>1, <1>2, <1>3
<1>7. \A h \in Nodes : Elements(fake_pred'[h]) = IF h = s THEN Elements(fake_pred[h]) \cup {n} ELSE Elements(fake_pred[h])
  <2>1. fake_pred' = [fake_pred EXCEPT ![s] = Append(@, n)] /\ fake_pred \in [Nodes -> Seq(Nodes)]
    BY <1>2, <1>3 DEF RecordBackEdge, VisitInv, EdgesInv, ListsInv
  <2>2. fake_pred'[s] = Append(fake_pred[s], n) /\ \A h \in Nodes : h # s => fake_pred'[h] = fake_pred[h]
    BY <1>6, <2>1
  <2>3. Elements(Append(fake_pred[s], n)) = Elements(fake_pred[s]) \cup {n}
    BY <1>3, <1>6, <2>1, AppendFacts
  <2> QED BY <2>2, <2>3
<1>8. Traversing' = Traversing
  BY <1>1, <1>3, AdvancedCalls
<1>9. Paths(r, Blocks)' /\ Now(r, Blocks, c)'
  BY <1>1, <1>3, <1>5, AdvanceKeeps DEF Now
<1>10. PassedVisited' /\ \A x, h : Unpassed(x, h) => Unpassed(x, h)' \/ (x = Top.node /\ h = s)
  BY <1>1, <1>2, <1>3, <1>5, <1>6, PassBranch
<1>11. MergedAbove(r, visited)'
  BY <1>1, <1>4, <1>5 DEF MergedAbove
<1>12. LatchesAbove(r)'
  <2>1. ASSUME NEW h \in Nodes, NEW x \in Elements(fake_pred'[h]) PROVE x \in visited /\ h \in r.above[x]
    <3>1. CASE x \in Elements(fake_pred[h])
      BY <1>5, <3>1 DEF LatchesAbove
    <3>2. CASE x = n /\ h = s
      BY <1>3, <1>6, <3>2
    <3> QED BY <1>7, <2>1, <3>1, <3>2
  <2>2. \A h : Elements(fake_pred[h])' = Elements(fake_pred'[h])
    BY DEF Elements
  <2> QED BY <1>1, <1>4, <2>1, <2>2 DEF LatchesAbove
<1>13. LoopsNoted(r)'
  <2>1. ASSUME NEW h \in Traversing, NEW x \in Nodes, Loops(r, x, h)'
        PROVE  x \in Elements(fake_pred[h])' \/ Unpassed(x, h)'
    <3>1. Loops(r, x, h)
      BY <1>1, <1>4, <2>1 DEF Loops
    <3>2. Elements(fake_pred[h])' = Elements(fake_pred'[h]) /\ h \in Nodes
      BY <1>3 DEF Elements
    <3>3. x \in Elements(fake_pred[h]) \/ Unpassed(x, h)
      BY <1>5, <3>1 DEF LoopsNoted
    <3> QED BY <1>2, <1>7, <1>10, <3>2, <3>3
  <2> QED BY <1>4, <1>8, <2>1 DEF LoopsNoted
<1>14. MergesReturned'
  BY <1>1, <1>4, <1>5, <1>8 DEF MergesReturned
<1>15. OneLatch(r, visited, visited \ Traversing)'
  BY <1>1, <1>4, <1>5, <1>8 DEF OneLatch, Latch
<1>16. Recorded(r, Blocks, succ, visited, {c})'
  BY <1>1, <1>5
<1> QED BY <1>9, <1>10, <1>11, <1>12, <1>13, <1>14, <1>15, <1>16 DEF AnalysisRec

\* When the call of a header returns, the analysis has noted all that branches
\* back to it.
LEMMA HeaderLatches ==
  ASSUME VisitInv, EdgesInv, phase = "analysis", Returns, NEW r, NEW c, AnalysisRec(r, c),
         NEW x \in Nodes, Latch(r, visited, x, Top.node)
  PROVE  x \in Elements(fake_pred[Top.node])
<1>1. stack # << >>
  BY DEF Returns
<1>2. PICK n : n = Top.node
  OBVIOUS
<1>3. /\ TypeInv /\ GraphInv /\ LatchInv
      /\ n \in Blocks /\ n \in Nodes /\ n \in Traversing
      /\ visited \subseteq Blocks /\ Traversing \subseteq visited
      /\ Blocks \subseteq Nodes /\ Null \notin Nodes
      /\ \A i \in DOMAIN stack : stack[i].node \in Blocks
  BY <1>1, <1>2, AnalysisFacts
<1>4. Paths(r, Blocks) /\ LoopsNoted(r) /\ MergesReturned
  BY DEF AnalysisRec
<1>5. x \in Blocks
  BY <1>2, <1>3, <1>4 DEF Latch, MergesReturned
<1>6. Loops(r, x, n)
  BY <1>2, <1>5 DEF Latch, Loops
<1>7. ASSUME Unpassed(x, n) PROVE FALSE
  <2> PICK L \in Nat \ {0} : L = Len(stack)
    BY <1>1, <1>3, CallFacts
  <2>1. DOMAIN stack = 1 .. L /\ stack[L].node = n /\ L \in 1 .. L
    BY <1>1, <1>2, <1>3, CallFacts
  <2>2. PICK i \in 1 .. L : stack[i].node = x /\ ~ BranchPassed(x, n, stack[i].next)
    BY <1>7, <2>1 DEF Unpassed
  <2>3. n \in {stack[k].node : k \in 1 .. i}
    BY <1>2, <1>3, <1>4, <1>5, <1>6, <2>1, <2>2 DEF Paths, Loops
  <2>4. PICK k \in 1 .. i : stack[k].node = n
    BY <2>3
  <2>5. k \in 1 .. L
    OBVIOUS
  <2>6. k = L
    BY <1>3, <2>1, <2>4, <2>5 DEF LatchInv
  <2>7. i = L /\ x = n
    BY <2>1, <2>2, <2>6
  <2>8. n \in Elements(succ[n])
    BY <1>3, <1>6, <2>7 DEF Loops, Branch, GraphInv
  <2>9. ~ Unpassed(Top.node, n)
    <3>1. PICK j \in DOMAIN succ[n] : succ[n][j] = n
      BY <2>8 DEF Elements
    <3>2. j < Top.next
      <4>1. succ[n] \in Seq(Nodes) /\ Top.next \in Nat /\ Top.next > Len(succ[n])
        BY <1>1, <1>2, <1>3, CallFacts DEF Returns
      <4> QED BY <3>1, <4>1
    <3>3. stack[i].next = Top.next
      BY <2>7 DEF Top
    <3> QED BY <2>2, <2>7, <3>1, <3>2, <3>3 DEF BranchPassed
  <2> QED BY <1>2, <1>7, <2>7, <2>9
<1> QED BY <1>2, <1>3, <1>4, <1>6, <1>7 DEF LoopsNoted

\* A call of the analysis returns.
LEMMA ReturnFromAnalysisRecord ==
  ASSUME VisitInv, EdgesInv, NEW r, NEW c, AnalysisRec(r, c), ReturnFromAnalysis
  PROVE  \E r2, c2 : AnalysisRec(r2, c2)'
<1>1. /\ UNCHANGED visited /\ Returns /\ stack # << >> /\ phase = "analysis" /\ stack' = Pop
  BY DEF ReturnFromAnalysis, Returns
<1>2. PICK n, new, latches : n = Top.node /\ new = num_nodes + 1 /\ latches = Elements(fake_pred[n])
  OBVIOUS
<1>3. /\ TypeInv /\ GraphInv /\ LatchInv
      /\ n \in Blocks /\ n \in Nodes /\ n \in Traversing
      /\ c \in r.moments /\ c.node = n /\ c.node # Null /\ c.seen = visited
      /\ visited \subseteq Blocks /\ Traversing \subseteq visited
      /\ Blocks \subseteq Nodes /\ Null \notin Nodes
      /\ \A i \in DOMAIN stack : stack[i].node \in Blocks
  BY <1>1, <1>2, AnalysisFacts
<1>4. /\ Recorded(r, Blocks, succ, visited, {c}) /\ Now(r, Blocks, c) /\ Paths(r, Blocks) /\ PassedVisited
      /\ MergedAbove(r, visited) /\ LatchesAbove(r) /\ LoopsNoted(r) /\ MergesReturned
      /\ OneLatch(r, visited, visited \ Traversing)
  BY DEF AnalysisRec
<1>5. Elements(succ[n]) \subseteq visited
  BY <1>1, <1>2, <1>3, <1>4, AllVisited
<1>6. PICK c2 : c2 = Leaves(c, r.up[n])
  OBVIOUS
<1>7. PICK r2 : Recorded(r2, Blocks, succ, visited, {c2}) /\ c2 \in r2.moments /\ r2.up = r.up /\ r2.above = r.above
  <2>1. Elements(succ[c.node]) \cap Blocks \subseteq c.seen
    BY <1>3, <1>5
  <2>2. LeavesIn(r, Blocks, succ, visited, {c2}, c)
    BY <1>3, <1>4, <1>6, <2>1, LeaveRecord
  <2> QED BY <1>3, <1>6, <2>2 DEF LeavesIn
<1>8. Paths(r2, Blocks)' /\ Now(r2, Blocks, c2)'
  <2>1. Paths(r2, Blocks)' /\ Current(Blocks)' = r.up[n]
    BY <1>1, <1>2, <1>3, <1>4, <1>7, LeavePaths
  <2>2. c2.node = r.up[n] /\ c2.seen = visited
    BY <1>3, <1>6 DEF Leaves
  <2> QED BY <1>1, <1>3, <1>7, <2>1, <2>2 DEF Now
<1>9. \A i \in 1 .. Len(stack) - 1 : stack[i].node # n /\ \A l \in latches : stack[i].node # l
  BY <1>1, <1>2, <1>3, LastCall
<1>10. Traversing' = Traversing \ {n}
  <2>1. \A x \in Traversing' : x # n
    <3>1. DOMAIN stack' = 1 .. Len(stack) - 1 /\ \A i \in 1 .. Len(stack) - 1 : stack'[i] = stack[i]
      BY <1>1, <1>3, PoppedCalls
    <3> QED BY <1>9, <3>1 DEF Traversing
  <2> QED BY <1>1, <1>2, <1>3, <2>1, PoppedCalls
<1>11. \A x \in Traversing \ {n} : x \notin latches
  <2>1. \A x \in Traversing' : x \notin latches
    <3>1. DOMAIN stack' = 1 .. Len(stack) - 1 /\ \A i \in 1 .. Len(stack) - 1 : stack'[i] = stack[i]
      BY <1>1, <1>3, PoppedCalls
    <3> QED BY <1>9, <3>1 DEF Traversing
  <2> QED BY <1>10, <2>1
<1>12. \A x, h \in Nodes : Branch(x, h) => h \in Elements(succ[x])
  BY <1>1, <1>3 DEF Branch, GraphInv
<1>13. \A x \in Nodes : Latch(r, visited, x, n) => x \in latches
  BY <1>1, <1>2, HeaderLatches
<1>14. latches \subseteq visited /\ \A l \in latches : n \in r.above[l]
  BY <1>2, <1>3, <1>4 DEF LatchesAbove
<1>15. CASE ~ NeedsMerge(n)
  <2>1. UNCHANGED <<num_nodes, succ, succ_back_edge, fake_pred>>
    BY <1>2, <1>15 DEF ReturnFromAnalysis, graphVars, backEdgeVars
  <2>2. Nodes' = Nodes /\ (\A a, b : Branch(a, b)' <=> Branch(a, b)) /\ \A h : Elements(fake_pred[h])' = Elements(fake_pred[h])
    BY <2>1 DEF Nodes, Branch, Elements
  <2>3. /\ PassedVisited'
        /\ \A x, h : Unpassed(x, h) => Unpassed(x, h)' \/ x = n
        /\ \A h \in Elements(succ[n]) : ~ Unpassed(n, h)
    BY <1>1, <1>2, <1>3, <1>4, <2>1, PopBranch DEF LatchInv
  <2>4. MergedAbove(r2, visited)'
    BY <1>1, <1>4, <1>7, <2>2 DEF MergedAbove
  <2>5. LatchesAbove(r2)'
    BY <1>1, <1>4, <1>7, <2>2 DEF LatchesAbove
  <2>6. LoopsNoted(r2)'
    <3>1. ASSUME NEW h \in Traversing', NEW x \in Nodes, Loops(r2, x, h)'
          PROVE  x \in Elements(fake_pred[h]) \/ Unpassed(x, h)'
      <4>1. Loops(r, x, h) /\ h \in Traversing /\ h \in Nodes
        BY <1>1, <1>3, <1>7, <1>10, <2>2, <3>1 DEF Loops
      <4>2. x \in Elements(fake_pred[h]) \/ Unpassed(x, h)
        BY <1>4, <4>1 DEF LoopsNoted
      <4>3. h \in Elements(succ[x])
        BY <1>12, <4>1 DEF Loops
      <4> QED BY <2>3, <4>2, <4>3
    <3> QED BY <2>2, <3>1 DEF LoopsNoted
  <2>7. MergesReturned'
    BY <1>1, <1>4, <1>10, <2>2 DEF MergesReturned
  <2>8. \A x, y \in latches : x = y
    <3>1. fake_pred[n] \in Seq(Nodes)
      BY <1>3 DEF EdgesInv, ListsInv
    <3>2. Len(fake_pred[n]) < 2
      BY <1>15, <3>1 DEF NeedsMerge
    <3>3. \A i, j \in DOMAIN fake_pred[n] : i = j
      BY <3>1, <3>2
    <3> QED BY <1>2, <3>3 DEF Elements
  <2>9. OneLatch(r2, visited, visited \ Traversing)'
    <3>1. \A x, h : Latch(r2, visited, x, h)' <=> Latch(r, visited, x, h)
      BY <1>1, <1>7, <2>2 DEF Latch
    <3>2. (visited \ Traversing)' = (visited \ Traversing) \cup {n}
      BY <1>1, <1>3, <1>10
    <3> QED BY <1>4, <1>13, <2>2, <2>8, <3>1, <3>2 DEF OneLatch
  <2>10. Recorded(r2, Blocks, succ, visited, {c2})'
    BY <1>1, <1>7, <2>1
  <2> QED BY <1>8, <2>3, <2>4, <2>5, <2>6, <2>7, <2>9, <2>10 DEF AnalysisRec
<1>16. CASE NeedsMerge(n)
  <2>1. MergeBackEdges(n)
    BY <1>2, <1>16 DEF ReturnFromAnalysis
  <2>2. MergedGraph(n, new, latches)
    <3>1. NeedsMerge(Top.node) /\ MergeBackEdges(Top.node)
      BY <1>2, <1>16, <2>1
    <3> QED BY <1>1, <1>2, <3>1, MergeFacts, Zenon
  <2>3. /\ new \in Nodes' /\ new \notin Nodes /\ Nodes' = Nodes \cup {new}
        /\ fake_pred'[new] = << >> /\ \A m \in Nodes : fake_pred'[m] = fake_pred[m]
        /\ \A m \in Nodes \ latches : succ'[m] = succ[m]
    BY <2>2 DEF MergedGraph
  <2>4. \A a, b \in Nodes' :
           Branch(a, b)' <=> \/ a = new /\ b = n
                             \/ a \in latches /\ b = new
                             \/ a \in Nodes /\ b \in Nodes /\ Branch(a, b) /\ ~ (a \in latches /\ b = n)
    BY <1>1, <1>3, <2>2, MergedBranches
  <2>5. /\ PassedVisited'
        /\ \A x, h : Unpassed(x, h) => Unpassed(x, h)' \/ x = n
        /\ \A h \in Elements(succ[n]) : ~ Unpassed(n, h)
    <3>1. \A x \in Traversing \ {n} : succ'[x] = succ[x]
      BY <1>3, <1>11, <2>3
    <3> QED BY <1>1, <1>2, <1>3, <1>4, <3>1, PopBranch DEF LatchInv
  <2>6. Recorded(r2, Blocks, succ, visited, {c2})'
    <3>1. ASSUME NEW m \in visited PROVE KeepsOrder(succ[m], succ'[m], Blocks \ r2.above[m])
      <4>1. CASE m \in latches
        <5>1. succ'[m] = Replace(succ[m], n, new)
          <6>1. succ' = [k \in 1 .. new |->
                           IF k = new THEN <<n>>
                           ELSE IF k \in latches THEN Replace(succ[k], n, new) ELSE succ[k]]
            BY <1>2, <2>1 DEF MergeBackEdges
          <6>2. m \in 1 .. new /\ m # new
            BY <1>3, <2>2, <2>3, <3>1 DEF MergedGraph, Nodes
          <6> QED BY <4>1, <6>1, <6>2
        <5>2. succ[m] \in Seq(Nodes) /\ n \notin Blocks \ r2.above[m] /\ new \notin Blocks \ r2.above[m]
          BY <1>3, <1>7, <1>14, <2>3, <3>1, <4>1 DEF TypeInv
        <5> QED BY <5>1, <5>2, ReplaceKeeps
      <4>2. CASE m \notin latches
        BY <1>3, <2>3, <4>2 DEF KeepsOrder
      <4> QED BY <4>1, <4>2
    <3>2. Recorded(r2, Blocks, succ', visited, {c2})
      BY <1>7, <3>1, RecordKept
    <3> QED BY <1>1, <3>2
  <2>7. MergedAbove(r2, visited)'
    <3>1. ASSUME NEW l \in visited, NEW m \in Nodes' \ Blocks, NEW h \in Nodes', Branch(l, m)', Branch(m, h)'
          PROVE  h \in r2.above[l]
      <4>1. l \in Nodes /\ l # new
        BY <1>3, <2>3
      <4>2. CASE m = new
        <5>1. l \in latches
          BY <1>3, <2>3, <2>4, <3>1, <4>1, <4>2
        <5>2. h = n
          BY <1>3, <1>14, <2>3, <2>4, <3>1, <4>2
        <5> QED BY <1>7, <1>14, <5>1, <5>2
      <4>3. CASE m \in Nodes \ Blocks
        <5>1. m # new /\ m \notin latches
          BY <1>3, <1>14, <2>3, <4>3
        <5>2. Branch(l, m) /\ Branch(m, h) /\ h \in Nodes
          BY <2>3, <2>4, <3>1, <4>1, <4>3, <5>1
        <5> QED BY <1>4, <1>7, <4>3, <5>2 DEF MergedAbove
      <4> QED BY <2>3, <4>2, <4>3
    <3> QED BY <1>1, <3>1 DEF MergedAbove
  <2>8. LatchesAbove(r2)'
    <3>1. ASSUME NEW h \in Nodes', NEW x \in Elements(fake_pred'[h]) PROVE x \in visited /\ h \in r2.above[x]
      <4>1. h # new
        <5>1. Elements(<< >>) = {}
          BY DEF Elements
        <5> QED BY <2>3, <3>1, <5>1
      <4> QED BY <1>4, <1>7, <2>3, <3>1, <4>1 DEF LatchesAbove
    <3>2. \A h : Elements(fake_pred[h])' = Elements(fake_pred'[h])
      BY DEF Elements
    <3> QED BY <1>1, <3>1, <3>2 DEF LatchesAbove
  <2>9. LoopsNoted(r2)'
    <3>1. ASSUME NEW h \in Traversing', NEW x \in Nodes', Loops(r2, x, h)'
          PROVE  x \in Elements(fake_pred'[h]) \/ Unpassed(x, h)'
      <4>1. x \in visited /\ h \in r.above[x] /\ Branch(x, h)' /\ h \in Traversing /\ h # n
        BY <1>1, <1>7, <1>10, <3>1 DEF Loops
      <4>2. x \in Nodes /\ x # new /\ h \in Nodes /\ h # new
        BY <1>3, <2>3, <4>1
      <4>3. Branch(x, h)
        BY <2>3, <2>4, <4>1, <4>2
      <4>4. x \in Elements(fake_pred[h]) \/ Unpassed(x, h)
        BY <1>4, <4>1, <4>2, <4>3 DEF LoopsNoted, Loops
      <4>5. h \in Elements(succ[x])
        BY <1>12, <4>2, <4>3
      <4> QED BY <2>3, <2>5, <4>2, <4>4, <4>5
    <3>2. \A h : Elements(fake_pred[h])' = Elements(fake_pred'[h])
      BY DEF Elements
    <3> QED BY <3>1, <3>2 DEF LoopsNoted
  <2>10. MergesReturned'
    <3>1. ASSUME NEW m \in Nodes' \ Blocks, NEW h \in Nodes', Branch(m, h)' PROVE h \in visited /\ h \notin Traversing'
      <4>1. m \notin latches
        BY <1>3, <1>14
      <4>2. CASE m = new
        BY <1>3, <1>10, <2>3, <2>4, <3>1, <4>1, <4>2
      <4>3. CASE m # new
        <5>1. m \in Nodes /\ h \in Nodes /\ Branch(m, h)
          BY <2>3, <2>4, <3>1, <4>1, <4>3
        <5> QED BY <1>4, <1>10, <3>1, <5>1 DEF MergesReturned
      <4> QED BY <4>2, <4>3
    <3> QED BY <1>1, <3>1 DEF MergesReturned
  <2>11. OneLatch(r2, visited, visited \ Traversing)'
    <3>1. (visited \ Traversing)' = (visited \ Traversing) \cup {n}
      BY <1>1, <1>3, <1>10
    <3>2. ASSUME NEW x \in Nodes', Latch(r2, visited, x, n)' PROVE x = new
      <4>1. SUFFICES ASSUME x # new PROVE FALSE
        OBVIOUS
      <4>2. x \in Nodes /\ n \in Nodes' /\ Branch(x, n)' /\ (x \in Blocks => x \in visited /\ n \in r.above[x])
        BY <1>1, <1>3, <1>7, <2>3, <3>2, <4>1 DEF Latch
      <4>3. Branch(x, n) /\ x \notin latches
        BY <1>3, <2>3, <2>4, <4>1, <4>2
      <4>4. Latch(r, visited, x, n)
        BY <4>2, <4>3 DEF Latch
      <4> QED BY <1>13, <4>2, <4>3, <4>4
    <3>3. ASSUME NEW h \in visited, h # n, NEW x \in Nodes', Latch(r2, visited, x, h)'
          PROVE  x \in Nodes /\ Latch(r, visited, x, h)
      <4>1. h \in Nodes /\ h # new /\ h \in Nodes' /\ Branch(x, h)' /\ (x \in Blocks => x \in visited /\ h \in r.above[x])
        BY <1>1, <1>3, <1>7, <2>3, <3>3 DEF Latch
      <4>2. Branch(x, h) /\ x \in Nodes
        BY <2>4, <3>3, <4>1
      <4> QED BY <4>1, <4>2 DEF Latch
    <3>4. ASSUME NEW h \in (visited \ Traversing) \cup {n}, NEW x \in Nodes', NEW y \in Nodes',
                 Latch(r2, visited, x, h)', Latch(r2, visited, y, h)'
          PROVE  x = y
      <4>1. CASE h = n
        BY <3>2, <3>4, <4>1
      <4>2. CASE h # n
        <5>1. h \in visited \ Traversing
          BY <3>4, <4>2
        <5>2. x \in Nodes /\ y \in Nodes /\ Latch(r, visited, x, h) /\ Latch(r, visited, y, h)
          BY <3>3, <3>4, <4>2, <5>1
        <5> QED BY <1>4, <5>1, <5>2 DEF OneLatch
      <4> QED BY <4>1, <4>2
    <3> QED BY <3>1, <3>4 DEF OneLatch
  <2> QED BY <1>8, <2>5, <2>6, <2>7, <2>8, <2>9, <2>10, <2>11 DEF AnalysisRec
<1> QED BY <1>15, <1>16

\* The first call of a traversal.
LEMMA FirstCall ==
  ASSUME stack = <<Frame(entry_block)>>, visited = {entry_block}, succ[entry_block] \in Seq(Nodes),
         NEW X, entry_block \in X
  PROVE  /\ Current(X) = entry_block /\ PassedVisited
         /\ Traversing = {entry_block}
         /\ \A h : Unpassed(entry_block, h)
         /\ \A r : r.up[entry_block] = Null /\ r.above[entry_block] = {entry_block} => Paths(r, X)
<1>1. /\ Len(stack) = 1 /\ DOMAIN stack = {1} /\ stack[1].node = entry_block /\ stack[1].next = 1
      /\ stack # << >> /\ Top = stack[1]
  BY DEF Frame, Top
<1>2. \A j \in DOMAIN succ[entry_block] : ~ (j < 1)
  OBVIOUS
<1>3. Current(X) = entry_block
  BY <1>1 DEF Current
<1>4. PassedVisited
  BY <1>1, <1>2 DEF PassedVisited
<1>5. Traversing = {entry_block}
  BY <1>1 DEF Traversing
<1>6. \A h : Unpassed(entry_block, h)
  BY <1>1, <1>2 DEF Unpassed, BranchPassed
<1>7. ASSUME NEW r, r.up[entry_block] = Null, r.above[entry_block] = {entry_block} PROVE Paths(r, X)
  <2>1. {stack[k].node : k \in 1 .. 1} = {entry_block}
    BY <1>1
  <2> QED BY <1>1, <1>7, <2>1 DEF Paths
<1> QED BY <1>3, <1>4, <1>5, <1>6, <1>7

\* The same of the state that a step leads to.
LEMMA FirstCallNext ==
  ASSUME stack' = <<Frame(entry_block)>>, visited' = {entry_block}, succ'[entry_block] \in Seq(Nodes),
         NEW X, entry_block \in X
  PROVE  /\ Current(X)' = entry_block /\ PassedVisited'
         /\ Traversing' = {entry_block}
         /\ \A h : Unpassed(entry_block, h)'
         /\ \A r : r.up[entry_block] = Null /\ r.above[entry_block] = {entry_block} => Paths(r, X)'
<1>1. /\ Len(stack') = 1 /\ DOMAIN stack' = {1} /\ stack'[1].node = entry_block /\ stack'[1].next = 1
      /\ stack' # << >> /\ Top' = stack'[1]
  BY DEF Frame, Top
<1>2. \A j \in DOMAIN succ'[entry_block] : ~ (j < 1)
  OBVIOUS
<1>3. Current(X)' = entry_block
  BY <1>1 DEF Current
<1>4. PassedVisited'
  BY <1>1, <1>2 DEF PassedVisited
<1>5. Traversing' = {entry_block}
  BY <1>1 DEF Traversing
<1>6. \A h : Unpassed(entry_block, h)'
  BY <1>1, <1>2 DEF Unpassed, BranchPassed
<1>7. ASSUME NEW r, r.up[entry_block] = Null, r.above[entry_block] = {entry_block} PROVE Paths(r, X)'
  <2>1. {stack'[k].node : k \in 1 .. 1} = {entry_block}
    BY <1>1
  <2> QED BY <1>1, <1>7, <2>1 DEF Paths
<1> QED BY <1>3, <1>4, <1>5, <1>6, <1>7

\* The analysis starts its record.
LEMMA AnalysisStarts == CVInit => \E r, c : AnalysisRec(r, c)
<1> SUFFICES ASSUME CVInit PROVE \E r, c : AnalysisRec(r, c)
  OBVIOUS
<1>1. /\ stack = <<Frame(entry_block)>> /\ visited = {entry_block} /\ num_nodes = NumBlocks
      /\ succ_back_edge = [n \in Blocks |-> Null] /\ fake_pred = [n \in Blocks |-> << >>]
  BY DEF CVInit, FunctionInit
<1>2. VisitInv /\ EdgesInv
  BY InitInv, EdgesInit
<1>3. TypeInv /\ ListsInv
  BY <1>2 DEF VisitInv, EdgesInv
<1>4. Nodes = Blocks /\ entry_block \in Blocks /\ entry_block \in Nodes
  BY <1>1, <1>3, BlocksAreNodes DEF Nodes, Blocks, TypeInv, ListsInv
<1>5. succ[entry_block] \in Seq(Nodes)
  BY <1>3, <1>4 DEF TypeInv
<1>6. PICK r : /\ Recorded(r, Blocks, succ, {entry_block}, {Start}) /\ Start \in r.moments
               /\ r.up[entry_block] = Null /\ r.above[entry_block] = {entry_block}
  BY <1>4, StartRecord
<1>7. /\ Current(Blocks) = entry_block /\ PassedVisited /\ Paths(r, Blocks)
      /\ Traversing = {entry_block} /\ \A h : Unpassed(entry_block, h)
  BY <1>1, <1>4, <1>5, <1>6, FirstCall
<1>8. Now(r, Blocks, Start)
  BY <1>1, <1>4, <1>6, <1>7 DEF Now, Start
<1>9. MergedAbove(r, visited) /\ MergesReturned /\ OneLatch(r, visited, visited \ Traversing)
  BY <1>1, <1>4, <1>7 DEF MergedAbove, MergesReturned, OneLatch
<1>10. LatchesAbove(r)
  <2>1. \A h \in Nodes : Elements(fake_pred[h]) = {}
    BY <1>1, <1>4 DEF Elements
  <2> QED BY <2>1 DEF LatchesAbove
<1>11. LoopsNoted(r)
  BY <1>1, <1>7 DEF LoopsNoted, Loops
<1> QED BY <1>1, <1>6, <1>7, <1>8, <1>9, <1>10, <1>11 DEF AnalysisRec

\* recompute_cfg starts a traversal of the same branches.
LEMMA RecomputeFacts ==
  ASSUME VisitInv, EdgesInv, Recompute
  PROVE  /\ TypeInv /\ TypeInv' /\ ListsInv /\ GraphInv
         /\ Nodes' = Nodes /\ Blocks \subseteq Nodes /\ Null \notin Nodes /\ Null \notin Blocks
         /\ entry_block \in Nodes /\ entry_block \in Blocks
         /\ visited' = {entry_block} /\ stack' = <<Frame(entry_block)>>
         /\ \A n \in Nodes : succ'[n] = PushUnlessNull(succ[n], succ_back_edge[n])
         /\ \A n, h \in Nodes : Branch(n, h)' <=> Branch(n, h)
         /\ \A n \in Nodes : succ_back_edge'[n] = Null
<1>1. TypeInv /\ ListsInv /\ GraphInv
  BY DEF VisitInv, EdgesInv
<1>2. TypeInv'
  BY RecomputeInv DEF VisitInv
<1>3. /\ num_nodes' = num_nodes /\ visited' = {entry_block} /\ stack' = <<Frame(entry_block)>>
      /\ succ_back_edge' = [n \in Nodes |-> Null]
  BY DEF Recompute, Enter
<1>4. Nodes' = Nodes /\ Blocks \subseteq Nodes /\ Null \notin Nodes /\ entry_block \in Blocks
  BY <1>1, <1>3, BlocksAreNodes DEF TypeInv, ListsInv, Nodes
<1>5. \A n \in Nodes : /\ succ'[n] = PushUnlessNull(succ[n], succ_back_edge[n])
                       /\ \A x \in Nodes : x \in Elements(succ'[n]) <=> Branch(n, x)
  BY RestoreFacts
<1>6. \A n, h \in Nodes : Branch(n, h)' <=> Branch(n, h)
  BY <1>3, <1>4, <1>5 DEF Branch
<1> QED BY <1>1, <1>2, <1>3, <1>4, <1>5, <1>6

\* A visit starts to go by a complete record.
LEMMA RecomputeByRecord ==
  ASSUME VisitInv, EdgesInv, Recompute, NEW r, NEW D,
         Recorded(r, Blocks, succ, D, {}), MergedAbove(r, D), OneLatch(r, D, Nodes),
         \A n \in D : succ_back_edge[n] \in Blocks => succ_back_edge[n] \in r.above[n]
  PROVE  VisitRec(r, Start, D)'
<1>1. /\ TypeInv /\ TypeInv'
      /\ Nodes' = Nodes /\ Blocks \subseteq Nodes /\ Null \notin Nodes /\ Null \notin Blocks
      /\ entry_block \in Nodes /\ entry_block \in Blocks
      /\ visited' = {entry_block} /\ stack' = <<Frame(entry_block)>>
      /\ \A n \in Nodes : succ'[n] = PushUnlessNull(succ[n], succ_back_edge[n])
      /\ \A n, h \in Nodes : Branch(n, h)' <=> Branch(n, h)
      /\ \A n \in Nodes : succ_back_edge'[n] = Null
  BY RecomputeFacts
<1>2. D \subseteq Blocks /\ Start \in r.moments /\ r.up[entry_block] = Null /\ r.above[entry_block] = {entry_block}
  BY DEF Recorded
<1>3. Recorded(r, Blocks, succ', D, {})
  <2>1. ASSUME NEW n \in D PROVE KeepsOrder(succ[n], succ'[n], Blocks \ r.above[n])
    <3>1. n \in Nodes /\ succ[n] \in Seq(Nodes) /\ succ_back_edge[n] \in Nodes \cup {Null}
      BY <1>1, <1>2, <2>1 DEF TypeInv
    <3>2. succ_back_edge[n] \notin Blocks \ r.above[n]
      BY <2>1
    <3>3. KeepsOrder(succ[n], PushUnlessNull(succ[n], succ_back_edge[n]), Blocks \ r.above[n])
      BY <3>1, <3>2, PushKeeps
    <3> QED BY <1>1, <3>1, <3>3
  <2> QED BY <2>1, RecordKept
<1>4. /\ Current(Blocks)' = entry_block /\ PassedVisited' /\ Paths(r, Blocks)'
  <2>1. succ'[entry_block] \in Seq(Nodes)
    BY <1>1 DEF TypeInv
  <2> QED BY <1>1, <1>2, <2>1, FirstCallNext
<1>5. Now(r, Blocks, Start)'
  BY <1>1, <1>2, <1>4 DEF Now, Start
<1>6. MergedAbove(r, D)'
  BY <1>1, <1>2 DEF MergedAbove
<1>7. OneLatch(r, D, Nodes)'
  BY <1>1 DEF OneLatch, Latch
<1>8. BackEdgesLatch(r, D)'
  BY <1>1 DEF BackEdgesLatch
<1>9. MergesOnTop' /\ CallsBranch'
  <2>1. DOMAIN stack' = {1} /\ stack'[1].node = entry_block
    BY <1>1 DEF Frame
  <2> QED BY <1>1, <2>1 DEF MergesOnTop, CallsBranch
<1> QED BY <1>3, <1>4, <1>5, <1>6, <1>7, <1>8, <1>9 DEF VisitRec

\* The first visit goes by the record that the analysis has made.
LEMMA RecomputeFromAnalysis ==
  ASSUME VisitInv, EdgesInv, Recompute, phase = "analysis", NEW r, NEW c, AnalysisRec(r, c),
         NEW D, D = visited
  PROVE  VisitRec(r, Start, D)'
<1>1. stack = << >>
  BY DEF Recompute
<1>2. /\ Recorded(r, Blocks, succ, visited, {c}) /\ Now(r, Blocks, c) /\ MergedAbove(r, visited)
      /\ MergesReturned /\ OneLatch(r, visited, visited \ Traversing)
  BY DEF AnalysisRec
<1>3. TypeInv /\ GraphInv /\ LatchInv /\ Blocks \subseteq Nodes /\ Null \notin Nodes /\ Null \notin Blocks
  BY RecomputeFacts DEF EdgesInv
<1>4. Recorded(r, Blocks, succ, visited, {})
  <2>1. c.node = Null
    BY <1>1, <1>2 DEF Now, Current
  <2> QED BY <1>2, <2>1, CloseRecord
<1>5. OneLatch(r, visited, Nodes)
  <2>1. Traversing = {}
    BY <1>1 DEF Traversing
  <2>2. ASSUME NEW h \in Nodes, NEW x \in Nodes, Latch(r, visited, x, h) PROVE h \in visited
    <3>1. CASE x \in Blocks
      BY <1>4, <2>2, <3>1 DEF Latch, Recorded
    <3>2. CASE x \notin Blocks
      BY <1>2, <2>2, <3>2 DEF Latch, MergesReturned
    <3> QED BY <3>1, <3>2
  <2> QED BY <1>2, <2>1, <2>2 DEF OneLatch
<1>6. \A n \in visited : succ_back_edge[n] \notin Blocks
  BY <1>3 DEF GraphInv, TypeInv
<1> QED BY <1>2, <1>4, <1>5, <1>6, RecomputeByRecord

\* The call of a visit that looks at its successors.
LEMMA VisitFacts ==
  ASSUME VisitInv, EdgesInv, phase = "visit", NEW r, NEW c, NEW D, VisitRec(r, c, D), stack # << >>
  PROVE  /\ TypeInv /\ GraphInv /\ CallInv
         /\ Top.node \in Nodes /\ Top.node \in Traversing /\ Traversing \subseteq visited
         /\ Blocks \subseteq Nodes /\ Null \notin Nodes /\ Null \notin Blocks
         /\ c \in r.moments /\ c.seen = visited \cap Blocks
         /\ Top.node \in Blocks => /\ c.node = Top.node /\ c.node # Null /\ Top.node \in D
                                   /\ r.above[Top.node] = Traversing
                                   /\ \A i \in DOMAIN stack : stack[i].node \in Blocks
         /\ Top.node \notin Blocks => \E l \in D : /\ Branch(l, Top.node) /\ r.above[l] \subseteq Traversing
<1>1. TypeInv /\ GraphInv /\ ListsInv /\ CallInv
  BY DEF VisitInv, EdgesInv
<1>2. Blocks \subseteq Nodes /\ Null \notin Nodes
  BY <1>1, BlocksAreNodes DEF TypeInv, ListsInv
<1> PICK L \in Nat \ {0} : L = Len(stack)
  BY <1>1, CallFacts
<1>3. /\ DOMAIN stack = 1 .. L /\ L \in 1 .. L /\ stack[L] = Top
      /\ \A i \in 1 .. L : stack[i].node \in Traversing /\ stack[i].node \in Nodes
  BY <1>1, CallFacts
<1>4. /\ Recorded(r, Blocks, succ, D, {}) /\ Now(r, Blocks, c) /\ Paths(r, Blocks)
      /\ MergesOnTop /\ CallsBranch
  BY DEF VisitRec
<1>5. Top.node \in Traversing /\ Traversing \subseteq visited /\ Top.node \in Nodes
  BY <1>1, <1>3 DEF CallInv
<1>6. c \in r.moments /\ c.seen = visited \cap Blocks /\ c.node = Current(Blocks)
  BY <1>4 DEF Now
<1>7. \A i \in 1 .. L : i < L => stack[i].node \in Blocks
  BY <1>3, <1>4 DEF MergesOnTop
<1>8. ASSUME c.node # Null PROVE c.node \in D
  BY <1>4, <1>6, <1>8 DEF Recorded
<1>9. CASE Top.node \in Blocks
  <2>1. c.node = Top.node /\ c.node # Null /\ Top.node \in D
    BY <1>2, <1>6, <1>8, <1>9 DEF Current
  <2>2. r.above[stack[L].node] = {stack[k].node : k \in 1 .. L}
    BY <1>3, <1>4, <1>9 DEF Paths
  <2>3. r.above[Top.node] = Traversing
    BY <1>3, <2>2 DEF Traversing
  <2>4. \A i \in DOMAIN stack : stack[i].node \in Blocks
    BY <1>3, <1>4, <1>9 DEF MergesOnTop
  <2> QED BY <1>1, <1>2, <1>5, <1>6, <1>9, <2>1, <2>3, <2>4
<1>10. CASE Top.node \notin Blocks
  <2>1. L > 1
    BY <1>3, <1>4, <1>10 DEF MergesOnTop
  <2>2. L - 1 \in 1 .. L /\ L - 1 < L
    BY <2>1
  <2> PICK K \in 1 .. L : K = L - 1
    BY <2>2
  <2>3. stack[K].node \in Blocks
    BY <1>7, <2>2
  <2>4. c.node = stack[K].node
    BY <1>6, <1>10 DEF Current
  <2>5. stack[K].node \in D
    BY <1>2, <1>8, <2>3, <2>4
  <2>6. r.above[stack[K].node] = {stack[k].node : k \in 1 .. K}
    BY <1>3, <1>4, <2>3 DEF Paths
  <2>7. r.above[stack[K].node] \subseteq Traversing
    <3>1. \A k \in 1 .. K : k \in 1 .. L
      OBVIOUS
    <3> QED BY <1>3, <2>6, <3>1
  <2>8. Branch(stack[K].node, Top.node)
    BY <1>3, <1>4, <2>1 DEF CallsBranch
  <2> QED BY <1>1, <1>2, <1>5, <1>6, <1>10, <2>5, <2>7, <2>8
<1> QED BY <1>9, <1>10

\* A block that merges back edges enters no block: its header is an ancestor.
LEMMA MergesEnterNothing ==
  ASSUME VisitInv, EdgesInv, phase = "visit", NEW r, NEW c, NEW D, VisitRec(r, c, D), stack # << >>,
         Top.node \notin Blocks, NEW h \in Nodes, Branch(Top.node, h)
  PROVE  h \in Traversing
<1>1. Top.node \in Nodes
  BY VisitFacts
<1>2. PICK l \in D : Branch(l, Top.node) /\ r.above[l] \subseteq Traversing
  BY VisitFacts
<1>3. MergedAbove(r, D)
  BY DEF VisitRec
<1> QED BY <1>1, <1>2, <1>3 DEF MergedAbove

\* A visit passes a branch that is not a back edge.
LEMMA VisitSuccVisit ==
  ASSUME VisitInv, EdgesInv, phase = "visit", NEW r, NEW c, NEW D, VisitRec(r, c, D), VisitSucc
  PROVE  \E c2 : VisitRec(r, c2, D)'
<1>1. /\ UNCHANGED <<num_nodes, succ, succ_back_edge>> /\ MoreSucc /\ stack # << >>
      /\ NextSucc \notin Traversing
  BY DEF VisitSucc, graphVars, backEdgeVars, MoreSucc
<1>2. PICK n, s : n = Top.node /\ s = NextSucc
  OBVIOUS
<1>3. /\ TypeInv /\ GraphInv /\ CallInv
      /\ n \in Nodes /\ n \in Traversing /\ Traversing \subseteq visited
      /\ Blocks \subseteq Nodes /\ Null \notin Nodes /\ Null \notin Blocks
      /\ c \in r.moments /\ c.seen = visited \cap Blocks
      /\ n \in Blocks => /\ c.node = n /\ c.node # Null /\ n \in D
                         /\ r.above[n] = Traversing
                         /\ \A i \in DOMAIN stack : stack[i].node \in Blocks
  BY <1>1, <1>2, VisitFacts
<1>4. Nodes' = Nodes /\ \A a, b : Branch(a, b)' <=> Branch(a, b)
  BY <1>1 DEF Nodes, Branch, Elements
<1>5. /\ Recorded(r, Blocks, succ, D, {}) /\ Now(r, Blocks, c) /\ Paths(r, Blocks) /\ PassedVisited
      /\ MergedAbove(r, D) /\ OneLatch(r, D, Nodes)
      /\ BackEdgesLatch(r, D) /\ MergesOnTop /\ CallsBranch
  BY DEF VisitRec
<1>6. s \in Nodes /\ s \in Elements(succ[n]) /\ Branch(n, s)
  <2>1. Top.next \in Nat \ {0} /\ Top.next <= Len(succ[n]) /\ succ[n] \in Seq(Nodes)
    BY <1>1, <1>2, <1>3, CallFacts DEF MoreSucc, TypeInv
  <2> QED BY <1>2, <2>1 DEF NextSucc, Elements, Branch
<1>7. n \in Blocks
  BY <1>1, <1>2, <1>6, MergesEnterNothing
<1>8. MergedAbove(r, D)' /\ OneLatch(r, D, Nodes)' /\ BackEdgesLatch(r, D)' /\ Recorded(r, Blocks, succ, D, {})'
  <2>1. \A x, h : Latch(r, D, x, h)' <=> Latch(r, D, x, h)
    BY <1>4 DEF Latch
  <2>2. MergedAbove(r, D)'
    BY <1>4, <1>5 DEF MergedAbove
  <2>3. OneLatch(r, D, Nodes)'
    BY <1>4, <1>5, <2>1 DEF OneLatch
  <2>4. BackEdgesLatch(r, D)'
    BY <1>1, <1>4, <1>5, <2>1 DEF BackEdgesLatch
  <2> QED BY <1>1, <1>5, <2>2, <2>3, <2>4
<1> PICK L \in Nat \ {0} : L = Len(stack)
  BY <1>1, <1>3, CallFacts
<1>9. DOMAIN stack = 1 .. L /\ stack[L].node = n /\ L \in 1 .. L
  BY <1>1, <1>2, <1>3, CallFacts
<1>10. CASE s \in visited
  <2>1. stack' = Advance /\ visited' = visited
    BY <1>2, <1>10 DEF VisitSucc
  <2>2. Paths(r, Blocks)' /\ Now(r, Blocks, c)'
    BY <1>1, <1>3, <1>5, <2>1, AdvanceKeeps DEF Now
  <2>3. PassedVisited'
    BY <1>1, <1>2, <1>3, <1>5, <1>10, <2>1, PassBranch
  <2>4. DOMAIN stack' = 1 .. L /\ Len(stack') = L /\ \A i \in 1 .. L : stack'[i].node = stack[i].node
    BY <1>1, <1>3, <2>1, AdvancedCalls
  <2>5. MergesOnTop'
    BY <1>5, <1>9, <2>4 DEF MergesOnTop
  <2>6. CallsBranch'
    <3>1. \A i \in 1 .. L : i > 1 => i - 1 \in 1 .. L
      OBVIOUS
    <3> QED BY <1>4, <1>5, <1>9, <2>4, <3>1 DEF CallsBranch
  <2> QED BY <1>8, <2>2, <2>3, <2>5, <2>6 DEF VisitRec
<1>11. CASE s \notin visited
  <2>1. stack' = Append(Advance, Frame(s)) /\ visited' = visited \cup {s}
    BY <1>2, <1>11 DEF VisitSucc
  <2>2. PICK c2 : c2 = IF s \in Blocks THEN Enters(c, s) ELSE c
    OBVIOUS
  <2>3. s \in Blocks => c2 \in r.moments /\ r.up[s] = n /\ r.above[s] = r.above[n] \cup {s}
    <3> SUFFICES ASSUME s \in Blocks PROVE c2 \in r.moments /\ r.up[s] = n /\ r.above[s] = r.above[n] \cup {s}
      OBVIOUS
    <3>1. /\ \A a : Precedes(succ[n], a, s) => a \in visited
          /\ \A a \in Elements(succ[n]) : a = s \/ Precedes(succ[n], a, s) \/ Precedes(succ[n], s, a)
      BY <1>1, <1>2, <1>3, <1>5, <1>11, FirstUnvisited
    <3>2. s \in (Elements(succ[c.node]) \cap Blocks) \ c.seen
      BY <1>3, <1>6, <1>7, <1>11
    <3>3. \A a \in Blocks : Precedes(succ[c.node], a, s) => a \in c.seen
      BY <1>3, <1>7, <3>1
    <3>4. \A a \in Elements(succ[c.node]) : a = s \/ Precedes(succ[c.node], a, s) \/ Precedes(succ[c.node], s, a)
      BY <1>3, <1>7, <3>1
    <3>5. EntersIn(r, Blocks, succ, D, D, {}, c, s)
      BY <1>3, <1>5, <1>7, <3>2, <3>3, <3>4, EnterRecord
    <3> QED BY <1>3, <1>7, <2>2, <3>5 DEF EntersIn
  <2>4. Paths(r, Blocks)' /\ Current(Blocks)' = IF s \in Blocks THEN s ELSE n
    BY <1>1, <1>2, <1>3, <1>5, <1>6, <1>7, <2>1, <2>3, EnterPaths
  <2>5. Now(r, Blocks, c2)'
    <3>1. c2.node = (IF s \in Blocks THEN s ELSE n) /\ c2.seen = visited' \cap Blocks
      BY <1>3, <1>7, <2>1, <2>2 DEF Enters
    <3> QED BY <1>3, <2>2, <2>3, <2>4, <3>1 DEF Now
  <2>6. PassedVisited'
    <3>1. visited \subseteq visited' /\ s \in visited'
      BY <2>1
    <3> QED BY <1>1, <1>2, <1>3, <1>5, <2>1, <3>1, PassBranch
  <2>7. /\ DOMAIN stack' = 1 .. L + 1 /\ Len(stack') = L + 1 /\ stack'[L + 1].node = s
        /\ \A i \in 1 .. L : stack'[i].node = stack[i].node
    BY <1>1, <1>3, <1>6, <2>1, EnteredCalls
  <2>8. MergesOnTop'
    <3>1. ASSUME NEW i \in 1 .. L + 1 PROVE stack'[i].node \in Blocks \/ (i = L + 1 /\ i > 1)
      BY <1>3, <1>7, <1>9, <2>7
    <3> QED BY <2>7, <3>1 DEF MergesOnTop
  <2>9. CallsBranch'
    <3>1. ASSUME NEW i \in 1 .. L + 1, i > 1 PROVE Branch(stack'[i - 1].node, stack'[i].node)
      <4>1. CASE i = L + 1
        <5>1. i - 1 = L
          BY <4>1
        <5> QED BY <1>6, <1>9, <2>7, <4>1, <5>1
      <4>2. CASE i # L + 1
        <5>1. i \in 1 .. L /\ i - 1 \in 1 .. L
          BY <3>1, <4>2
        <5> QED BY <1>5, <1>9, <2>7, <3>1, <5>1 DEF CallsBranch
      <4> QED BY <4>1, <4>2
    <3> QED BY <1>4, <2>7, <3>1 DEF CallsBranch
  <2> QED BY <1>8, <2>4, <2>5, <2>6, <2>8, <2>9 DEF VisitRec
<1> QED BY <1>10, <1>11

\* A visit finds a back edge, and it is the only one of its header.
LEMMA VisitBackEdgeVisit ==
  ASSUME VisitInv, EdgesInv, NEW r, NEW c, NEW D, VisitRec(r, c, D), VisitBackEdge
  PROVE  /\ phase' # "header has two back edges"
         /\ phase' = "visit" => VisitRec(r, c, D)'
<1>1. /\ UNCHANGED <<num_nodes, succ, visited>> /\ MoreSucc /\ stack # << >> /\ phase = "visit"
      /\ NextSucc \in Traversing
  BY DEF VisitBackEdge, graphVars, MoreSucc
<1>2. PICK n, s : n = Top.node /\ s = NextSucc
  OBVIOUS
<1>3. /\ TypeInv /\ GraphInv /\ CallInv
      /\ n \in Nodes /\ n \in Traversing /\ Traversing \subseteq visited
      /\ Blocks \subseteq Nodes /\ Null \notin Nodes /\ Null \notin Blocks
      /\ c \in r.moments /\ c.seen = visited \cap Blocks
      /\ n \in Blocks => /\ c.node = n /\ c.node # Null /\ n \in D
                         /\ r.above[n] = Traversing
                         /\ \A i \in DOMAIN stack : stack[i].node \in Blocks
  BY <1>1, <1>2, VisitFacts
<1>4. /\ Recorded(r, Blocks, succ, D, {}) /\ Now(r, Blocks, c) /\ Paths(r, Blocks) /\ PassedVisited
      /\ MergedAbove(r, D) /\ OneLatch(r, D, Nodes)
      /\ BackEdgesLatch(r, D) /\ MergesOnTop /\ CallsBranch
  BY DEF VisitRec
<1>5. s \in Nodes /\ s \in Elements(succ[n]) /\ Branch(n, s)
  <2>1. Top.next \in Nat \ {0} /\ Top.next <= Len(succ[n]) /\ succ[n] \in Seq(Nodes)
    BY <1>1, <1>2, <1>3, CallFacts DEF MoreSucc, TypeInv
  <2> QED BY <1>2, <2>1 DEF NextSucc, Elements, Branch
<1>6. Latch(r, D, n, s)
  BY <1>1, <1>2, <1>3, <1>5 DEF Latch
<1>7. pred_back_edge[s] \in {Null, n}
  <2>1. SUFFICES ASSUME pred_back_edge[s] # Null PROVE pred_back_edge[s] = n
    OBVIOUS
  <2>2. EndsInv /\ ListsInv
    BY DEF EdgesInv
  <2> PICK y : y = pred_back_edge[s]
    OBVIOUS
  <2>3. y \in Nodes
    BY <1>5, <2>1, <2>2 DEF ListsInv
  <2>4. succ_back_edge[y] = s
    BY <1>5, <2>2, <2>3 DEF EndsInv
  <2>5. Latch(r, D, y, s)
    BY <1>4, <1>5, <2>3, <2>4 DEF BackEdgesLatch
  <2> QED BY <1>3, <1>4, <1>5, <1>6, <2>3, <2>5 DEF OneLatch
<1>8. CASE succ_back_edge[n] \notin {Null, s}
  <2>1. succ_back_edge[Top.node] \notin {Null, NextSucc} /\ ~ (pred_back_edge[NextSucc] \notin {Null, Top.node})
    BY <1>2, <1>7, <1>8
  <2>2. phase' = "block has two back edges"
    BY <2>1, Zenon DEF VisitBackEdge
  <2> QED BY <2>2
<1>9. CASE succ_back_edge[n] \in {Null, s}
  <2>1. /\ succ_back_edge' = [succ_back_edge EXCEPT ![n] = s] /\ stack' = Advance /\ phase' = phase
    <3>1. ~ (succ_back_edge[Top.node] \notin {Null, NextSucc}) /\ ~ (pred_back_edge[NextSucc] \notin {Null, Top.node})
      BY <1>2, <1>7, <1>9
    <3>2. /\ succ_back_edge' = [succ_back_edge EXCEPT ![Top.node] = NextSucc] /\ stack' = Advance
          /\ UNCHANGED phase
      BY <3>1, Zenon DEF VisitBackEdge
    <3> QED BY <1>2, <3>2
  <2>2. Nodes' = Nodes /\ succ_back_edge'[n] = s /\ \A x \in Nodes : x # n => succ_back_edge'[x] = succ_back_edge[x]
    BY <1>1, <1>3, <2>1 DEF Nodes, TypeInv
  <2>3. \A a, b \in Nodes : Branch(a, b)' <=> Branch(a, b)
    BY <1>1, <1>3, <1>5, <1>9, <2>2 DEF Branch
  <2>4. \A x, h \in Nodes : Latch(r, D, x, h)' <=> Latch(r, D, x, h)
    BY <2>3 DEF Latch
  <2>5. MergedAbove(r, D)'
    <3>1. D \subseteq Nodes
      BY <1>3, <1>4 DEF Recorded
    <3> QED BY <1>4, <2>2, <2>3, <3>1 DEF MergedAbove
  <2>6. OneLatch(r, D, Nodes)'
    BY <1>4, <2>2, <2>4 DEF OneLatch
  <2>7. BackEdgesLatch(r, D)'
    <3>1. ASSUME NEW x \in Nodes, NEW h \in Nodes, succ_back_edge'[x] = h PROVE Latch(r, D, x, h)
      <4>1. CASE x = n
        BY <1>6, <2>2, <3>1, <4>1
      <4>2. CASE x # n
        BY <1>4, <2>2, <3>1, <4>2 DEF BackEdgesLatch
      <4> QED BY <4>1, <4>2
    <3> QED BY <2>2, <2>4, <3>1 DEF BackEdgesLatch
  <2>8. Paths(r, Blocks)' /\ Now(r, Blocks, c)'
    BY <1>1, <1>3, <1>4, <2>1, AdvanceKeeps DEF Now
  <2>9. PassedVisited'
    <3>1. s \in visited'
      BY <1>1, <1>2, <1>3
    <3> QED BY <1>1, <1>2, <1>3, <1>4, <2>1, <3>1, PassBranch
  <2> PICK L \in Nat \ {0} : L = Len(stack)
    BY <1>1, <1>3, CallFacts
  <2>10. /\ DOMAIN stack = 1 .. L /\ DOMAIN stack' = 1 .. L /\ Len(stack') = L
         /\ \A i \in 1 .. L : stack'[i].node = stack[i].node /\ stack[i].node \in Nodes
    BY <1>1, <1>3, <2>1, AdvancedCalls, CallFacts
  <2>11. MergesOnTop'
    BY <1>4, <2>10 DEF MergesOnTop
  <2>12. CallsBranch'
    <3>1. \A i \in 1 .. L : i > 1 => i - 1 \in 1 .. L
      OBVIOUS
    <3> QED BY <1>4, <2>3, <2>10, <3>1 DEF CallsBranch
  <2>13. Recorded(r, Blocks, succ, D, {})'
    BY <1>1, <1>4
  <2>14. phase' # "header has two back edges"
    BY <1>1, <2>1
  <2> QED BY <2>5, <2>6, <2>7, <2>8, <2>9, <2>11, <2>12, <2>13, <2>14 DEF VisitRec
<1> QED BY <1>8, <1>9

\* A call of a visit returns.
LEMMA ReturnFromVisitVisit ==
  ASSUME VisitInv, EdgesInv, NEW r, NEW c, NEW D, VisitRec(r, c, D), ReturnFromVisit
  PROVE  \E c2 : VisitRec(r, c2, D)'
<1>1. /\ UNCHANGED <<num_nodes, succ_back_edge, visited>> /\ Returns /\ stack # << >> /\ phase = "visit"
      /\ stack' = Pop
  BY DEF ReturnFromVisit, backEdgeVars, Returns
<1>2. PICK n : n = Top.node
  OBVIOUS
<1>3. /\ TypeInv /\ GraphInv /\ CallInv
      /\ n \in Nodes /\ n \in Traversing /\ Traversing \subseteq visited
      /\ Blocks \subseteq Nodes /\ Null \notin Nodes /\ Null \notin Blocks
      /\ c \in r.moments /\ c.seen = visited \cap Blocks
      /\ n \in Blocks => /\ c.node = n /\ c.node # Null /\ n \in D
                         /\ r.above[n] = Traversing
                         /\ \A i \in DOMAIN stack : stack[i].node \in Blocks
  BY <1>1, <1>2, VisitFacts
<1>4. /\ Recorded(r, Blocks, succ, D, {}) /\ Now(r, Blocks, c) /\ Paths(r, Blocks) /\ PassedVisited
      /\ MergedAbove(r, D) /\ OneLatch(r, D, Nodes)
      /\ BackEdgesLatch(r, D) /\ MergesOnTop /\ CallsBranch
  BY DEF VisitRec
<1>5. succ[n] \in Seq(Nodes) /\ Distinct(succ[n]) /\ D \subseteq Blocks
  BY <1>3, <1>4 DEF TypeInv, GraphInv, Recorded
<1>6. /\ succ'[n] = Erase(succ[n], succ_back_edge[n])
      /\ \A x \in Nodes : x # n => succ'[x] = succ[x]
  BY <1>1, <1>2, <1>3 DEF ReturnFromVisit, ForwardSucc, TypeInv
<1>7. Nodes' = Nodes /\ \A a, b \in Nodes : Branch(a, b)' <=> Branch(a, b)
  <2>1. Elements(succ'[n]) = Elements(succ[n]) \ {succ_back_edge[n]}
    BY <1>5, <1>6, EraseFacts
  <2> QED BY <1>1, <1>6, <2>1 DEF Nodes, Branch
<1>8. \A x, h \in Nodes : Latch(r, D, x, h)' <=> Latch(r, D, x, h)
  BY <1>7 DEF Latch
<1>9. MergedAbove(r, D)' /\ OneLatch(r, D, Nodes)' /\ BackEdgesLatch(r, D)'
  <2>1. MergedAbove(r, D)'
    BY <1>3, <1>4, <1>5, <1>7 DEF MergedAbove
  <2>2. OneLatch(r, D, Nodes)'
    BY <1>4, <1>7, <1>8 DEF OneLatch
  <2>3. BackEdgesLatch(r, D)'
    BY <1>1, <1>4, <1>7, <1>8 DEF BackEdgesLatch
  <2> QED BY <2>1, <2>2, <2>3
<1>10. Recorded(r, Blocks, succ, D, {})'
  <2>1. ASSUME NEW m \in D PROVE KeepsOrder(succ[m], succ'[m], Blocks \ r.above[m])
    <3>1. CASE m = n
      <4>1. succ_back_edge[n] \notin Blocks \ r.above[n]
        BY <1>3, <1>4, <1>5, <2>1, <3>1 DEF BackEdgesLatch, Latch
      <4>2. KeepsOrder(succ[n], Erase(succ[n], succ_back_edge[n]), Blocks \ r.above[n])
        BY <1>5, <4>1, EraseKeeps
      <4> QED BY <1>6, <3>1, <4>2
    <3>2. CASE m # n
      BY <1>3, <1>5, <1>6, <2>1, <3>2 DEF KeepsOrder
    <3> QED BY <3>1, <3>2
  <2>2. Recorded(r, Blocks, succ', D, {})
    BY <1>4, <2>1, RecordKept
  <2> QED BY <2>2
<1>11. PICK c2 : c2 = IF n \in Blocks THEN Leaves(c, r.up[n]) ELSE c
  OBVIOUS
<1>12. c2 \in r.moments
  <2>1. CASE n \in Blocks
    <3>1. Elements(succ[c.node]) \cap Blocks \subseteq c.seen
      <4>1. Elements(succ[n]) \subseteq visited
        BY <1>1, <1>2, <1>3, <1>4, AllVisited
      <4> QED BY <1>3, <2>1, <4>1
    <3>2. LeavesIn(r, Blocks, succ, D, {}, c)
      BY <1>3, <1>4, <2>1, <3>1, LeaveRecord
    <3> QED BY <1>3, <1>11, <2>1, <3>2 DEF LeavesIn
  <2>2. CASE n \notin Blocks
    BY <1>3, <1>11, <2>2
  <2> QED BY <2>1, <2>2
<1>13. Paths(r, Blocks)' /\ Now(r, Blocks, c2)'
  <2>1. Paths(r, Blocks)' /\ Current(Blocks)' = IF n \in Blocks THEN r.up[n] ELSE Current(Blocks)
    BY <1>1, <1>2, <1>3, <1>4, LeavePaths DEF MergesOnTop
  <2>2. c2.seen = visited \cap Blocks /\ c2.node = IF n \in Blocks THEN r.up[n] ELSE Current(Blocks)
    BY <1>3, <1>4, <1>11 DEF Leaves, Now
  <2> QED BY <1>1, <1>12, <2>1, <2>2 DEF Now
<1>14. PassedVisited'
  <2>1. \A x \in Traversing \ {n} : succ'[x] = succ[x]
    BY <1>3, <1>6 DEF TypeInv
  <2> QED BY <1>1, <1>2, <1>3, <1>4, <2>1, PopBranch DEF CallInv
<1> PICK L \in Nat \ {0} : L = Len(stack)
  BY <1>1, <1>3, CallFacts
<1>15. /\ DOMAIN stack = 1 .. L /\ DOMAIN stack' = 1 .. L - 1 /\ Len(stack') = L - 1
       /\ \A i \in 1 .. L - 1 : i \in 1 .. L /\ stack'[i] = stack[i]
       /\ \A i \in 1 .. L : stack[i].node \in Nodes
  BY <1>1, <1>3, PoppedCalls, CallFacts
<1>16. MergesOnTop'
  <2>1. \A i \in 1 .. L - 1 : i # L
    OBVIOUS
  <2> QED BY <1>4, <1>15, <2>1 DEF MergesOnTop
<1>17. CallsBranch'
  <2>1. \A i \in 1 .. L - 1 : i > 1 => i - 1 \in 1 .. L - 1
    OBVIOUS
  <2> QED BY <1>4, <1>7, <1>15, <2>1 DEF CallsBranch
<1> QED BY <1>9, <1>10, <1>13, <1>14, <1>16, <1>17 DEF VisitRec

\* The next visit goes by the same record.
LEMMA RecomputeFromVisit ==
  ASSUME VisitInv, EdgesInv, Recompute, NEW r, NEW c, NEW D, VisitRec(r, c, D)
  PROVE  VisitRec(r, Start, D)'
<1>1. Recorded(r, Blocks, succ, D, {}) /\ MergedAbove(r, D) /\ OneLatch(r, D, Nodes) /\ BackEdgesLatch(r, D)
  BY DEF VisitRec
<1>2. \A n \in D : succ_back_edge[n] \in Blocks => succ_back_edge[n] \in r.above[n]
  <2>1. D \subseteq Blocks
    BY <1>1 DEF Recorded
  <2> QED BY <1>1, <2>1, RecomputeFacts DEF BackEdgesLatch, Latch
<1> QED BY <1>1, <1>2, RecomputeByRecord

\* The call of a visit that looks at its successors, in the record of all blocks.
LEMMA StableFacts ==
  ASSUME VisitInv, EdgesInv, phase = "visit", visits >= 1, NEW r, NEW c, NEW D, NEW X, StableRec(r, c, D, X),
         stack # << >>
  PROVE  /\ TypeInv /\ GraphInv /\ CallInv /\ ListsInv /\ EndsInv
         /\ X = Nodes /\ Null \notin X
         /\ Top.node \in X /\ Top.node \in Traversing /\ Traversing \subseteq visited
         /\ visited \subseteq X /\ visited \subseteq D
         /\ c \in r.moments /\ c.seen = visited /\ c.node = Top.node /\ c.node # Null
         /\ r.above[Top.node] = Traversing
         /\ \A i \in DOMAIN stack : stack[i].node \in X
         /\ visits \in Nat
<1>1. TypeInv /\ GraphInv /\ ListsInv /\ CallInv /\ EndsInv
  BY DEF VisitInv, EdgesInv
<1>2. Null \notin Nodes
  BY <1>1, BlocksAreNodes DEF TypeInv, ListsInv
<1>3. /\ X = Nodes /\ Recorded(r, X, succ, D, IF visits = 1 THEN {c} ELSE {})
      /\ Now(r, X, c) /\ Paths(r, X)
  BY DEF StableRec
<1> PICK L \in Nat \ {0} : L = Len(stack)
  BY <1>1, CallFacts
<1>4. /\ DOMAIN stack = 1 .. L /\ L \in 1 .. L /\ stack[L] = Top
      /\ \A i \in 1 .. L : stack[i].node \in Traversing /\ stack[i].node \in Nodes
  BY <1>1, CallFacts
<1>5. Top.node \in X /\ Top.node \in Traversing /\ Traversing \subseteq visited /\ visited \subseteq X
  BY <1>1, <1>3, <1>4 DEF CallInv, TypeInv
<1>6. c \in r.moments /\ c.seen = visited /\ c.node = Top.node /\ c.node # Null
  BY <1>2, <1>3, <1>5 DEF Now, Current
<1>7. visited \subseteq D
  BY <1>3, <1>6 DEF Recorded
<1>8. r.above[Top.node] = Traversing
  <2>1. r.above[stack[L].node] = {stack[k].node : k \in 1 .. L}
    BY <1>3, <1>4, <1>5 DEF Paths
  <2> QED BY <1>4, <2>1 DEF Traversing
<1>9. visits \in Nat
  BY <1>1, CVConstants DEF ListsInv
<1> QED BY <1>1, <1>2, <1>3, <1>4, <1>5, <1>6, <1>7, <1>8, <1>9

\* A visit passes a branch that is not a back edge.
LEMMA VisitSuccStable ==
  ASSUME VisitInv, EdgesInv, phase = "visit", visits >= 1, NEW r, NEW c, NEW D, NEW X, StableRec(r, c, D, X), VisitSucc
  PROVE  \E r2, c2, D2 : StableRec(r2, c2, D2, X)'
<1>1. /\ UNCHANGED <<num_nodes, succ, succ_back_edge, visits, previous, post_order>> /\ MoreSucc /\ stack # << >>
      /\ NextSucc \notin Traversing
  BY DEF VisitSucc, graphVars, backEdgeVars, MoreSucc
<1>2. PICK n, s : n = Top.node /\ s = NextSucc
  OBVIOUS
<1>3. /\ TypeInv /\ GraphInv /\ X = Nodes /\ Null \notin X
      /\ n \in X /\ n \in Traversing /\ Traversing \subseteq visited
      /\ visited \subseteq X /\ visited \subseteq D
      /\ c \in r.moments /\ c.seen = visited /\ c.node = n /\ c.node # Null
      /\ r.above[n] = Traversing
      /\ \A i \in DOMAIN stack : stack[i].node \in X
      /\ visits \in Nat
  BY <1>1, <1>2, StableFacts
<1>4. Nodes' = Nodes /\ \A a, b : Branch(a, b)' <=> Branch(a, b)
  BY <1>1 DEF Nodes, Branch, Elements
<1>5. /\ Recorded(r, X, succ, D, IF visits = 1 THEN {c} ELSE {})
      /\ Now(r, X, c) /\ c.done = post_order /\ Paths(r, X) /\ PassedVisited
      /\ LoopsFound(r) /\ BackEdgesLoop(r)
      /\ visits > 1 => \E back, pback : previous = <<r.last.done, back, pback>> /\ BackEdgesAre(r, D, back, pback)
  BY DEF StableRec
<1>6. s \in Nodes /\ s \in Elements(succ[n])
  <2>1. Top.next \in Nat \ {0} /\ Top.next <= Len(succ[n]) /\ succ[n] \in Seq(Nodes)
    BY <1>1, <1>2, <1>3, CallFacts DEF MoreSucc, TypeInv
  <2> QED BY <1>2, <2>1 DEF NextSucc, Elements
<1>7. visits > 1 => \E back, pback : previous' = <<r.last.done, back, pback>> /\ BackEdgesAre(r, D, back, pback)'
  BY <1>1, <1>4, <1>5 DEF BackEdgesAre
<1>8. CASE s \in visited
  <2>1. stack' = Advance /\ visited' = visited
    BY <1>2, <1>8 DEF VisitSucc
  <2>2. Paths(r, X)' /\ Now(r, X, c)'
    BY <1>1, <1>3, <1>5, <2>1, AdvanceKeeps DEF Now
  <2>3. PassedVisited' /\ \A x, h : Unpassed(x, h) => Unpassed(x, h)' \/ (x = n /\ h = s)
    BY <1>1, <1>2, <1>3, <1>5, <1>8, <2>1, PassBranch
  <2>4. LoopsFound(r)'
    <3>1. ASSUME NEW x \in Nodes, NEW h \in Nodes, Loops(r, x, h)' PROVE succ_back_edge[x] = h \/ Unpassed(x, h)'
      <4>1. Loops(r, x, h)
        BY <1>4, <2>1, <3>1 DEF Loops
      <4>2. ~ (x = n /\ h = s)
        BY <1>1, <1>2, <1>3, <4>1 DEF Loops
      <4> QED BY <1>5, <2>3, <4>1, <4>2 DEF LoopsFound
    <3> QED BY <1>1, <1>4, <3>1 DEF LoopsFound
  <2>5. BackEdgesLoop(r)'
    BY <1>1, <1>4, <1>5, <2>1 DEF BackEdgesLoop
  <2>6. Recorded(r, X, succ', D, IF visits' = 1 THEN {c} ELSE {})
    BY <1>1, <1>5
  <2> QED BY <1>1, <1>3, <1>4, <1>5, <1>7, <2>2, <2>3, <2>4, <2>5, <2>6 DEF StableRec
<1>9. CASE s \notin visited
  <2>1. stack' = Append(Advance, Frame(s)) /\ visited' = visited \cup {s}
    BY <1>2, <1>9 DEF VisitSucc
  <2>2. PICK c2, D2, made2 : /\ c2 = Enters(c, s) /\ D2 = IF visits = 1 THEN D \cup {s} ELSE D
                             /\ made2 = IF visits = 1 THEN {c2} ELSE {}
    OBVIOUS
  <2>3. PICK r2 : /\ Recorded(r2, X, succ, D2, made2) /\ c2 \in r2.moments
                  /\ r2.up[s] = n /\ r2.above[s] = r.above[n] \cup {s}
                  /\ \A x \in D : r2.up[x] = r.up[x] /\ r2.above[x] = r.above[x]
                  /\ visits # 1 => r2 = r
    <3>1. /\ \A a : Precedes(succ[n], a, s) => a \in visited
          /\ \A a \in Elements(succ[n]) : a = s \/ Precedes(succ[n], a, s) \/ Precedes(succ[n], s, a)
      BY <1>1, <1>2, <1>3, <1>5, <1>9, FirstUnvisited
    <3>2. s \in (Elements(succ[c.node]) \cap X) \ c.seen
      BY <1>3, <1>6, <1>9
    <3>3. \A a \in X : Precedes(succ[c.node], a, s) => a \in c.seen
      BY <1>3, <3>1
    <3>4. \A a \in Elements(succ[c.node]) : a = s \/ Precedes(succ[c.node], a, s) \/ Precedes(succ[c.node], s, a)
      BY <1>3, <3>1
    <3>5. PICK made : made = IF visits = 1 THEN {c} ELSE {}
      OBVIOUS
    <3>6. /\ Recorded(r, X, succ, D, made) /\ made \subseteq {c}
          /\ made = {} => made2 = {} /\ D2 = D
          /\ made # {} => made2 = {Enters(c, s)} /\ D2 = D \cup {s}
      BY <1>5, <2>2, <3>5
    <3>7. EntersIn(r, X, succ, D, D2, made2, c, s)
      BY <1>3, <3>2, <3>3, <3>4, <3>6, EnterRecord
    <3>8. visits # 1 => made2 = {}
      BY <2>2
    <3> QED BY <1>3, <2>2, <3>7, <3>8 DEF EntersIn
  <2>4. Paths(r2, X)' /\ Current(X)' = s
    <3>1. \A x \in Traversing \cap X : r2.up[x] = r.up[x] /\ r2.above[x] = r.above[x]
      BY <1>3, <2>3
    <3> QED BY <1>1, <1>2, <1>3, <1>5, <1>6, <2>1, <2>3, <3>1, EnterPaths
  <2>5. Now(r2, X, c2)' /\ c2.done = post_order'
    <3>1. c2.node = s /\ c2.seen = visited' /\ visited' \subseteq X /\ c2.done = post_order
      BY <1>3, <1>5, <1>6, <2>1, <2>2 DEF Enters
    <3> QED BY <1>1, <2>3, <2>4, <3>1 DEF Now
  <2>6. /\ PassedVisited' /\ \A x, h : Unpassed(x, h) => Unpassed(x, h)' \/ (x = n /\ h = s)
        /\ \A h : Unpassed(s, h)'
    <3>1. visited \subseteq visited' /\ s \in visited'
      BY <2>1
    <3> QED BY <1>1, <1>2, <1>3, <1>5, <2>1, <3>1, PassBranch
  <2>7. LoopsFound(r2)'
    <3>1. ASSUME NEW x \in Nodes, NEW h \in Nodes, Loops(r2, x, h)' PROVE succ_back_edge[x] = h \/ Unpassed(x, h)'
      <4>1. CASE x = s
        BY <2>6, <4>1
      <4>2. CASE x # s
        <5>1. Loops(r, x, h)
          BY <1>3, <1>4, <2>1, <2>3, <3>1, <4>2 DEF Loops
        <5>2. ~ (x = n /\ h = s)
          BY <1>1, <1>2, <1>3, <5>1 DEF Loops
        <5> QED BY <1>5, <2>6, <5>1, <5>2 DEF LoopsFound
      <4> QED BY <4>1, <4>2
    <3> QED BY <1>1, <1>4, <3>1 DEF LoopsFound
  <2>8. BackEdgesLoop(r2)'
    BY <1>1, <1>3, <1>4, <1>5, <2>1, <2>3 DEF BackEdgesLoop
  <2>9. Recorded(r2, X, succ', D2, IF visits' = 1 THEN {c2} ELSE {})
    BY <1>1, <2>2, <2>3
  <2>10. visits' > 1 => \E back, pback : previous' = <<r2.last.done, back, pback>> /\ BackEdgesAre(r2, D2, back, pback)'
    <3>1. visits' > 1 => visits > 1 /\ r2 = r /\ D2 = D
      BY <1>1, <2>2, <2>3
    <3> QED BY <1>7, <3>1
  <2> QED BY <1>3, <1>4, <2>4, <2>5, <2>6, <2>7, <2>8, <2>9, <2>10 DEF StableRec
<1> QED BY <1>8, <1>9

\* A visit finds a back edge.
LEMMA VisitBackEdgeStable ==
  ASSUME VisitInv, EdgesInv, visits >= 1, NEW r, NEW c, NEW D, NEW X, StableRec(r, c, D, X), VisitBackEdge,
         phase' = "visit"
  PROVE  StableRec(r, c, D, X)'
<1>1. /\ UNCHANGED <<num_nodes, succ, visited, visits, previous, post_order>> /\ MoreSucc /\ stack # << >>
      /\ phase = "visit" /\ NextSucc \in Traversing
  BY DEF VisitBackEdge, graphVars, MoreSucc
<1>2. PICK n, s : n = Top.node /\ s = NextSucc
  OBVIOUS
<1>3. /\ TypeInv /\ GraphInv /\ X = Nodes /\ Null \notin X
      /\ n \in X /\ n \in Traversing /\ Traversing \subseteq visited
      /\ visited \subseteq X
      /\ c \in r.moments /\ c.seen = visited /\ c.node = n /\ c.node # Null
      /\ r.above[n] = Traversing
      /\ \A i \in DOMAIN stack : stack[i].node \in X
  BY <1>1, <1>2, StableFacts
<1>4. /\ Recorded(r, X, succ, D, IF visits = 1 THEN {c} ELSE {})
      /\ Now(r, X, c) /\ c.done = post_order /\ Paths(r, X) /\ PassedVisited
      /\ LoopsFound(r) /\ BackEdgesLoop(r)
      /\ visits > 1 => \E back, pback : previous = <<r.last.done, back, pback>> /\ BackEdgesAre(r, D, back, pback)
  BY DEF StableRec
<1>5. s \in Nodes /\ s \in Elements(succ[n]) /\ Branch(n, s) /\ s \in visited
  <2>1. Top.next \in Nat \ {0} /\ Top.next <= Len(succ[n]) /\ succ[n] \in Seq(Nodes)
    BY <1>1, <1>2, <1>3, CallFacts DEF MoreSucc, TypeInv
  <2> QED BY <1>1, <1>2, <1>3, <2>1 DEF NextSucc, Elements, Branch
<1>6. /\ succ_back_edge' = [succ_back_edge EXCEPT ![n] = s] /\ stack' = Advance /\ succ_back_edge[n] \in {Null, s}
  <2>1. phase' \notin {"block has two back edges", "header has two back edges"}
    OBVIOUS
  <2>2. /\ ~ (succ_back_edge[Top.node] \notin {Null, NextSucc})
        /\ succ_back_edge' = [succ_back_edge EXCEPT ![Top.node] = NextSucc] /\ stack' = Advance
    BY <2>1, Zenon DEF VisitBackEdge
  <2> QED BY <1>2, <2>2
<1>7. Nodes' = Nodes /\ succ_back_edge'[n] = s /\ \A x \in Nodes : x # n => succ_back_edge'[x] = succ_back_edge[x]
  BY <1>1, <1>3, <1>6 DEF Nodes, TypeInv
<1>8. \A a, b \in Nodes : Branch(a, b)' <=> Branch(a, b)
  BY <1>1, <1>3, <1>5, <1>6, <1>7 DEF Branch
<1>9. Paths(r, X)' /\ Now(r, X, c)'
  BY <1>1, <1>3, <1>4, <1>6, AdvanceKeeps DEF Now
<1>10. PassedVisited' /\ \A x, h : Unpassed(x, h) => Unpassed(x, h)' \/ (x = n /\ h = s)
  BY <1>1, <1>2, <1>3, <1>4, <1>5, <1>6, PassBranch
<1>11. LoopsFound(r)'
  <2>1. ASSUME NEW x \in Nodes, NEW h \in Nodes, Loops(r, x, h)' PROVE succ_back_edge'[x] = h \/ Unpassed(x, h)'
    <3>1. Loops(r, x, h)
      BY <1>1, <1>8, <2>1 DEF Loops
    <3>2. succ_back_edge[x] = h \/ Unpassed(x, h)
      BY <1>4, <3>1 DEF LoopsFound
    <3>3. succ_back_edge[x] = h => succ_back_edge'[x] = h
      BY <1>3, <1>6, <1>7
    <3> QED BY <1>7, <1>10, <3>2, <3>3
  <2> QED BY <1>7, <2>1 DEF LoopsFound
<1>12. BackEdgesLoop(r)'
  <2>1. ASSUME NEW x \in Nodes, NEW h \in Nodes, succ_back_edge'[x] = h PROVE x \in visited /\ h \in r.above[x]
    <3>1. CASE x = n
      BY <1>1, <1>2, <1>3, <1>7, <2>1, <3>1
    <3>2. CASE x # n
      BY <1>4, <1>7, <2>1, <3>2 DEF BackEdgesLoop
    <3> QED BY <3>1, <3>2
  <2> QED BY <1>1, <1>7, <2>1 DEF BackEdgesLoop
<1>13. Recorded(r, X, succ', D, IF visits' = 1 THEN {c} ELSE {})
  BY <1>1, <1>4
<1>14. visits' > 1 => \E back, pback : previous' = <<r.last.done, back, pback>> /\ BackEdgesAre(r, D, back, pback)'
  BY <1>1, <1>4, <1>7, <1>8 DEF BackEdgesAre
<1> QED BY <1>1, <1>3, <1>4, <1>7, <1>9, <1>10, <1>11, <1>12, <1>13, <1>14 DEF StableRec

\* A call of a visit returns.
LEMMA ReturnFromVisitStable ==
  ASSUME VisitInv, EdgesInv, visits >= 1, NEW r, NEW c, NEW D, NEW X, StableRec(r, c, D, X), ReturnFromVisit
  PROVE  \E r2, c2 : StableRec(r2, c2, D, X)'
<1>1. /\ UNCHANGED <<num_nodes, succ_back_edge, visited, visits, previous>> /\ Returns /\ stack # << >>
      /\ phase = "visit" /\ stack' = Pop
  BY DEF ReturnFromVisit, backEdgeVars, Returns
<1>2. PICK n : n = Top.node
  OBVIOUS
<1>3. /\ TypeInv /\ GraphInv /\ CallInv /\ X = Nodes /\ Null \notin X
      /\ n \in X /\ n \in Traversing /\ Traversing \subseteq visited
      /\ visited \subseteq X /\ visited \subseteq D
      /\ c \in r.moments /\ c.seen = visited /\ c.node = n /\ c.node # Null
      /\ \A i \in DOMAIN stack : stack[i].node \in X
  BY <1>1, <1>2, StableFacts
<1>4. /\ Recorded(r, X, succ, D, IF visits = 1 THEN {c} ELSE {})
      /\ Now(r, X, c) /\ c.done = post_order /\ Paths(r, X) /\ PassedVisited
      /\ LoopsFound(r) /\ BackEdgesLoop(r)
      /\ visits > 1 => \E back, pback : previous = <<r.last.done, back, pback>> /\ BackEdgesAre(r, D, back, pback)
  BY DEF StableRec
<1>5. succ[n] \in Seq(Nodes) /\ Distinct(succ[n]) /\ D \subseteq X
  BY <1>3, <1>4 DEF TypeInv, GraphInv, Recorded
<1>6. /\ succ'[n] = Erase(succ[n], succ_back_edge[n])
      /\ \A x \in Nodes : x # n => succ'[x] = succ[x]
      /\ post_order' = Append(post_order, n)
  BY <1>1, <1>2, <1>3 DEF ReturnFromVisit, ForwardSucc, TypeInv
<1>7. Nodes' = Nodes /\ \A a, b \in Nodes : Branch(a, b)' <=> Branch(a, b)
  <2>1. Elements(succ'[n]) = Elements(succ[n]) \ {succ_back_edge[n]}
    BY <1>5, <1>6, EraseFacts
  <2> QED BY <1>1, <1>6, <2>1 DEF Nodes, Branch
<1>8. PICK c2, made2 : c2 = Leaves(c, r.up[n]) /\ made2 = IF visits = 1 THEN {c2} ELSE {}
  OBVIOUS
<1>9. PICK r2 : /\ Recorded(r2, X, succ, D, made2) /\ c2 \in r2.moments
                /\ r2.up = r.up /\ r2.above = r.above
                /\ visits # 1 => r2 = r
  <2>1. Elements(succ[c.node]) \cap X \subseteq c.seen
    BY <1>1, <1>2, <1>3, <1>4, AllVisited
  <2>2. PICK made : made = IF visits = 1 THEN {c} ELSE {}
    OBVIOUS
  <2>3. /\ Recorded(r, X, succ, D, made) /\ made \subseteq {c}
        /\ made = {} => made2 = {}
        /\ made # {} => made2 = {Leaves(c, r.up[c.node])}
    BY <1>3, <1>4, <1>8, <2>2
  <2>4. LeavesIn(r, X, succ, D, made2, c)
    BY <1>3, <2>1, <2>3, LeaveRecord
  <2>5. visits # 1 => made2 = {}
    BY <1>8
  <2> QED BY <1>3, <1>8, <2>4, <2>5 DEF LeavesIn
<1>10. Recorded(r2, X, succ', D, IF visits' = 1 THEN {c2} ELSE {})
  <2>1. ASSUME NEW m \in D PROVE KeepsOrder(succ[m], succ'[m], X \ r2.above[m])
    <3>1. CASE m = n
      <4>1. succ_back_edge[n] \notin X \ r2.above[n]
        BY <1>3, <1>4, <1>9 DEF BackEdgesLoop
      <4>2. KeepsOrder(succ[n], Erase(succ[n], succ_back_edge[n]), X \ r2.above[n])
        BY <1>5, <4>1, EraseKeeps
      <4> QED BY <1>6, <3>1, <4>2
    <3>2. CASE m # n
      BY <1>3, <1>5, <1>6, <2>1, <3>2 DEF KeepsOrder
    <3> QED BY <3>1, <3>2
  <2>2. Recorded(r2, X, succ', D, made2)
    BY <1>9, <2>1, RecordKept
  <2> QED BY <1>1, <1>8, <2>2
<1>11. Paths(r2, X)' /\ Now(r2, X, c2)' /\ c2.done = post_order'
  <2>1. Paths(r2, X)' /\ Current(X)' = r.up[n]
    BY <1>1, <1>2, <1>3, <1>4, <1>9, LeavePaths
  <2>2. c2.seen = visited /\ c2.node = r.up[n] /\ c2.done = Append(c.done, n)
    BY <1>3, <1>8 DEF Leaves
  <2> QED BY <1>1, <1>3, <1>4, <1>6, <1>9, <2>1, <2>2 DEF Now
<1>12. /\ PassedVisited'
       /\ \A x, h : Unpassed(x, h) => Unpassed(x, h)' \/ x = n
       /\ \A h \in Elements(succ[n]) : ~ Unpassed(n, h)
  <2>1. \A x \in Traversing \ {n} : succ'[x] = succ[x]
    BY <1>3, <1>6 DEF TypeInv
  <2> QED BY <1>1, <1>2, <1>3, <1>4, <2>1, PopBranch DEF CallInv
<1>13. LoopsFound(r2)'
  <2>1. ASSUME NEW x \in Nodes, NEW h \in Nodes, Loops(r2, x, h)' PROVE succ_back_edge[x] = h \/ Unpassed(x, h)'
    <3>1. Loops(r, x, h)
      BY <1>1, <1>7, <1>9, <2>1 DEF Loops
    <3>2. succ_back_edge[x] = h \/ Unpassed(x, h)
      BY <1>4, <3>1 DEF LoopsFound
    <3>3. h \in Elements(succ[x]) \/ succ_back_edge[x] = h
      BY <3>1 DEF Loops, Branch
    <3> QED BY <1>12, <3>2, <3>3
  <2> QED BY <1>1, <1>7, <2>1 DEF LoopsFound
<1>14. BackEdgesLoop(r2)'
  BY <1>1, <1>4, <1>7, <1>9 DEF BackEdgesLoop
<1>15. visits' > 1 => \E back, pback : previous' = <<r2.last.done, back, pback>> /\ BackEdgesAre(r2, D, back, pback)'
  <2>1. visits' > 1 => \E back, pback : previous' = <<r.last.done, back, pback>> /\ BackEdgesAre(r, D, back, pback)'
    BY <1>1, <1>3, <1>4, <1>5, <1>7 DEF BackEdgesAre
  <2>2. visits' > 1 => r2 = r
    BY <1>1, <1>9
  <2> QED BY <2>1, <2>2
<1> QED BY <1>3, <1>7, <1>10, <1>11, <1>12, <1>13, <1>14, <1>15 DEF StableRec

\* The first visit starts a record of all blocks.
LEMMA RecomputeStarts ==
  ASSUME VisitInv, EdgesInv, Recompute, visits = 0
  PROVE  \E r, c, D, X : StableRec(r, c, D, X)'
<1>1. /\ TypeInv' /\ Nodes' = Nodes /\ entry_block \in Nodes /\ Null \notin Nodes
      /\ visited' = {entry_block} /\ stack' = <<Frame(entry_block)>>
      /\ \A n \in Nodes : succ_back_edge'[n] = Null
  BY RecomputeFacts
<1>2. visits' = 1 /\ post_order' = << >>
  BY DEF Recompute
<1>3. PICK X, sc : X = Nodes /\ sc = succ'
  OBVIOUS
<1>4. PICK r : /\ Recorded(r, X, sc, {entry_block}, {Start}) /\ Start \in r.moments
               /\ r.up[entry_block] = Null /\ r.above[entry_block] = {entry_block}
  BY <1>1, <1>3, StartRecord
<1>5. /\ Current(X)' = entry_block /\ PassedVisited' /\ Paths(r, X)' /\ \A h : Unpassed(entry_block, h)'
  <2>1. succ'[entry_block] \in Seq(Nodes)
    BY <1>1 DEF TypeInv
  <2> QED BY <1>1, <1>3, <1>4, <2>1, FirstCallNext
<1>6. Now(r, X, Start)' /\ Start.done = post_order'
  BY <1>1, <1>2, <1>3, <1>4, <1>5 DEF Now, Start
<1>7. LoopsFound(r)'
  BY <1>1, <1>5 DEF LoopsFound, Loops
<1>8. BackEdgesLoop(r)'
  BY <1>1 DEF BackEdgesLoop
<1>9. Recorded(r, X, succ', {entry_block}, IF visits' = 1 THEN {Start} ELSE {})
  BY <1>2, <1>3, <1>4
<1>10. ~ (visits' > 1)
  BY <1>2
<1> QED BY <1>1, <1>3, <1>5, <1>6, <1>7, <1>8, <1>9, <1>10 DEF StableRec

\* A visit that is over has left the blocks of its record, and its back edges are
\* those of the record.
LEMMA VisitOver ==
  ASSUME VisitInv, EdgesInv, phase = "visited", visits >= 1, NEW r, NEW c, NEW D, NEW X, StableRec(r, c, D, X)
  PROVE  /\ Recorded(r, X, succ, D, {}) /\ post_order = r.last.done /\ visited = D
         /\ BackEdgesAre(r, D, succ_back_edge, pred_back_edge)
<1>1. TypeInv /\ ListsInv /\ EndsInv /\ CallInv
  BY DEF VisitInv, EdgesInv
<1>2. Null \notin Nodes
  BY <1>1, BlocksAreNodes DEF TypeInv, ListsInv
<1>3. stack = << >>
  BY <1>1 DEF CallInv
<1>4. /\ X = Nodes /\ Recorded(r, X, succ, D, IF visits = 1 THEN {c} ELSE {})
      /\ Now(r, X, c) /\ c.done = post_order
      /\ LoopsFound(r) /\ BackEdgesLoop(r)
  BY DEF StableRec
<1>5. c \in r.moments /\ c.node = Null /\ c.seen = visited
  BY <1>1, <1>3, <1>4 DEF Now, Current, TypeInv
<1>6. c = r.last /\ visited = D
  BY <1>4, <1>5 DEF Recorded
<1>7. Recorded(r, X, succ, D, {})
  <2>1. PICK made : made = IF visits = 1 THEN {c} ELSE {}
    OBVIOUS
  <2> QED BY <1>4, <1>5, <2>1, CloseRecord
<1>8. \A n, s \in Nodes : succ_back_edge[n] = s <=> n \in D /\ s \in r.above[n] /\ Branch(n, s)
  <2>1. \A n, s : ~ Unpassed(n, s)
    BY <1>3 DEF Unpassed
  <2>2. ASSUME NEW n \in Nodes, NEW s \in Nodes, n \in D, s \in r.above[n], Branch(n, s)
        PROVE  succ_back_edge[n] = s
    BY <1>4, <1>6, <2>1, <2>2 DEF LoopsFound, Loops
  <2>3. ASSUME NEW n \in Nodes, NEW s \in Nodes, succ_back_edge[n] = s
        PROVE  n \in D /\ s \in r.above[n] /\ Branch(n, s)
    BY <1>4, <1>6, <2>3 DEF BackEdgesLoop, Branch
  <2> QED BY <2>2, <2>3
<1>9. BackEdgesAre(r, D, succ_back_edge, pred_back_edge)
  BY <1>1, <1>8 DEF BackEdgesAre, TypeInv, ListsInv, EndsInv
<1> QED BY <1>4, <1>6, <1>7, <1>9

\* The next visit goes by the record that the first one has made.
LEMMA RecomputeGoesOn ==
  ASSUME VisitInv, EdgesInv, Recompute, phase = "visited", visits >= 1,
         NEW r, NEW c, NEW D, NEW X, StableRec(r, c, D, X)
  PROVE  StableRec(r, Start, D, X)'
<1>1. /\ TypeInv /\ TypeInv' /\ Nodes' = Nodes /\ entry_block \in Nodes /\ Null \notin Nodes
      /\ visited' = {entry_block} /\ stack' = <<Frame(entry_block)>>
      /\ \A n \in Nodes : succ'[n] = PushUnlessNull(succ[n], succ_back_edge[n])
      /\ \A n, h \in Nodes : Branch(n, h)' <=> Branch(n, h)
      /\ \A n \in Nodes : succ_back_edge'[n] = Null
  BY RecomputeFacts
<1>2. visits' > 1 /\ visits' # 1 /\ post_order' = << >> /\ previous' = Result
  <2>1. visits \in Nat
    BY CVConstants DEF EdgesInv, ListsInv
  <2> QED BY <2>1 DEF Recompute
<1>3. X = Nodes /\ BackEdgesLoop(r)
  BY DEF StableRec
<1>4. /\ Recorded(r, X, succ, D, {}) /\ post_order = r.last.done
      /\ BackEdgesAre(r, D, succ_back_edge, pred_back_edge)
  BY VisitOver
<1>5. D \subseteq X /\ Start \in r.moments /\ r.up[entry_block] = Null /\ r.above[entry_block] = {entry_block}
  BY <1>4 DEF Recorded
<1>6. Recorded(r, X, succ', D, IF visits' = 1 THEN {Start} ELSE {})
  <2>1. ASSUME NEW n \in D PROVE KeepsOrder(succ[n], succ'[n], X \ r.above[n])
    <3>1. n \in Nodes /\ succ[n] \in Seq(Nodes) /\ succ_back_edge[n] \in Nodes \cup {Null}
      BY <1>1, <1>3, <1>5, <2>1 DEF TypeInv
    <3>2. succ_back_edge[n] \notin X \ r.above[n]
      BY <1>3, <3>1 DEF BackEdgesLoop
    <3>3. KeepsOrder(succ[n], PushUnlessNull(succ[n], succ_back_edge[n]), X \ r.above[n])
      BY <3>1, <3>2, PushKeeps
    <3> QED BY <1>1, <3>1, <3>3
  <2>2. Recorded(r, X, succ', D, {})
    BY <1>4, <2>1, RecordKept
  <2> QED BY <1>2, <2>2
<1>7. /\ Current(X)' = entry_block /\ PassedVisited' /\ Paths(r, X)' /\ \A h : Unpassed(entry_block, h)'
  <2>1. succ'[entry_block] \in Seq(Nodes)
    BY <1>1 DEF TypeInv
  <2> QED BY <1>1, <1>3, <1>5, <2>1, FirstCallNext
<1>8. Now(r, X, Start)' /\ Start.done = post_order'
  BY <1>1, <1>2, <1>3, <1>5, <1>7 DEF Now, Start
<1>9. LoopsFound(r)'
  BY <1>1, <1>7 DEF LoopsFound, Loops
<1>10. BackEdgesLoop(r)'
  BY <1>1 DEF BackEdgesLoop
<1>11. \E back, pback : previous' = <<r.last.done, back, pback>> /\ BackEdgesAre(r, D, back, pback)'
  <2>1. PICK back, pback : back = succ_back_edge /\ pback = pred_back_edge
    OBVIOUS
  <2>2. BackEdgesAre(r, D, back, pback)
    BY <1>4, <2>1 DEF BackEdgesAre
  <2>3. BackEdgesAre(r, D, back, pback)'
    BY <1>1, <2>2 DEF BackEdgesAre
  <2>4. previous' = <<r.last.done, back, pback>>
    BY <1>2, <1>4, <2>1 DEF Result
  <2> QED BY <2>3, <2>4
<1> QED BY <1>1, <1>3, <1>6, <1>7, <1>8, <1>9, <1>10, <1>11 DEF StableRec

\* Two visits that go by one record have one result.
LEMMA ResultsAgree ==
  ASSUME VisitInv, EdgesInv, phase = "visited", visits > 1, NEW r, NEW c, NEW D, NEW X, StableRec(r, c, D, X)
  PROVE  Result = previous
<1>1. visits >= 1
  BY CVConstants DEF EdgesInv, ListsInv
<1>2. post_order = r.last.done /\ BackEdgesAre(r, D, succ_back_edge, pred_back_edge)
  BY <1>1, VisitOver
<1>3. PICK back, pback : previous = <<r.last.done, back, pback>> /\ BackEdgesAre(r, D, back, pback)
  BY DEF StableRec
<1>4. Null \notin Nodes
  BY BlocksAreNodes DEF VisitInv, EdgesInv, TypeInv, ListsInv
<1>5. \A n, s \in Nodes : /\ succ_back_edge[n] = s <=> back[n] = s
                          /\ pred_back_edge[s] = n <=> pback[s] = n
  BY <1>2, <1>3 DEF BackEdgesAre
<1>6. /\ succ_back_edge \in [Nodes -> Nodes \cup {Null}] /\ pred_back_edge \in [Nodes -> Nodes \cup {Null}]
      /\ back \in [Nodes -> Nodes \cup {Null}] /\ pback \in [Nodes -> Nodes \cup {Null}]
  BY <1>2, <1>3 DEF BackEdgesAre
<1>7. \A n \in Nodes : succ_back_edge[n] = back[n] /\ pred_back_edge[n] = pback[n]
  BY <1>4, <1>5, <1>6
<1>8. succ_back_edge = back /\ pred_back_edge = pback
  BY <1>6, <1>7
<1> QED BY <1>2, <1>3, <1>8 DEF Result

-----------------------------------------------------------------------------
(* All traversals go by records.                                           *)

\* The analysis makes a record of the function, which the visits go by; and the first
\* visit makes one of all blocks, which the other visits go by.
RecordInv ==
  /\ phase # "header has two back edges"
  /\ phase = "analysis" => visits = 0 /\ \E r, c : AnalysisRec(r, c)
  /\ phase \in {"visit", "visited"} =>
       visits >= 1 /\ (\E r, c, D : VisitRec(r, c, D)) /\ \E r, c, D, X : StableRec(r, c, D, X)

\* The actions of the analysis.
LEMMA AnalysisRecords ==
  ASSUME VisitInv, EdgesInv, RecordInv, phase = "analysis",
         VisitSucc \/ RecordBackEdge \/ ReturnFromAnalysis
  PROVE  RecordInv'
<1>1. PICK r, c : AnalysisRec(r, c)
  BY DEF RecordInv
<1>2. \E r2, c2 : AnalysisRec(r2, c2)'
  BY <1>1, VisitSuccAnalysis, RecordBackEdgeAnalysis, ReturnFromAnalysisRecord
<1>3. phase' = "analysis" /\ visits' = visits
  BY DEF VisitSucc, RecordBackEdge, ReturnFromAnalysis
<1> QED BY <1>2, <1>3 DEF RecordInv

\* The actions of a visit.
LEMMA VisitRecords ==
  ASSUME VisitInv, EdgesInv, RecordInv, phase = "visit",
         VisitSucc \/ VisitBackEdge \/ ReturnFromVisit
  PROVE  RecordInv'
<1>1. visits >= 1
  BY DEF RecordInv
<1>2. PICK r, c, D : VisitRec(r, c, D)
  BY DEF RecordInv
<1>3. PICK r3, c3, D3, X : StableRec(r3, c3, D3, X)
  BY DEF RecordInv
<1>4. CASE VisitSucc
  <2>1. phase' = "visit" /\ visits' = visits
    BY <1>4 DEF VisitSucc
  <2>2. \E c2 : VisitRec(r, c2, D)'
    BY <1>2, <1>4, VisitSuccVisit
  <2>3. \E r2, c2, D2 : StableRec(r2, c2, D2, X)'
    BY <1>1, <1>3, <1>4, VisitSuccStable
  <2> QED BY <1>1, <2>1, <2>2, <2>3 DEF RecordInv
<1>5. CASE VisitBackEdge
  <2>1. /\ phase' \in {"visit", "block has two back edges", "header has two back edges"}
        /\ visits' = visits
    BY <1>5 DEF VisitBackEdge
  <2>2. phase' # "header has two back edges" /\ (phase' = "visit" => VisitRec(r, c, D)')
    BY <1>2, <1>5, VisitBackEdgeVisit
  <2>3. phase' = "visit" => StableRec(r3, c3, D3, X)'
    BY <1>1, <1>3, <1>5, VisitBackEdgeStable
  <2> QED BY <1>1, <2>1, <2>2, <2>3 DEF RecordInv
<1>6. CASE ReturnFromVisit
  <2>1. phase' \in {"visit", "visited"} /\ visits' = visits
    BY <1>6 DEF ReturnFromVisit
  <2>2. \E c2 : VisitRec(r, c2, D)'
    BY <1>2, <1>6, ReturnFromVisitVisit
  <2>3. \E r2, c2 : StableRec(r2, c2, D3, X)'
    BY <1>1, <1>3, <1>6, ReturnFromVisitStable
  <2> QED BY <1>1, <2>1, <2>2, <2>3 DEF RecordInv
<1> QED BY <1>4, <1>5, <1>6

\* recompute_cfg.
LEMMA RecomputeRecords ==
  ASSUME VisitInv, EdgesInv, RecordInv, Recompute
  PROVE  RecordInv'
<1>1. phase' = "visit" /\ visits' = visits + 1 /\ visits \in Nat
  <2>1. visits \in Nat
    <3>1. visits \in 0 .. MaxVisits
      BY DEF EdgesInv, ListsInv
    <3> QED BY <3>1, CVConstants
  <2>2. phase' = "visit" /\ visits' = visits + 1
    BY DEF Recompute
  <2> QED BY <2>1, <2>2
<1>2. CASE phase = "analysis"
  <2>1. PICK r, c : AnalysisRec(r, c)
    BY <1>2 DEF RecordInv
  <2>2. PICK D : D = visited
    OBVIOUS
  <2>3. VisitRec(r, Start, D)'
    BY <1>2, <2>1, <2>2, RecomputeFromAnalysis
  <2>4. visits = 0
    BY <1>2 DEF RecordInv
  <2>5. \E r2, c2, D2, X : StableRec(r2, c2, D2, X)'
    BY <2>4, RecomputeStarts
  <2>6. visits' >= 1
    BY <1>1
  <2> QED BY <1>1, <2>3, <2>5, <2>6 DEF RecordInv
<1>3. CASE phase = "visited"
  <2>1. PICK r, c, D : VisitRec(r, c, D)
    BY <1>3 DEF RecordInv
  <2>2. PICK r3, c3, D3, X : StableRec(r3, c3, D3, X)
    BY <1>3 DEF RecordInv
  <2>3. VisitRec(r, Start, D)'
    BY <2>1, RecomputeFromVisit
  <2>4. StableRec(r3, Start, D3, X)'
    BY <1>3, <2>2, RecomputeGoesOn DEF RecordInv
  <2>5. visits' >= 1
    BY <1>1
  <2> QED BY <1>1, <2>3, <2>4, <2>5 DEF RecordInv
<1> QED BY <1>2, <1>3 DEF Recompute

\* Nothing changes.
LEMMA StutterRecords == RecordInv /\ UNCHANGED visitVars => RecordInv'
<1> SUFFICES ASSUME RecordInv, UNCHANGED visitVars PROVE RecordInv'
  OBVIOUS
<1>1. /\ UNCHANGED <<phase, visits, num_nodes, succ, succ_back_edge, pred_back_edge, fake_pred,
                     visited, stack, post_order, previous>>
  BY DEF visitVars, graphVars, backEdgeVars
<1>2. /\ Nodes' = Nodes /\ Traversing' = Traversing
      /\ \A a, b : Branch(a, b)' <=> Branch(a, b)
      /\ \A x, h : Unpassed(x, h)' <=> Unpassed(x, h)
      /\ \A h : Elements(fake_pred[h])' = Elements(fake_pred[h])
  BY <1>1 DEF Nodes, Traversing, Branch, Unpassed, BranchPassed, Elements
<1>3. ASSUME NEW r, NEW X
      PROVE  /\ PassedVisited' <=> PassedVisited
             /\ Paths(r, X)' <=> Paths(r, X)
             /\ \A c : Now(r, X, c)' <=> Now(r, X, c)
  BY <1>1 DEF PassedVisited, Paths, Now, Current, Top
<1>4. ASSUME NEW r
      PROVE  /\ \A x, h : Loops(r, x, h)' <=> Loops(r, x, h)
             /\ \A D, x, h : Latch(r, D, x, h)' <=> Latch(r, D, x, h)
  BY <1>1, <1>2 DEF Loops, Latch
<1>5. ASSUME NEW r, NEW c, AnalysisRec(r, c) PROVE AnalysisRec(r, c)'
  <2>1. /\ Recorded(r, Blocks, succ, visited, {c}) /\ Now(r, Blocks, c) /\ Paths(r, Blocks) /\ PassedVisited
        /\ MergedAbove(r, visited) /\ LatchesAbove(r) /\ LoopsNoted(r) /\ MergesReturned
        /\ OneLatch(r, visited, visited \ Traversing)
    BY <1>5 DEF AnalysisRec
  <2>2. Now(r, Blocks, c)' /\ Paths(r, Blocks)' /\ PassedVisited'
    BY <1>3, <2>1
  <2>3. Recorded(r, Blocks, succ, visited, {c})'
    BY <1>1, <2>1
  <2>4. MergedAbove(r, visited)'
    BY <1>1, <1>2, <2>1 DEF MergedAbove
  <2>5. LatchesAbove(r)'
    BY <1>1, <1>2, <2>1 DEF LatchesAbove
  <2>6. LoopsNoted(r)'
    BY <1>2, <1>4, <2>1 DEF LoopsNoted
  <2>7. MergesReturned'
    BY <1>1, <1>2, <2>1 DEF MergesReturned
  <2>8. OneLatch(r, visited, visited \ Traversing)'
    BY <1>1, <1>2, <1>4, <2>1 DEF OneLatch
  <2> QED BY <2>2, <2>3, <2>4, <2>5, <2>6, <2>7, <2>8 DEF AnalysisRec
<1>6. ASSUME NEW r, NEW c, NEW D, VisitRec(r, c, D) PROVE VisitRec(r, c, D)'
  <2>1. /\ Recorded(r, Blocks, succ, D, {}) /\ Now(r, Blocks, c) /\ Paths(r, Blocks) /\ PassedVisited
        /\ MergedAbove(r, D) /\ OneLatch(r, D, Nodes) /\ BackEdgesLatch(r, D) /\ MergesOnTop /\ CallsBranch
    BY <1>6 DEF VisitRec
  <2>2. Now(r, Blocks, c)' /\ Paths(r, Blocks)' /\ PassedVisited'
    BY <1>3, <2>1
  <2>3. Recorded(r, Blocks, succ, D, {})'
    BY <1>1, <2>1
  <2>4. MergedAbove(r, D)'
    BY <1>2, <2>1 DEF MergedAbove
  <2>5. OneLatch(r, D, Nodes)'
    BY <1>2, <1>4, <2>1 DEF OneLatch
  <2>6. BackEdgesLatch(r, D)'
    BY <1>1, <1>2, <1>4, <2>1 DEF BackEdgesLatch
  <2>7. MergesOnTop' /\ CallsBranch'
    BY <1>1, <1>2, <2>1 DEF MergesOnTop, CallsBranch
  <2> QED BY <2>2, <2>3, <2>4, <2>5, <2>6, <2>7 DEF VisitRec
<1>7. ASSUME NEW r, NEW c, NEW D, NEW X, StableRec(r, c, D, X) PROVE StableRec(r, c, D, X)'
  <2>1. /\ X = Nodes /\ Recorded(r, X, succ, D, IF visits = 1 THEN {c} ELSE {})
        /\ Now(r, X, c) /\ c.done = post_order /\ Paths(r, X) /\ PassedVisited
        /\ LoopsFound(r) /\ BackEdgesLoop(r)
        /\ visits > 1 => \E back, pback : previous = <<r.last.done, back, pback>> /\ BackEdgesAre(r, D, back, pback)
    BY <1>7 DEF StableRec
  <2>2. Now(r, X, c)' /\ Paths(r, X)' /\ PassedVisited'
    BY <1>3, <2>1
  <2>3. Recorded(r, X, succ', D, IF visits' = 1 THEN {c} ELSE {})
    BY <1>1, <2>1
  <2>4. LoopsFound(r)'
    BY <1>1, <1>2, <1>4, <2>1 DEF LoopsFound
  <2>5. BackEdgesLoop(r)'
    BY <1>1, <1>2, <2>1 DEF BackEdgesLoop
  <2>6. visits' > 1 => \E back, pback : previous' = <<r.last.done, back, pback>> /\ BackEdgesAre(r, D, back, pback)'
    BY <1>1, <1>2, <2>1 DEF BackEdgesAre
  <2> QED BY <1>1, <1>2, <2>1, <2>2, <2>3, <2>4, <2>5, <2>6 DEF StableRec
<1> QED BY <1>1, <1>5, <1>6, <1>7 DEF RecordInv

\* Every traversal goes by a record.
THEOREM RecordsInvariant == CVSpec => []RecordInv
<1>1. CVInit => RecordInv
  BY AnalysisStarts DEF CVInit, FunctionInit, RecordInv
<1>2. VisitInv /\ EdgesInv /\ RecordInv /\ [CVNext]_visitVars => RecordInv'
  <2> SUFFICES ASSUME VisitInv, EdgesInv, RecordInv, [CVNext]_visitVars PROVE RecordInv'
    OBVIOUS
  <2>1. CASE VisitSucc
    <3>1. phase \in {"analysis", "visit"}
      BY <2>1 DEF VisitSucc
    <3> QED BY <2>1, <3>1, AnalysisRecords, VisitRecords
  <2>2. CASE RecordBackEdge
    <3>1. phase = "analysis"
      BY <2>2 DEF RecordBackEdge
    <3> QED BY <2>2, <3>1, AnalysisRecords
  <2>3. CASE ReturnFromAnalysis
    <3>1. phase = "analysis"
      BY <2>3 DEF ReturnFromAnalysis
    <3> QED BY <2>3, <3>1, AnalysisRecords
  <2>4. CASE Recompute
    BY <2>4, RecomputeRecords
  <2>5. CASE VisitBackEdge
    <3>1. phase = "visit"
      BY <2>5 DEF VisitBackEdge
    <3> QED BY <2>5, <3>1, VisitRecords
  <2>6. CASE ReturnFromVisit
    <3>1. phase = "visit"
      BY <2>6 DEF ReturnFromVisit
    <3> QED BY <2>6, <3>1, VisitRecords
  <2>7. CASE UNCHANGED visitVars
    BY <2>7, StutterRecords
  <2> QED BY <2>1, <2>2, <2>3, <2>4, <2>5, <2>6, <2>7 DEF CVNext
<1> QED BY <1>1, <1>2, VisitInvariant, EdgesInvariant, PTL DEF CVSpec

\* A traversal, repeated at will, leaves the function what it was: a block that
\* merges back edges leaves each header a single one, every branch is recorded at
\* both of its ends, no branch of the function is lost, and each traversal finds
\* the order and the back edges of the one before (run, recompute_cfg).
THEOREM TraversalsAreSound == CVSpec => []TraversalsSound
<1>1. VisitInv /\ EdgesInv /\ RecordInv => TraversalsSound
  <2> SUFFICES ASSUME VisitInv, EdgesInv, RecordInv PROVE TraversalsSound
    OBVIOUS
  <2>1. CVTypeOK /\ EdgesHaveTwoEnds /\ BranchesPreserved
    BY EdgesProperties
  <2>2. OneBackEdgePerHeader
    BY DEF RecordInv, OneBackEdgePerHeader
  <2>3. RecomputeIsStable
    BY ResultsAgree DEF RecordInv, RecomputeIsStable
  <2> QED BY <2>1, <2>2, <2>3 DEF TraversalsSound
<1> QED BY <1>1, VisitInvariant, EdgesInvariant, RecordsInvariant, PTL

=============================================================================
