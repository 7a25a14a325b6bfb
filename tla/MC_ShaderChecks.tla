--------------------------- MODULE MC_ShaderChecks --------------------------
(* The two checks that are made before a shader uses a descriptor or an    *)
(* address, side by side: in a behaviour one of them runs and the other    *)
(* stays in its initial state.                                             *)
EXTENDS DescriptorQA, BDAValidate, TLC

VARIABLE running

\* Invocations are interchangeable.
InvocationSymmetry == Permutations(Accessors)

MCAccess(w, f, l, o) ==
  [window |-> w, first |-> f, len |-> l, op |-> o, in_bounds |-> TRUE]

\* Every operation on the first word, plus partial and disjoint overlaps, a
\* second window, and an access out of bounds.
MCAccesses ==
  {MCAccess("w1", 0, 2, o) : o \in Ops}
  \cup {MCAccess("w1", 1, 2, "Store"), MCAccess("w2", 0, 1, "Store")}
  \cup {[MCAccess("w1", 0, 1, "Store") EXCEPT !.in_bounds = FALSE]}

\* The windows share the cell of their first hash and differ in the second.
\* With BufferLen = 6 a hash is taken modulo 4 and offset by 1.
MCAddrHash ==
  [p \in {"w1", "w2"} \X {0, 1} |->
     IF p[2] = 0 THEN 4 ELSE IF p[1] = "w1" THEN 1 ELSE 3]

ChecksInit == QAInit /\ BDAInit /\ running \in {"descriptors", "accesses"}

DescriptorStep == running = "descriptors" /\ QANext /\ UNCHANGED <<running, bdaVars>>
AccessStep == running = "accesses" /\ BDANext /\ UNCHANGED <<running, vars>>

ChecksSpec == ChecksInit /\ [][DescriptorStep \/ AccessStep]_<<running, vars, bdaVars>>

=============================================================================
