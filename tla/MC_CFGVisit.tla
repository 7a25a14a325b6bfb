---------------------------- MODULE MC_CFGVisit -----------------------------
(* Small instances of CFGVisit for TLC: the functions that the runs of the *)
(* CFG modules start from.                                                 *)
EXTENDS CFGVisit, FiniteSetsExt

\* Lists of at most k different blocks of a set.
SuccLists(bs, k) ==
  UNION {{s \in [1 .. n -> bs] : \A i, j \in 1 .. n : s[i] = s[j] => i = j} : n \in 0 .. k}

\* The functions with at most two branches per block.
Functions2 == [Blocks -> SuccLists(Blocks \ {entry_block}, 2)]

\* Where the lists of branches first mention a block.
FirstMention(sc, b) ==
  LET At == {<<n, i>> \in (DOMAIN sc) \X {1, 2} : i \in DOMAIN sc[n] /\ sc[n][i] = b}
  IN  Min({2 * p[1] + p[2] : p \in At})

Mentioned(sc, b) == \E n \in DOMAIN sc : n < b /\ b \in Elements(sc[n])

\* The blocks up to k are numbered in the order of their first mention.
NumberedUpTo(sc, k) ==
  /\ \A b \in 2 .. k : Mentioned(sc, b)
  /\ \A b \in 2 .. k - 1 : FirstMention(sc, b) < FirstMention(sc, b + 1)

\* The largest block that the branches of the blocks of sc mention.
LastMention(sc) == Max({entry_block} \cup UNION {Elements(sc[n]) : n \in DOMAIN sc})

\* The first n blocks of the functions in which the entry block reaches every
\* block: what they mention is numbered in order and goes past block n.
Prefixes[n \in 0 .. NumBlocks] ==
  IF n = 0 THEN {<< >>}
  ELSE {sc \in {Append(p, s) : p \in Prefixes[n - 1],
                               s \in SuccLists(Blocks \ {entry_block}, 2)} :
          /\ LastMention(sc) > n \/ LastMention(sc) = NumBlocks
          /\ NumberedUpTo(sc, LastMention(sc))}

\* Every function in which the entry block reaches every block, up to the names
\* of the blocks.
ConnectedFunctions == Prefixes[NumBlocks]

=============================================================================
