------------------------- MODULE RaysAndViews_proofs -------------------------
(***************************************************************************)
(* Proofs about the opcodes that need variables of their own: RayPayloads, *)
(* RayObjects and ViewInstancing.                                          *)
(*                                                                         *)
(* Payloads.  As long as the analysis gives an alloca of its own to what   *)
(* needs its storage class, a copy is made for every other class a call    *)
(* wants, and what the last call wrote is brought back before the alloca   *)
(* is read again (RPInv).                                                  *)
(*                                                                         *)
(* Hit objects.  The analysis of the phis leaves every incoming value in   *)
(* the variable of its phi (AnalysisShares), so that the newest object,    *)
(* wherever phis have carried it, lies in the variable of each value that  *)
(* is still it (Following).  Queries that share a variable leave the last  *)
(* trace in it (QueriesOK), and objects are made from what is in the       *)
(* variables (SourcesOK).                                                  *)
(*                                                                         *)
(* Views.  What is written so far belongs to the view that is drawn, and   *)
(* what was drawn went where its view belongs (VIInv).                     *)
(***************************************************************************)
EXTENDS RayPayloads, RayObjects, ViewInstancing, TLAPS

-----------------------------------------------------------------------------
(* Payloads.                                                               *)

\* An operation that does not bring the variable back, or never copies it, is
\* right only on a variable that has its class.
NeedsItsClass(op) == ~ op.copies \/ (op.writes /\ ~ op.resolves)

\* The hypothesis: such operations share their alloca with calls of their class only.
OwnAllocas == \A k \in Kinds : NeedsItsClass(Emitted[k]) => k \in Private

Calls == [kind : Kinds, var : Vars]
ClassOf(i) == Emitted[rayCalls[i].kind].class
IsPrivate(i) == rayCalls[i].kind \in Private

\* The calls the analysis has looked at.
Analysed ==
  IF rayPhase = "write" THEN {}
  ELSE {i \in 1 .. Len(rayCalls) : rayPhase = "run" \/ i < rayAt}

RPTypeOK ==
  /\ rayCalls \in Seq(Calls) /\ rayPhase \in {"write", "analyse", "run"} /\ rayAt \in Nat \ {0}
  /\ storage \in [Allocas -> Classes \cup {"Function"}] /\ copied \subseteq Allocas
  /\ source \in [Vars -> Nat] /\ memory \in [Vars -> Nat]

\* What the shader is written to.
CallsOK ==
  \A i \in 1 .. Len(rayCalls) :
    /\ IsPrivate(i) => rayCalls[i].var \in Allocas
    /\ IsPrivate(i) => \A j \in 1 .. Len(rayCalls) :
                         rayCalls[j].var = rayCalls[i].var => ClassOf(j) = ClassOf(i)

\* What the analysis knows of an alloca: a class of one of its calls, which is the
\* class of all of them unless the alloca is marked.
StorageOK ==
  /\ \A v \in Allocas : storage[v] # "Function" =>
       \E i \in Analysed : rayCalls[i].var = v /\ ClassOf(i) = storage[v]
  /\ \A v \in copied : \E i, j \in Analysed :
       rayCalls[i].var = v /\ rayCalls[j].var = v /\ ClassOf(i) # ClassOf(j)
  /\ \A i \in Analysed :
       rayCalls[i].var \in Allocas =>
         rayCalls[i].var \in copied \/ storage[rayCalls[i].var] = ClassOf(i)

RPInv == RPTypeOK /\ CallsOK /\ StorageOK /\ PayloadsKept

LEMMA Operations ==
  \A k \in Kinds : /\ Emitted[k].class \in Classes /\ Emitted[k].copies \in BOOLEAN
                   /\ Emitted[k].resolves \in BOOLEAN /\ Emitted[k].writes \in BOOLEAN
<1> DEFINE Op == [class : Classes, copies : BOOLEAN, resolves : BOOLEAN, writes : BOOLEAN]
<1>1. /\ EmitTraceRay \in Op /\ EmitHitObjectTraceRay \in Op /\ EmitHitObjectInvoke \in Op
      /\ EmitCallShader \in Op /\ EmitHitObjectAttributes \in Op
      /\ EmitFromRayQueryWithAttrs \in Op
  BY DEF Classes, Operation, EmitTraceRay, EmitHitObjectTraceRay, EmitHitObjectInvoke,
         EmitCallShader, EmitHitObjectAttributes, EmitFromRayQueryWithAttrs
<1>2. /\ EmitNvapiTraceRay \in Op /\ EmitNvapiInvoke \in Op /\ EmitNvapiMakeHit \in Op
      /\ EmitNvapiAttributes \in Op
  BY DEF Classes, Operation, EmitNvapiTraceRay, EmitNvapiInvoke, EmitNvapiMakeHit,
         EmitNvapiAttributes
<1>3. \A k \in Kinds : Emitted[k] \in Op
  <2> HIDE DEF Op
  <2> QED BY <1>1, <1>2 DEF Kinds, Emitted
<1> QED BY <1>3

LEMMA CallFields ==
  ASSUME RPTypeOK, NEW i \in 1 .. Len(rayCalls)
  PROVE  /\ rayCalls[i].kind \in Kinds /\ rayCalls[i].var \in Vars
         /\ ClassOf(i) \in Classes /\ ClassOf(i) # "Function"
<1>1. rayCalls[i] \in Calls
  BY DEF RPTypeOK
<1>2. rayCalls[i].kind \in Kinds /\ rayCalls[i].var \in Vars
  BY <1>1 DEF Calls
<1> QED BY <1>2, Operations DEF ClassOf, Classes

LEMMA RPInitInv == RPInit => RPInv
<1> SUFFICES ASSUME RPInit PROVE RPInv
  OBVIOUS
<1> USE DEF RPInit
<1>1. RPTypeOK
  <2>1. storage \in [Allocas -> Classes \cup {"Function"}]
    BY Zenon
  <2>2. source \in [Vars -> Nat] /\ memory \in [Vars -> Nat]
    OBVIOUS
  <2>3. rayCalls \in Seq(Calls) /\ rayAt \in Nat \ {0} /\ copied \subseteq Allocas
    OBVIOUS
  <2> QED BY <2>1, <2>2, <2>3 DEF RPTypeOK
<1>2. CallsOK
  BY DEF CallsOK
<1>3. StorageOK
  BY DEF StorageOK, Analysed
<1> QED BY <1>1, <1>2, <1>3 DEF RPInv, PayloadsKept

LEMMA WriteRayCallInv == RPInv /\ WriteRayCall => RPInv'
<1> SUFFICES ASSUME RPInv, WriteRayCall PROVE RPInv'
  OBVIOUS
<1> USE DEF RPInv
<1> DEFINE n == Len(rayCalls)
<1>1. PICK kind \in Kinds, v \in Vars :
        /\ kind \in Private => v \in Allocas
        /\ \A i \in 1 .. n : rayCalls[i].var = v /\ {kind, rayCalls[i].kind} \cap Private # {}
                               => Emitted[kind].class = Emitted[rayCalls[i].kind].class
        /\ rayCalls' = Append(rayCalls, [kind |-> kind, var |-> v])
  BY DEF WriteRayCall
<1>2. /\ rayPhase = "write" /\ rayPhase' = "write" /\ rayAt' = rayAt
      /\ UNCHANGED <<storage, copied, source, memory, misplaced, misread>>
  BY DEF WriteRayCall
<1>3. [kind |-> kind, var |-> v] \in Calls /\ rayCalls \in Seq(Calls) /\ n \in Nat
  BY DEF Calls, RPTypeOK
<1>4. /\ rayCalls' \in Seq(Calls) /\ Len(rayCalls') = n + 1
      /\ rayCalls'[n + 1].kind = kind /\ rayCalls'[n + 1].var = v
      /\ \A i \in 1 .. n : rayCalls'[i] = rayCalls[i]
  BY <1>1, <1>3
<1>5. RPTypeOK'
  BY <1>2, <1>4 DEF RPTypeOK
<1>6. ASSUME NEW i \in 1 .. Len(rayCalls'), NEW j \in 1 .. Len(rayCalls')
      PROVE  /\ IsPrivate(i)' => rayCalls'[i].var \in Allocas
             /\ IsPrivate(i)' /\ rayCalls'[j].var = rayCalls'[i].var => ClassOf(j)' = ClassOf(i)'
  <2>1. (i \in 1 .. n \/ i = n + 1) /\ (j \in 1 .. n \/ j = n + 1)
    BY <1>3, <1>4
  <2>2. CASE i \in 1 .. n /\ j \in 1 .. n
    BY <1>4, <2>2 DEF CallsOK, IsPrivate, ClassOf
  <2>3. CASE i \in 1 .. n /\ j = n + 1
    BY <1>1, <1>4, <2>3 DEF CallsOK, IsPrivate, ClassOf
  <2>4. CASE i = n + 1 /\ j \in 1 .. n
    BY <1>1, <1>4, <2>4 DEF IsPrivate, ClassOf
  <2>5. CASE i = n + 1 /\ j = n + 1
    BY <1>1, <1>4, <2>5 DEF IsPrivate
  <2> QED BY <2>1, <2>2, <2>3, <2>4, <2>5
<1>7. CallsOK'
  BY <1>6 DEF CallsOK
<1>8. Analysed = {} /\ Analysed' = {}
  BY <1>2 DEF Analysed
<1>9. StorageOK'
  BY <1>2, <1>8 DEF StorageOK
<1> QED BY <1>2, <1>5, <1>7, <1>9 DEF PayloadsKept

LEMMA AnalyseInv == RPInv /\ UpdateStorageClass => RPInv'
<1> SUFFICES ASSUME RPInv, UpdateStorageClass PROVE RPInv'
  OBVIOUS
<1> USE DEF RPInv
<1> DEFINE v == rayCalls[rayAt].var
<1>1. /\ rayPhase = "analyse" /\ rayPhase' = "analyse" /\ rayAt \in 1 .. Len(rayCalls)
      /\ rayAt' = rayAt + 1 /\ rayCalls' = rayCalls
      /\ UNCHANGED <<source, memory, misplaced, misread>>
  BY DEF UpdateStorageClass, RPTypeOK
<1>2. Wanted = ClassOf(rayAt) /\ ClassOf(rayAt) \in Classes /\ ClassOf(rayAt) # "Function"
  BY <1>1, CallFields DEF Wanted, RayCall, ClassOf
<1>3. /\ Analysed' = Analysed \cup {rayAt}
      /\ \A i : ClassOf(i)' = ClassOf(i)
      /\ \A i : IsPrivate(i)' = IsPrivate(i)
  <2>1. \A i : ClassOf(i)' = ClassOf(i) /\ IsPrivate(i)' = IsPrivate(i)
    BY <1>1 DEF ClassOf, IsPrivate
  <2>2. Analysed' = Analysed \cup {rayAt}
    <3>1. Len(rayCalls) \in Nat /\ rayAt \in 1 .. Len(rayCalls)
      BY <1>1 DEF RPTypeOK
    <3> QED BY <1>1, <3>1 DEF Analysed
  <2> QED BY <2>1, <2>2
<1>4. \/ v \notin Allocas /\ UNCHANGED <<storage, copied>>
      \/ /\ v \in Allocas /\ storage[v] # "Function" /\ storage[v] # ClassOf(rayAt)
         /\ storage' = [storage EXCEPT ![v] = "Function"] /\ copied' = copied \cup {v}
      \/ /\ v \in copied /\ UNCHANGED <<storage, copied>>
      \/ /\ v \in Allocas /\ v \notin copied /\ copied' = copied
         /\ storage[v] = "Function" \/ storage[v] = ClassOf(rayAt)
         /\ storage' = [storage EXCEPT ![v] = ClassOf(rayAt)]
  BY <1>2 DEF UpdateStorageClass, RayCall, Conflict
<1>5. RPTypeOK'
  <2>1. /\ storage \in [Allocas -> Classes \cup {"Function"}] /\ copied \subseteq Allocas
        /\ rayAt \in Nat /\ ClassOf(rayAt) \in Classes
    BY <1>2 DEF RPTypeOK
  <2>2. storage' \in [Allocas -> Classes \cup {"Function"}] /\ copied' \subseteq Allocas
    BY <1>4, <2>1
  <2> QED BY <1>1, <2>1, <2>2 DEF RPTypeOK
<1>6. CallsOK'
  BY <1>1, <1>3 DEF CallsOK
<1>7. StorageOK'
  <2>1. CASE UNCHANGED <<storage, copied>> /\ (v \notin Allocas \/ v \in copied)
    BY <1>1, <1>3, <2>1 DEF StorageOK
  <2>2. CASE /\ v \in Allocas /\ storage[v] # "Function" /\ storage[v] # ClassOf(rayAt)
             /\ storage' = [storage EXCEPT ![v] = "Function"] /\ copied' = copied \cup {v}
    <3>1. /\ storage'[v] = "Function" /\ \A w \in Allocas : w # v => storage'[w] = storage[w]
      BY <2>2 DEF RPTypeOK
    <3>2. \E i, j \in Analysed' :
            rayCalls[i].var = v /\ rayCalls[j].var = v /\ ClassOf(i) # ClassOf(j)
      BY <1>3, <2>2 DEF StorageOK
    <3> HIDE DEF v
    <3>3. \A w \in copied' : \E i, j \in Analysed' :
            rayCalls[i].var = w /\ rayCalls[j].var = w /\ ClassOf(i) # ClassOf(j)
      BY <1>3, <2>2, <3>2 DEF StorageOK
    <3>4. \A w \in Allocas : storage'[w] # "Function" =>
            \E i \in Analysed' : rayCalls[i].var = w /\ ClassOf(i) = storage'[w]
      BY <1>3, <3>1 DEF StorageOK
    <3>5. \A i \in Analysed' : rayCalls[i].var \in Allocas =>
            rayCalls[i].var \in copied' \/ storage'[rayCalls[i].var] = ClassOf(i)
      BY <1>3, <2>2, <3>1 DEF StorageOK, v
    <3> QED BY <1>1, <1>3, <3>3, <3>4, <3>5 DEF StorageOK
  <2>3. CASE /\ v \in Allocas /\ v \notin copied /\ copied' = copied
             /\ storage[v] = "Function" \/ storage[v] = ClassOf(rayAt)
             /\ storage' = [storage EXCEPT ![v] = ClassOf(rayAt)]
    <3>1. /\ storage'[v] = ClassOf(rayAt)
          /\ \A w \in Allocas : w # v => storage'[w] = storage[w]
      BY <2>3 DEF RPTypeOK
    <3>2. \A i \in Analysed : rayCalls[i].var = v => ClassOf(i) = ClassOf(rayAt)
      <4> SUFFICES ASSUME NEW i \in Analysed, rayCalls[i].var = v
                   PROVE  ClassOf(i) = ClassOf(rayAt)
        OBVIOUS
      <4>1. i \in 1 .. Len(rayCalls) /\ storage[v] = ClassOf(i)
        BY <2>3 DEF StorageOK, Analysed
      <4> QED BY <2>3, <4>1, CallFields
    <3>3. rayCalls[rayAt].var = v
      OBVIOUS
    <3> HIDE DEF v
    <3>4. \A w \in Allocas : storage'[w] # "Function" =>
            \E i \in Analysed' : rayCalls[i].var = w /\ ClassOf(i) = storage'[w]
      BY <1>3, <3>1, <3>3 DEF StorageOK
    <3>5. \A i \in Analysed' : rayCalls[i].var \in Allocas =>
            rayCalls[i].var \in copied' \/ storage'[rayCalls[i].var] = ClassOf(i)
      BY <1>3, <2>3, <3>1, <3>2, <3>3 DEF StorageOK
    <3> QED BY <1>1, <1>3, <2>3, <3>4, <3>5 DEF StorageOK
  <2> QED BY <1>4, <2>1, <2>2, <2>3 DEF RPTypeOK
<1> QED BY <1>1, <1>5, <1>6, <1>7 DEF PayloadsKept

LEMMA RunCallInv == OwnAllocas /\ RPInv /\ RunCall => RPInv'
<1> SUFFICES ASSUME OwnAllocas, RPInv, RunCall PROVE RPInv'
  OBVIOUS
<1> USE DEF RPInv
<1> DEFINE op == Emitted[rayCalls[rayAt].kind]
           v == rayCalls[rayAt].var
           temp == op.copies /\ NeedsTempStorageCopy(v)
           after == IF op.writes THEN rayAt ELSE memory[v]
<1>1. /\ rayPhase = "run" /\ rayAt \in 1 .. Len(rayCalls)
      /\ rayAt' = rayAt + 1 /\ UNCHANGED <<rayCalls, rayPhase, storage, copied>>
  BY DEF RunCall, RPTypeOK
<1>2. /\ misplaced' = (misplaced \/ (~temp /\ (v \in Pointers \/ storage[v] # op.class)))
      /\ misread' = (misread \/ memory[v] # source[v])
      /\ source' = [source EXCEPT ![v] = IF op.writes THEN rayAt ELSE @]
      /\ memory' = IF ~temp \/ op.resolves THEN [memory EXCEPT ![v] = after] ELSE memory
  BY DEF RunCall, RayCall
<1>3. /\ rayCalls[rayAt].kind \in Kinds /\ v \in Vars /\ rayAt \in Nat
      /\ op.class = ClassOf(rayAt)
  BY <1>1, CallFields DEF ClassOf, RPTypeOK
<1>4. NeedsItsClass(op) => IsPrivate(rayAt)
  BY <1>3 DEF OwnAllocas, IsPrivate
<1>5. IsPrivate(rayAt) => v \in Allocas /\ v \notin copied
  <2> SUFFICES ASSUME IsPrivate(rayAt) PROVE v \in Allocas /\ v \notin copied
    OBVIOUS
  <2>1. \A j \in 1 .. Len(rayCalls) : rayCalls[j].var = v => ClassOf(j) = ClassOf(rayAt)
    BY <1>1 DEF CallsOK
  <2>2. \A i \in Analysed : i \in 1 .. Len(rayCalls)
    BY DEF Analysed
  <2>3. v \notin copied
    BY <2>1, <2>2 DEF StorageOK
  <2> QED BY <1>1, <2>3 DEF CallsOK
<1>6. v \in Allocas /\ v \notin copied => storage[v] = op.class
  <2>1. rayAt \in Analysed
    BY <1>1 DEF Analysed
  <2> QED BY <1>3, <2>1 DEF StorageOK
<1>7. op.copies \in BOOLEAN /\ op.writes \in BOOLEAN /\ op.resolves \in BOOLEAN
  BY <1>3, Operations
<1> HIDE DEF op, v
<1>8. ~ temp => v \in Allocas /\ v \notin copied
  BY <1>4, <1>5 DEF NeedsItsClass, NeedsTempStorageCopy
<1>9. temp => op.resolves \/ ~ op.writes
  BY <1>4, <1>5, <1>7 DEF NeedsItsClass, NeedsTempStorageCopy
<1>10. memory' = source'
  <2>1. memory = source /\ memory \in [Vars -> Nat]
    BY DEF PayloadsKept, RPTypeOK
  <2>2. CASE op.writes
    BY <1>2, <1>9, <2>1, <2>2
  <2>3. CASE ~ op.writes
    <3>1. source' = source /\ memory' = memory
      BY <1>2, <1>3, <2>1, <2>3
    <3> QED BY <2>1, <3>1
  <2> QED BY <2>2, <2>3
<1>11. PayloadsKept'
  <2>1. ~ misread'
    BY <1>2 DEF PayloadsKept
  <2>2. ~ misplaced'
    BY <1>2, <1>6, <1>8, RPVariables DEF RPVariables, PayloadsKept
  <2> QED BY <1>10, <2>1, <2>2 DEF PayloadsKept
<1>12. RPTypeOK'
  <2>1. source' \in [Vars -> Nat]
    BY <1>2, <1>3 DEF RPTypeOK
  <2> QED BY <1>1, <1>10, <2>1 DEF RPTypeOK
<1>13. CallsOK' /\ StorageOK'
  BY <1>1 DEF CallsOK, StorageOK, Analysed, ClassOf, IsPrivate
<1> QED BY <1>11, <1>12, <1>13

LEMMA NextRayPhaseInv == RPInv /\ NextRayPhase => RPInv'
<1> SUFFICES ASSUME RPInv, NextRayPhase PROVE RPInv'
  OBVIOUS
<1> USE DEF RPInv, NextRayPhase
<1>1. RPTypeOK' /\ PayloadsKept'
  BY DEF RPTypeOK, PayloadsKept
<1>2. CallsOK'
  BY DEF CallsOK, ClassOf, IsPrivate
<1>3. Analysed' = Analysed
  <2>1. CASE rayPhase = "write"
    BY <2>1 DEF Analysed
  <2>2. CASE rayPhase = "analyse" /\ rayAt > Len(rayCalls)
    <3>1. \A i \in 1 .. Len(rayCalls) : i < rayAt
      BY <2>2 DEF RPTypeOK
    <3> QED BY <2>2, <3>1 DEF Analysed
  <2> QED BY <2>1, <2>2
<1>4. StorageOK'
  BY <1>3 DEF StorageOK, ClassOf
<1> QED BY <1>1, <1>2, <1>4

\* As long as operations that leave the result in the temporary, or that cannot go
\* through one, have an alloca of their own, every mixture of calls on the other
\* variables keeps their contents and their classes (update_storage_class,
\* emit_temp_storage_copy, emit_temp_storage_resolve).
THEOREM RPPayloadsKept ==
  ASSUME OwnAllocas PROVE RPSpec => []PayloadsKept
<1>1. RPInit => RPInv
  BY RPInitInv
<1>2. RPInv /\ [RPNext]_rayVars => RPInv'
  <2> SUFFICES ASSUME RPInv, [RPNext]_rayVars PROVE RPInv'
    OBVIOUS
  <2>1. CASE UNCHANGED rayVars
    BY <2>1 DEF rayVars, RPInv, RPTypeOK, CallsOK, StorageOK, Analysed, ClassOf, IsPrivate,
                PayloadsKept
  <2> QED BY <2>1, WriteRayCallInv, AnalyseInv, RunCallInv, NextRayPhaseInv DEF RPNext
<1>3. RPInv => PayloadsKept
  BY DEF RPInv
<1> QED BY <1>1, <1>2, <1>3, PTL DEF RPSpec

-----------------------------------------------------------------------------
(* Hit objects and ray queries.                                            *)

Functions == [p : [E : {"h", "undef"}, M : {"h", "p", "q", "undef"}],
              q : [A : {"h", "p", "a", "undef"}, B : {"h", "p", "b", "undef"}]]

ROTypeOK ==
  /\ incoming \in Functions /\ traced \in [TraceBlocks -> Handles \cup {"none"}]
  /\ newer \in SUBSET Queries
  /\ handle \in Queries /\ consumer \in [Values -> Values \cup {"none"}]
  /\ where \in {"write", "analyse", "rejected", "E", "H", "A", "B", "M", "X"}
  /\ from \in {"E", "H", "A", "B", "M"}
  /\ ssa \in [Values -> Nat] /\ held \in [Values -> Nat] /\ ticks \in Nat /\ newest \in Nat
  /\ queries \in [Queries -> Nat] /\ heap \in [Queries -> Nat] /\ last \in Queries

\* Where control comes from.
FromOK == /\ where = "H" => from \in {"E", "M"}
          /\ where = "M" => from \in TraceBlocks

\* Nothing has run.
Fresh == /\ \A v \in Values : ssa[v] = 0
         /\ \A x \in Queries : queries[x] = 0 /\ heap[x] = 0
         /\ recorded.meant = 0

NotRun == where \in {"write", "analyse"} => Fresh /\ \A v \in Values : consumer[v] = "none"

\* What a phi joins is in the variable of the phi.
SharedVariables ==
  /\ \A v \in Values : VariableOf(v) \in Values
  /\ \A phi \in Phis : \A v \in In(phi) : VariableOf(v) = VariableOf(phi)

\* Analysed: a merge that the loop carries takes a value the loop carries.
Carried == where # "write" => ("q" \in In("p") => "p" \in In("q"))

Following ==
  where \notin {"write", "analyse", "rejected"} =>
    /\ SharedVariables
    /\ \A v \in Values : ssa[v] <= ticks
    /\ \A v \in Values : ssa[v] # 0 /\ ssa[v] = newest => held[VariableOf(v)] = newest

\* Queries that share one variable: the last one is in it.
OneVariable == UsesNonDirectIndexing /\ ~ UsesDivergentHandles

QueriesOK == IF OneVariable THEN heap["q1"] = queries[last] ELSE heap = queries

\* Objects are made from queries whose variable is the operand.
SourcesOK == HeapSources \/ SourcesKept

ROInv == ROTypeOK /\ FromOK /\ NotRun /\ Carried /\ Following /\ QueriesOK /\ SourcesOK

LEMMA InIs ==
  ASSUME incoming \in Functions
  PROVE  /\ In("p") = {incoming["p"]["E"], incoming["p"]["M"]} \ {"undef"}
         /\ In("q") = {incoming["q"]["A"], incoming["q"]["B"]} \ {"undef"}
<1>1. DOMAIN incoming["p"] = {"E", "M"} /\ DOMAIN incoming["q"] = {"A", "B"}
  BY DEF Functions
<1> QED BY <1>1 DEF In

LEMMA InValues ==
  ASSUME incoming \in Functions
  PROVE  /\ In("p") \subseteq {"h", "p", "q"} /\ In("q") \subseteq {"h", "p", "a", "b"}
         /\ \A e \in {"E", "M"} : incoming["p"][e] = "undef" \/ incoming["p"][e] \in In("p")
         /\ \A e \in {"A", "B"} : incoming["q"][e] = "undef" \/ incoming["q"][e] \in In("q")
<1>1. /\ incoming["p"]["E"] \in {"h", "undef"} /\ incoming["p"]["M"] \in {"h", "p", "q", "undef"}
      /\ incoming["q"]["A"] \in {"h", "p", "a", "undef"}
      /\ incoming["q"]["B"] \in {"h", "p", "b", "undef"}
  BY DEF Functions
<1> QED BY <1>1, InIs

\* After the analysis each phi's incoming values live where the phi lives.
LEMMA AnalysisShares ==
  ASSUME incoming \in Functions, \A v \in Values : consumer[v] = "none",
         consumer \in [Values -> Values \cup {"none"}],
         "q" \in In("p") => "p" \in In("q"), AnalyzePhis, ~ rejected'
  PROVE  /\ consumer' \in [Values -> Values \cup {"none"}] /\ SharedVariables'
<1> DEFINE P == In("p")
           Q == In("q")
           c1 == IF P # {} THEN Consumed(consumer, "p") ELSE consumer
           c2 == IF Q # {} THEN Consumed(c1, "q") ELSE c1
<1>1. P \subseteq {"h", "p", "q"} /\ Q \subseteq {"h", "p", "a", "b"}
  BY InValues
<1>2. In("p")' = P /\ In("q")' = Q
  BY DEF AnalyzePhis, In
<1>3. consumer' = c2 /\ ~ (Q # {} /\ Clashes(c1, "q"))
  BY DEF AnalyzePhis, Phis
<1>4. ("q" \in P => "p" \in Q) /\ (\A v \in Q : Q # {})
  OBVIOUS
<1> HIDE DEF P, Q
<1>5. \A v \in Values : c1[v] = IF v # "p" /\ v \in P THEN "p" ELSE "none"
  <2>1. CASE P # {}
    BY <2>1 DEF Consumed, P
  <2>2. CASE P = {}
    BY <2>2
  <2> QED BY <2>1, <2>2
<1>6. c1 \in [Values -> Values \cup {"none"}]
  BY DEF Consumed, Values
<1> HIDE DEF c1
<1>7. \A v \in Q : v \in Values /\ (v = "p" \/ v \notin P)
  <2> SUFFICES ASSUME NEW v \in Q PROVE v \in Values /\ (v = "p" \/ v \notin P)
    OBVIOUS
  <2>1. c1[v] \in {"none", "q"}
    BY <1>3 DEF Clashes, Q
  <2>2. v \in Values
    BY <1>1 DEF Values
  <2> QED BY <1>5, <2>1, <2>2
<1>8. \A v \in Values :
        c2[v] = IF v = "q" THEN "none"
                ELSE IF v \in Q THEN "q" ELSE IF v # "p" /\ v \in P THEN "p" ELSE "none"
  <2>1. CASE Q # {}
    BY <1>5, <2>1 DEF Consumed, Q
  <2>2. CASE Q = {}
    <3>1. "q" \notin P
      BY <1>4, <2>2
    <3> QED BY <1>5, <2>2, <3>1
  <2> QED BY <2>1, <2>2
<1>9. c2 \in [Values -> Values \cup {"none"}]
  BY <1>6 DEF Consumed, Values
<1> HIDE DEF c2
<1>10. /\ c2["q"] = "none" /\ c2["p"] \in {"q", "none"}
       /\ \A v \in Q : c2[v] = "q"
       /\ \A v \in P : v \in {"p", "q"} \/ c2[v] = "p"
       /\ "q" \in P => c2["p"] = "q"
       /\ \A v \in Values : c2[v] \in {"none", "p", "q"}
  <2>1. "p" \in Values /\ "q" \in Values /\ P \subseteq Values /\ Q \subseteq Values /\ "q" \notin Q
    BY <1>1 DEF Values
  <2>2. c2["q"] = "none" /\ c2["p"] \in {"q", "none"} /\ ("q" \in P => c2["p"] = "q")
    BY <1>4, <1>8, <2>1
  <2>3. \A v \in Q : c2[v] = "q"
    BY <1>8, <2>1
  <2>4. \A v \in P : v \in {"p", "q"} \/ c2[v] = "p"
    BY <1>7, <1>8, <2>1
  <2> QED BY <1>8, <2>2, <2>3, <2>4
<1>11. \A v \in Values :
         VariableOf(v)' = IF c2[v] = "none" THEN v
                          ELSE IF c2[c2[v]] = "none" THEN c2[v] ELSE c2[c2[v]]
  BY <1>3 DEF VariableOf
<1>12. VariableOf("q")' = "q" /\ VariableOf("p")' = IF c2["p"] = "none" THEN "p" ELSE "q"
  <2>1. "p" \in Values /\ "q" \in Values
    BY DEF Values
  <2> QED BY <1>10, <1>11, <2>1
<1>13. \A v \in Q : VariableOf(v)' = "q"
  BY <1>7, <1>10, <1>11
<1>14. \A v \in P : VariableOf(v)' = VariableOf("p")'
  <2> SUFFICES ASSUME NEW v \in P PROVE VariableOf(v)' = VariableOf("p")'
    OBVIOUS
  <2>1. CASE v = "p"
    BY <2>1
  <2>2. CASE v = "q"
    BY <1>10, <1>12, <2>2
  <2>3. CASE c2[v] = "p"
    <3>1. v \in Values
      BY <1>1 DEF Values
    <3> QED BY <1>10, <1>11, <1>12, <2>3, <3>1
  <2> QED BY <1>10, <2>1, <2>2, <2>3
<1>15. \A v \in Values : VariableOf(v)' \in Values
  <2> SUFFICES ASSUME NEW v \in Values PROVE VariableOf(v)' \in Values
    OBVIOUS
  <2>1. "p" \in Values /\ "q" \in Values
    BY DEF Values
  <2>2. CASE c2[v] = "none"
    BY <1>11, <2>2
  <2>3. CASE c2[v] = "q"
    BY <1>10, <1>11, <2>1, <2>3
  <2>4. CASE c2[v] = "p"
    BY <1>10, <1>11, <2>1, <2>4
  <2> QED BY <1>10, <2>2, <2>3, <2>4
<1> QED BY <1>2, <1>3, <1>9, <1>12, <1>13, <1>14, <1>15 DEF SharedVariables, Phis

LEMMA ROInitInv == ROInit => ROInv
<1> SUFFICES ASSUME ROInit PROVE ROInv
  OBVIOUS
<1> USE DEF ROInit
<1>1. ROTypeOK
  <2>1. incoming \in Functions
    BY DEF Functions
  <2>2. /\ consumer \in [Values -> Values \cup {"none"}] /\ handle \in Queries /\ last \in Queries
        /\ traced \in [TraceBlocks -> Handles \cup {"none"}]
    BY DEF Queries
  <2>3. /\ ssa \in [Values -> Nat] /\ held \in [Values -> Nat]
        /\ queries \in [Queries -> Nat] /\ heap \in [Queries -> Nat]
    OBVIOUS
  <2> QED BY <2>1, <2>2, <2>3 DEF ROTypeOK
<1>2. FromOK /\ Carried /\ Following
  BY DEF FromOK, Carried, Following
<1>3. NotRun
  BY DEF NotRun, Fresh
<1>4. QueriesOK
  BY DEF QueriesOK, Queries
<1>5. SourcesOK
  BY DEF SourcesOK, SourcesKept
<1> QED BY <1>1, <1>2, <1>3, <1>4, <1>5 DEF ROInv

LEMMA WriteFunctionInv == ~ CarriedFresh /\ ROInv /\ WriteFunction => ROInv'
<1> SUFFICES ASSUME ~ CarriedFresh, ROInv, WriteFunction PROVE ROInv'
  OBVIOUS
<1> USE DEF ROInv
<1>1. PICK pe \in {"h", "undef"}, pm \in {"h", "p", "q", "undef"},
           qa \in {"h", "p", "a", "undef"}, qb \in {"h", "p", "b", "undef"},
           t \in [TraceBlocks -> Handles \cup {"none"}], n \in SUBSET Queries :
        /\ "p" \in {pm, qa, qb} => {pe, pm} # {"undef"}
        /\ pm = "q" => {qa, qb} # {"undef"}
        /\ CarriedFresh \/ (pm = "q" => "p" \in {qa, qb})
        /\ incoming' = [p |-> [E |-> pe, M |-> pm], q |-> [A |-> qa, B |-> qb]]
        /\ traced' = t /\ newer' = n
  BY Zenon DEF WriteFunction
<1>2. /\ where = "write" /\ where' = "analyse"
      /\ UNCHANGED <<handle, consumer, from, ssa, held, ticks, newest, queries, heap, last,
                     recorded>>
  BY DEF WriteFunction
<1>3. /\ incoming' \in Functions
      /\ incoming'["p"]["E"] = pe /\ incoming'["p"]["M"] = pm
      /\ incoming'["q"]["A"] = qa /\ incoming'["q"]["B"] = qb
  BY <1>1 DEF Functions
<1>4. ROTypeOK'
  BY <1>1, <1>2, <1>3 DEF ROTypeOK
<1>5. NotRun' /\ FromOK' /\ Following'
  BY <1>2 DEF NotRun, Fresh, FromOK, Following
<1>6. Carried'
  <2>1. In("p")' = {pe, pm} \ {"undef"} /\ In("q")' = {qa, qb} \ {"undef"}
    <3>1. DOMAIN incoming'["p"] = {"E", "M"} /\ DOMAIN incoming'["q"] = {"A", "B"}
      BY <1>1
    <3> QED BY <1>3, <3>1 DEF In
  <2> QED BY <1>1, <2>1 DEF Carried
<1>7. QueriesOK'
  <2>1. Fresh /\ last \in Queries /\ "q1" \in Queries
    BY <1>2 DEF NotRun, ROTypeOK, Queries
  <2>2. heap = queries
    BY <2>1 DEF Fresh, ROTypeOK
  <2> QED BY <1>2, <2>1, <2>2 DEF QueriesOK, Fresh
<1>8. SourcesOK'
  BY <1>2 DEF SourcesOK, SourcesKept, NotRun, Fresh
<1> QED BY <1>4, <1>5, <1>6, <1>7, <1>8

\* What the analysis found of the handles depends on the shader only.
LEMMA SameHandles ==
  ASSUME UNCHANGED <<traced, newer>>
  PROVE  /\ OneVariable' = OneVariable /\ UsesNonDirectIndexing' = UsesNonDirectIndexing
BY DEF OneVariable, UsesNonDirectIndexing, UsesDivergentHandles, UsedHandles

\* The queries' side of a step that leaves the shader alone.
LEMMA QueriesKeep ==
  ASSUME QueriesOK, SourcesOK, UNCHANGED <<traced, newer, queries, heap, last, recorded>>
  PROVE  QueriesOK' /\ SourcesOK'
BY SameHandles DEF QueriesOK, SourcesOK, SourcesKept

LEMMA AnalyzePhisInv == ROInv /\ AnalyzePhis => ROInv'
<1> SUFFICES ASSUME ROInv, AnalyzePhis PROVE ROInv'
  OBVIOUS
<1> USE DEF ROInv
<1>1. /\ where = "analyse" /\ where' = IF rejected' THEN "rejected" ELSE "E"
      /\ UNCHANGED <<incoming, traced, newer, handle, from, ssa, held, ticks, newest, queries,
                     heap, last, recorded>>
  BY DEF AnalyzePhis
<1>2. consumer' \in [Values -> Values \cup {"none"}]
  <2>1. \A c \in [Values -> Values \cup {"none"}], phi \in Values :
          Consumed(c, phi) \in [Values -> Values \cup {"none"}]
    BY DEF Consumed
  <2>2. "p" \in Values /\ "q" \in Values /\ consumer \in [Values -> Values \cup {"none"}]
    BY DEF Values, ROTypeOK
  <2> QED BY <2>1, <2>2 DEF AnalyzePhis
<1>3. ROTypeOK'
  BY <1>1, <1>2 DEF ROTypeOK
<1>4. FromOK' /\ NotRun'
  BY <1>1 DEF FromOK, NotRun
<1>5. Carried'
  BY <1>1 DEF Carried, In
<1>6. QueriesOK' /\ SourcesOK'
  BY <1>1, QueriesKeep
<1>7. Following'
  <2>1. CASE rejected'
    BY <1>1, <2>1 DEF Following
  <2>2. CASE ~ rejected'
    <3>1. SharedVariables'
      BY <1>1, <2>2, AnalysisShares DEF ROTypeOK, NotRun, Carried
    <3>2. \A v \in Values : ssa'[v] = 0 /\ ssa'[v] <= ticks'
      BY <1>1 DEF NotRun, Fresh, ROTypeOK
    <3> QED BY <3>1, <3>2 DEF Following
  <2> QED BY <2>1, <2>2
<1> QED BY <1>3, <1>4, <1>5, <1>6, <1>7

\* What a step of the function leaves alone.
Running == where \notin {"write", "analyse", "rejected"}

LEMMA SameVariables ==
  ASSUME UNCHANGED <<incoming, consumer>>
  PROVE  /\ \A v : VariableOf(v)' = VariableOf(v)
         /\ SharedVariables' = SharedVariables
         /\ In("p")' = In("p") /\ In("q")' = In("q")
BY DEF VariableOf, SharedVariables, In, Phis

\* An object is made.
LEMMA DefineFollows ==
  ASSUME ROTypeOK, SharedVariables, NEW v \in Values, Define(v), ticks' = ticks + 1,
         UNCHANGED <<incoming, consumer>>, \A w \in Values : ssa[w] <= ticks
  PROVE  /\ ssa' \in [Values -> Nat] /\ held' \in [Values -> Nat] /\ newest' \in Nat
         /\ \A w \in Values : ssa'[w] <= ticks'
         /\ \A w \in Values : ssa'[w] # 0 /\ ssa'[w] = newest' => held'[VariableOf(w)'] = newest'
<1>1. /\ ssa' = [ssa EXCEPT ![v] = ticks + 1] /\ newest' = ticks + 1
      /\ held' = [held EXCEPT ![VariableOf(v)] = ticks + 1]
  BY DEF Define
<1>2. ticks \in Nat /\ VariableOf(v) \in Values /\ ssa \in [Values -> Nat] /\ held \in [Values -> Nat]
  BY DEF ROTypeOK, SharedVariables
<1>3. ssa' \in [Values -> Nat] /\ held' \in [Values -> Nat] /\ newest' \in Nat
  BY <1>1, <1>2
<1>4. \A w \in Values : ssa'[w] = IF w = v THEN ticks + 1 ELSE ssa[w]
  BY <1>1, <1>2
<1>5. \A w \in Values : ssa'[w] <= ticks' /\ (ssa'[w] = newest' => w = v)
  BY <1>1, <1>2, <1>4
<1>6. held'[VariableOf(v)'] = newest'
  BY <1>1, <1>2, SameVariables
<1> QED BY <1>3, <1>5, <1>6

\* A phi takes a value.
LEMMA PhiFollows ==
  ASSUME ROTypeOK, Following, Running, NEW phi \in Phis, NEW v,
         v = "undef" \/ v \in In(phi), In(phi) \subseteq Values,
         ssa' = [ssa EXCEPT ![phi] = Object(v)],
         UNCHANGED <<incoming, consumer, held, ticks, newest>>
  PROVE  /\ ssa' \in [Values -> Nat]
         /\ \A w \in Values : ssa'[w] <= ticks'
         /\ \A w \in Values : ssa'[w] # 0 /\ ssa'[w] = newest' => held'[VariableOf(w)'] = newest'
<1>1. /\ SharedVariables /\ ticks \in Nat /\ ssa \in [Values -> Nat] /\ phi \in Values
      /\ \A w \in Values : ssa[w] <= ticks
      /\ \A w \in Values : ssa[w] # 0 /\ ssa[w] = newest => held[VariableOf(w)] = newest
  BY DEF Following, Running, ROTypeOK, Phis, Values
<1>2. Object(v) = 0 \/ (v \in In(phi) /\ v \in Values /\ Object(v) = ssa[v])
  BY DEF Object
<1>3. Object(v) \in Nat /\ Object(v) <= ticks
  BY <1>1, <1>2
<1>4. Object(v) # 0 /\ Object(v) = newest => held[VariableOf(phi)] = newest
  BY <1>1, <1>2 DEF SharedVariables
<1>5. ssa' \in [Values -> Nat] /\ \A w \in Values : ssa'[w] = IF w = phi THEN Object(v) ELSE ssa[w]
  BY <1>1, <1>3
<1>6. \A w : VariableOf(w)' = VariableOf(w)
  BY SameVariables
<1> QED BY <1>1, <1>3, <1>4, <1>5, <1>6

LEMMA RunEntryInv == ROInv /\ RunEntry => ROInv'
<1> SUFFICES ASSUME ROInv, RunEntry PROVE ROInv'
  OBVIOUS
<1> USE DEF ROInv
<1>1. /\ where = "E" /\ Define("h") /\ where' = "H" /\ from' = "E" /\ ticks' = ticks + 1
      /\ UNCHANGED <<incoming, traced, newer, handle, consumer, queries, heap, last, recorded>>
  BY DEF RunEntry
<1>2. "h" \in Values /\ SharedVariables /\ \A v \in Values : ssa[v] <= ticks
  BY <1>1 DEF Values, Following
<1>3. /\ ssa' \in [Values -> Nat] /\ held' \in [Values -> Nat] /\ newest' \in Nat
      /\ \A w \in Values : ssa'[w] <= ticks'
      /\ \A w \in Values : ssa'[w] # 0 /\ ssa'[w] = newest' => held'[VariableOf(w)'] = newest'
  BY <1>1, <1>2, DefineFollows
<1>4. ROTypeOK'
  BY <1>1, <1>3 DEF ROTypeOK
<1>5. Following' /\ Carried'
  BY <1>1, <1>2, <1>3, SameVariables DEF Following, Carried
<1>6. FromOK' /\ NotRun' /\ QueriesOK' /\ SourcesOK'
  BY <1>1, QueriesKeep DEF FromOK, NotRun
<1> QED BY <1>4, <1>5, <1>6

LEMMA RunHeaderInv == ROInv /\ RunHeader => ROInv'
<1> SUFFICES ASSUME ROInv, RunHeader PROVE ROInv'
  OBVIOUS
<1> USE DEF ROInv
<1> DEFINE v == incoming["p"][from]
<1>1. /\ where = "H" /\ ssa' = [ssa EXCEPT !["p"] = Object(v)] /\ handle' \in Queries
      /\ where' \in TraceBlocks /\ from' = "H"
      /\ UNCHANGED <<incoming, traced, newer, consumer, held, ticks, newest, queries, heap, last,
                     recorded>>
  BY DEF RunHeader
<1>2. from \in {"E", "M"} /\ incoming \in Functions
  BY <1>1 DEF FromOK, ROTypeOK
<1>3. (v = "undef" \/ v \in In("p")) /\ In("p") \subseteq Values /\ "p" \in Phis /\ Running
  BY <1>1, <1>2, InValues DEF Values, Phis, Running
<1> HIDE DEF v
<1>4. /\ ssa' \in [Values -> Nat]
      /\ \A w \in Values : ssa'[w] <= ticks'
      /\ \A w \in Values : ssa'[w] # 0 /\ ssa'[w] = newest' => held'[VariableOf(w)'] = newest'
  BY <1>1, <1>3, PhiFollows
<1>5. where' \in {"A", "B"}
  BY <1>1 DEF TraceBlocks
<1>6. ROTypeOK'
  BY <1>1, <1>4, <1>5 DEF ROTypeOK
<1>7. Following' /\ Carried'
  BY <1>1, <1>4, SameVariables DEF Following, Carried
<1>8. FromOK' /\ NotRun' /\ QueriesOK' /\ SourcesOK'
  BY <1>1, <1>5, QueriesKeep DEF FromOK, NotRun
<1> QED BY <1>6, <1>7, <1>8

LEMMA RunMergeInv == ROInv /\ RunMerge => ROInv'
<1> SUFFICES ASSUME ROInv, RunMerge PROVE ROInv'
  OBVIOUS
<1> USE DEF ROInv
<1> DEFINE v == incoming["q"][from]
<1>1. /\ where = "M" /\ ssa' = [ssa EXCEPT !["q"] = Object(v)]
      /\ where' \in {"H", "X"} /\ from' = "M"
      /\ UNCHANGED <<incoming, traced, newer, handle, consumer, held, ticks, newest, queries,
                     heap, last, recorded>>
  BY DEF RunMerge
<1>2. from \in {"A", "B"} /\ incoming \in Functions
  BY <1>1 DEF FromOK, ROTypeOK, TraceBlocks
<1>3. (v = "undef" \/ v \in In("q")) /\ In("q") \subseteq Values /\ "q" \in Phis /\ Running
  BY <1>1, <1>2, InValues DEF Values, Phis, Running
<1> HIDE DEF v
<1>4. /\ ssa' \in [Values -> Nat]
      /\ \A w \in Values : ssa'[w] <= ticks'
      /\ \A w \in Values : ssa'[w] # 0 /\ ssa'[w] = newest' => held'[VariableOf(w)'] = newest'
  BY <1>1, <1>3, PhiFollows
<1>5. ROTypeOK'
  BY <1>1, <1>4 DEF ROTypeOK
<1>6. Following' /\ Carried'
  BY <1>1, <1>4, SameVariables DEF Following, Carried
<1>7. FromOK' /\ NotRun' /\ QueriesOK' /\ SourcesOK'
  BY <1>1, QueriesKeep DEF FromOK, NotRun
<1> QED BY <1>5, <1>6, <1>7

\* A trace.
LEMMA TraceKeeps ==
  ASSUME ROTypeOK, QueriesOK, NEW b \in TraceBlocks, traced[b] # "none", Trace(traced[b]),
         UNCHANGED <<traced, newer>>
  PROVE  /\ QueriesOK' /\ queries' \in [Queries -> Nat] /\ heap' \in [Queries -> Nat]
         /\ last' \in Queries
<1> DEFINE x == Query(traced[b])
<1>1. traced[b] \in Queries \/ traced[b] = "dynamic"
  BY DEF ROTypeOK, Handles
<1>2. x \in Queries
  BY <1>1 DEF Query, ROTypeOK
<1>3. /\ queries' = [queries EXCEPT ![x] = ticks + 1]
      /\ heap' = [heap EXCEPT ![QueryVariable(x)] = ticks + 1] /\ last' = x
  BY DEF Trace
<1> HIDE DEF x
<1>4. OneVariable' = OneVariable
  BY SameHandles
<1>5. QueryVariable(x) = IF OneVariable THEN "q1" ELSE x
  BY DEF QueryVariable, OneVariable
<1>6. ticks + 1 \in Nat /\ "q1" \in Queries /\ QueryVariable(x) \in Queries
  BY <1>2, <1>5 DEF ROTypeOK, Queries
<1>7. queries' \in [Queries -> Nat] /\ heap' \in [Queries -> Nat]
  BY <1>3, <1>6 DEF ROTypeOK
<1>8. QueriesOK'
  BY <1>2, <1>3, <1>4, <1>5, <1>6 DEF QueriesOK, ROTypeOK
<1> QED BY <1>2, <1>3, <1>7, <1>8

\* An object is made from a query whose variable is the operand.
LEMMA FromRayQueryKeeps ==
  ASSUME UNCHANGED <<traced, newer>>, QueriesOK',
         NEW v, NEW x \in Handles, FromRayQuery(v, x)
  PROVE  SourcesOK'
<1>1. recorded' = [from |-> x, meant |-> queries'[Query(x)],
                   taken |-> IF UsesNonDirectIndexing \/ x = "dynamic" THEN NoQuery ELSE heap'[x]]
  BY DEF FromRayQuery
<1>2. CASE UsesNonDirectIndexing \/ x = "dynamic"
  BY <1>1, <1>2, SameHandles DEF SourcesOK, SourcesKept
<1>3. CASE ~ UsesNonDirectIndexing /\ x # "dynamic"
  <2>1. heap' = queries' /\ Query(x) = x
    BY <1>3, SameHandles DEF QueriesOK, OneVariable, Query
  <2> QED BY <1>1, <1>3, <2>1 DEF SourcesOK, SourcesKept
<1> QED BY <1>2, <1>3

LEMMA RunSideInv == ROInv /\ RunSide => ROInv'
<1> SUFFICES ASSUME ROInv, RunSide PROVE ROInv'
  OBVIOUS
<1> USE DEF ROInv
<1> DEFINE own == IF where = "A" THEN "a" ELSE "b"
<1>1. /\ where \in TraceBlocks /\ ticks' = ticks + 1 /\ where' = "M" /\ from' = where
      /\ UNCHANGED <<incoming, traced, newer, handle, consumer>>
      /\ \/ \E x \in Handles : FromRayQuery(own, x)
         \/ Define(own) /\ UNCHANGED recorded
         \/ UNCHANGED <<ssa, held, newest, recorded>>
      /\ \/ traced[where] # "none" /\ Trace(traced[where])
         \/ UNCHANGED <<queries, heap, last>>
  BY DEF RunSide
<1>2. own \in Values /\ SharedVariables /\ ticks \in Nat /\ \A v \in Values : ssa[v] <= ticks
  BY <1>1 DEF Values, Following, TraceBlocks, ROTypeOK
<1> HIDE DEF own
<1>3. /\ ssa' \in [Values -> Nat] /\ held' \in [Values -> Nat] /\ newest' \in Nat
      /\ \A w \in Values : ssa'[w] <= ticks'
      /\ \A w \in Values : ssa'[w] # 0 /\ ssa'[w] = newest' => held'[VariableOf(w)'] = newest'
  <2>1. CASE Define(own)
    BY <1>1, <1>2, <2>1, DefineFollows
  <2>2. CASE UNCHANGED <<ssa, held, newest, recorded>>
    <3>1. \A w \in Values : ssa[w] \in Nat /\ ssa'[w] = ssa[w] /\ ssa'[w] <= ticks'
      BY <1>1, <1>2, <2>2 DEF ROTypeOK
    <3>2. \A w : VariableOf(w)' = VariableOf(w)
      BY <1>1, SameVariables
    <3>3. \A w \in Values : ssa[w] # 0 /\ ssa[w] = newest => held[VariableOf(w)] = newest
      BY <1>1 DEF Following, TraceBlocks
    <3> QED BY <2>2, <3>1, <3>2, <3>3 DEF ROTypeOK
  <2> QED BY <1>1, <2>1, <2>2 DEF FromRayQuery
<1>4. /\ QueriesOK' /\ queries' \in [Queries -> Nat] /\ heap' \in [Queries -> Nat]
      /\ last' \in Queries
  <2>1. CASE traced[where] # "none" /\ Trace(traced[where])
    BY <1>1, <2>1, TraceKeeps
  <2>2. CASE UNCHANGED <<queries, heap, last>>
    BY <1>1, <2>2, SameHandles DEF ROTypeOK, QueriesOK
  <2> QED BY <1>1, <2>1, <2>2
<1>5. SourcesOK'
  <2>1. CASE \E x \in Handles : FromRayQuery(own, x)
    BY <1>1, <1>4, <2>1, FromRayQueryKeeps
  <2>2. CASE UNCHANGED recorded
    BY <1>1, <2>2, SameHandles DEF SourcesOK, SourcesKept
  <2> QED BY <1>1, <2>1, <2>2
<1>6. ROTypeOK'
  BY <1>1, <1>2, <1>3, <1>4 DEF ROTypeOK, TraceBlocks
<1>7. Following' /\ Carried'
  BY <1>1, <1>2, <1>3, SameVariables DEF Following, Carried, TraceBlocks
<1>8. FromOK' /\ NotRun'
  BY <1>1 DEF FromOK, NotRun
<1> QED BY <1>4, <1>5, <1>6, <1>7, <1>8

LEMMA ROInvHolds == ASSUME ~ CarriedFresh PROVE ROSpec => []ROInv
<1>1. ROInit => ROInv
  BY ROInitInv
<1>2. ROInv /\ [RONext]_objectVars => ROInv'
  <2> SUFFICES ASSUME ROInv, [RONext]_objectVars PROVE ROInv'
    OBVIOUS
  <2>1. CASE UNCHANGED objectVars
    <3>1. UNCHANGED <<incoming, traced, newer, handle, consumer, where, from, ssa, held, ticks,
                      newest, queries, heap, last, recorded>>
      BY <2>1 DEF objectVars
    <3>2. ROTypeOK' /\ FromOK' /\ NotRun' /\ QueriesOK' /\ SourcesOK'
      BY <3>1, QueriesKeep DEF ROInv, ROTypeOK, FromOK, NotRun, Fresh
    <3>3. Carried' /\ Following'
      BY <3>1, SameVariables DEF ROInv, Carried, Following
    <3> QED BY <3>2, <3>3 DEF ROInv
  <2> QED BY <2>1, WriteFunctionInv, AnalyzePhisInv, RunEntryInv, RunHeaderInv, RunSideInv,
             RunMergeInv DEF RONext
<1> QED BY <1>1, <1>2, PTL DEF ROSpec

\* For any number of iterations: after a phi has taken a value, the variable it reads
\* holds that object, whichever way the loop and the branch went, as long as the
\* shader means the newest object (build_hit_object, emit_hitobject_phi,
\* analyze_phi_hitobject), and no merge of two new objects is carried by the loop.
THEOREM ROObjectsFollowPhis ==
  ASSUME ~ CarriedFresh PROVE ROSpec => []ObjectsFollowPhis
<1>1. ROInv => ObjectsFollowPhis
  <2> SUFFICES ASSUME ROInv PROVE ObjectsFollowPhis
    OBVIOUS
  <2>1. "p" \in Values /\ "q" \in Values
    BY DEF Values
  <2> QED BY <2>1 DEF ROInv, Following, ObjectsFollowPhis, ReadObject, TraceBlocks
<1> QED BY <1>1, ROInvHolds, PTL

\* Every query the shader has traced is found again through any of its handles; where
\* the queries share one variable, the one traced last is; where every trace has its
\* query directly, through the handles that do not vary (RayQuery_TraceRayInline,
\* emit_ray_query_globals, build_ray_query_object).
THEOREM ROQueriesKept ==
  ASSUME ~ CarriedFresh, ~ Concurrent, ~ DynamicReads PROVE ROSpec => []QueriesKept
<1>1. ROInv => QueriesKept
  <2> SUFFICES ASSUME ROInv, NEW x \in Handles, UsesDivergentHandles \/ Query(x) = last,
                      UsesNonDirectIndexing \/ x # "dynamic"
               PROVE  ReadQuery(x) = queries[Query(x)]
    BY DEF QueriesKept
  <2>1. QueryVariable(Query(x)) = IF OneVariable THEN "q1" ELSE Query(x)
    BY DEF QueryVariable, OneVariable
  <2>2. CASE OneVariable
    BY <2>1, <2>2 DEF ROInv, QueriesOK, ReadQuery, OneVariable
  <2>3. CASE ~ OneVariable /\ UsesNonDirectIndexing
    BY <2>1, <2>3 DEF ROInv, QueriesOK, ReadQuery
  <2>4. CASE ~ OneVariable /\ ~ UsesNonDirectIndexing
    BY <2>4 DEF ROInv, QueriesOK, ReadQuery, Query
  <2> QED BY <2>2, <2>3, <2>4
<1> QED BY <1>1, ROInvHolds, PTL

\* Every object made from a query records the last trace of that query, where the
\* operand is the variable of the query (emit_hit_object_from_ray_query_instruction).
THEOREM ROSourcesKept ==
  ASSUME ~ CarriedFresh, ~ HeapSources PROVE ROSpec => []SourcesKept
<1>1. ROInv => SourcesKept
  BY DEF ROInv, SourcesOK
<1> QED BY <1>1, ROInvHolds, PTL

\* Hit objects follow the phis of the shader, ray queries their handles, and objects
\* the queries they are made from, for any number of iterations (analyze_phi_hitobject,
\* build_ray_query_object, emit_hit_object_from_ray_query_instruction).
THEOREM RORayObjectsSound ==
  ASSUME ~ CarriedFresh, ~ Concurrent, ~ DynamicReads, ~ HeapSources
  PROVE  ROSpec => []RayObjectsSound
<1>1. ObjectsFollowPhis /\ QueriesKept /\ SourcesKept => RayObjectsSound
  BY DEF RayObjectsSound
<1> QED BY <1>1, ROObjectsFollowPhis, ROQueriesKept, ROSourcesKept, PTL

-----------------------------------------------------------------------------
(* Views.                                                                  *)

\* The hypothesis: a shader that names a layer is drawn with the constant that
\* holds the layer of the view.
LayersHaveConstant ==
  \A s \in ViewSetups : s.enable /\ s.last /\ s.declaresLayer => s.ubo

Setups ==
  [enable : BOOLEAN, last : BOOLEAN, viewSpec : BOOLEAN, viewportSpec : BOOLEAN, ubo : BOOLEAN,
   masks : BOOLEAN, mask : SUBSET ViewIds, stage : {"vertex", "domain", "geometry", "mesh"},
   declaresLayer : BOOLEAN, declaresViewport : BOOLEAN, threads : Nat \ {0},
   counted : {Before} \cup Nat]

Output == [layer : {Unwritten} \cup Nat, viewport : {Unwritten} \cup Nat,
           position : {"undefined", "shader", "degenerate"}]

VITypeOK ==
  /\ setup \in Setups /\ view \in ViewIds /\ step \in {"entry", "body", "returned"}
  /\ outputs \in [Slots -> Output] /\ named \in [layer : Nat, viewport : Nat]
  /\ setup.enable /\ setup.last /\ setup.declaresLayer => setup.ubo
  /\ setup.stage # "mesh" => setup.counted # Before

\* Where the fixed layer and viewport have been written.
Placed(p) == \/ setup.stage \in {"vertex", "domain"}
             \/ setup.stage = "mesh" /\ p < setup.counted

LayerInConstant == PerView /\ ~ CustomLayer /\ ~ setup.viewSpec /\ setup.ubo
ViewportInMap == PerView /\ ~ CustomViewport /\ setup.viewportSpec

\* An output is unwritten, or what the shader named with the offset of the view;
\* what the shader does not declare is unwritten, or the offset alone.
LayerOK(p) ==
  IF setup.declaresLayer
    THEN outputs[p].layer \in {Unwritten, named.layer + (IF PerView THEN LayerOffset[view] ELSE 0)}
    ELSE /\ named.layer = 0
         /\ outputs[p].layer = IF Placed(p) /\ LayerInConstant THEN LayerOffset[view] ELSE Unwritten

ViewportOK(p) ==
  IF setup.declaresViewport
    THEN outputs[p].viewport \in
           {Unwritten, named.viewport + (IF StoresViewport THEN ViewportOffset[view] ELSE 0)}
    ELSE /\ named.viewport = 0
         /\ outputs[p].viewport =
              IF Placed(p) /\ ViewportInMap THEN ViewportOffset[view] ELSE Unwritten

BodyOK == step = "body" => ~ MaskedOut /\ \A p \in Slots : LayerOK(p) /\ ViewportOK(p)

EntryOK == step = "entry" => /\ \A p \in Slots : outputs[p] = Blank
                             /\ drawn = {} /\ named = Unnamed
                             /\ setup.stage = "mesh" => setup.counted = Before

MapOK == /\ mapUses \subseteq {ViewMapAs}
         /\ viewMap = IF mapUses = {} THEN "none" ELSE ViewMapAs

Good(o, n) ==
  \/ o.position = "degenerate"
  \/ /\ ~MaskedOut
     /\ Written(o.layer) + HardwareLayer = n.layer + (IF StoresLayer THEN LayerOffset[view] ELSE 0)
     /\ Written(o.viewport) = n.viewport + (IF StoresViewport THEN ViewportOffset[view] ELSE 0)

DrawnOK == \A d \in drawn : Good(d[1], d[2])

VIInv == VITypeOK /\ EntryOK /\ BodyOK /\ MapOK /\ DrawnOK

-----------------------------------------------------------------------------

LEMMA Split ==
  ASSUME NEW x \in Nat, NEW a \in Nat \ {0}
  PROVE  x \div a \in Nat /\ x % a \in 0 .. a - 1 /\ x = a * (x \div a) + (x % a)
OBVIOUS

LEMMA Unpack ==
  ASSUME NEW h \in Nat \ {0}, NEW l \in Nat, NEW v \in 0 .. h - 1
  PROVE  (v + h * l) \div h = l /\ (v + h * l) % h = v
<1> DEFINE x == v + h * l
           q == x \div h
           r == x % h
<1>1. h * l \in Nat /\ x \in Nat
  OBVIOUS
<1>2. q \in Nat /\ r \in 0 .. h - 1 /\ x = h * q + r
  <2> HIDE DEF x
  <2> QED BY <1>1, Split
<1> HIDE DEF q, r
<1>3. h * l - h * q = h * (l - q) /\ l - q \in Int
  BY <1>2
<1>4. h * (l - q) = r - v
  BY <1>1, <1>2, <1>3
<1>5. l - q = 0
  <2>1. r - v < h /\ r - v > - h
    BY <1>2
  <2> DEFINE d == l - q
  <2>2. d \in Int /\ h * d < h /\ h * d > - h
    BY <1>3, <1>4, <2>1
  <2> HIDE DEF d
  <2>3. d >= 1 => h * d >= h
    BY <2>2
  <2>4. d <= -1 => h * d <= - h
    BY <2>2
  <2>5. d = 0
    BY <2>2, <2>3, <2>4
  <2> QED BY <2>5 DEF d
<1>6. q = l /\ r = v
  <2>1. q = l
    BY <1>2, <1>5
  <2>2. h * (l - q) = 0
    BY <1>5
  <2> QED BY <1>2, <1>4, <2>1, <2>2
<1> QED BY <1>6 DEF q, r

\* The constant of the embedder gives the view and its layer back.
LEMMA Offsets ==
  ASSUME view \in ViewIds
  PROVE  /\ LayerFromUBO(view) = LayerOffset[view] /\ LayerOffset[view] \in Nat
         /\ ViewportFromMap(view) = ViewportOffset[view] /\ ViewportOffset[view] \in Nat
<1>1. /\ HalfWord \in Nat \ {0} /\ view \in 0 .. HalfWord - 1
      /\ LayerOffset[view] \in Nat /\ ViewportOffset[view] \in Nat
  BY VIConstants DEF VIConstants
<1>2. LayerFromUBO(view) = LayerOffset[view] /\ ViewFromUBO(view) = view
  BY <1>1, Unpack DEF LayerFromUBO, ViewFromUBO, Packed
<1> QED BY <1>1, <1>2 DEF ViewportFromMap, ViewInstance

\* The threads of a workgroup write every primitive below the limit.
LEMMA UnrolledIs ==
  ASSUME setup \in Setups, setup.stage = "mesh", NEW limit
  PROVE  Unrolled(limit) = {p \in Slots : p < limit}
<1>1. setup.threads \in Nat \ {0} /\ Primitives \in Nat
  BY VIConstants DEF VIConstants, Setups
<1>2. ASSUME NEW p \in Slots
      PROVE  \E t \in 0 .. setup.threads - 1, k \in 0 .. Primitives :
               p = t + k * setup.threads /\ k * setup.threads < Primitives
  <2> DEFINE n == setup.threads
             t == p % n
             k == p \div n
  <2>1. p \in Nat /\ p < Primitives
    BY <1>1, <1>2 DEF Slots
  <2>2. n \in Nat \ {0}
    BY <1>1
  <2> HIDE DEF n
  <2>3. t \in 0 .. n - 1 /\ k \in Nat /\ p = n * k + t
    BY <2>1, <2>2, Split
  <2> HIDE DEF t, k
  <2>4. n * k = k * n /\ k * n \in Nat /\ k <= k * n
    <3>1. k * (n - 1) >= 0
      BY <2>2, <2>3
    <3>2. k * (n - 1) = k * n - k
      BY <2>2, <2>3
    <3> QED BY <2>2, <2>3, <3>1, <3>2
  <2>5. p = t + k * n /\ k * n < Primitives /\ k \in 0 .. Primitives
    BY <1>1, <2>1, <2>2, <2>3, <2>4
  <2> QED BY <2>3, <2>5 DEF n
<1> QED BY <1>2 DEF Unrolled

FixedSlots(limit) == IF setup.stage = "mesh" THEN {p \in Slots : p < limit} ELSE {0}

LEMMA WithFixedIs ==
  ASSUME VITypeOK, NEW entry \in BOOLEAN, NEW limit
  PROVE  /\ WithFixed(entry, limit) \in [Slots -> Output]
         /\ \A p \in Slots :
              LET o == WithFixed(entry, limit)[p]
                  here == p \in FixedSlots(limit)
              IN  /\ o.layer = IF here /\ FixedLayer(entry) THEN LayerOffset[view] ELSE outputs[p].layer
                  /\ o.viewport = IF here /\ FixedViewport(entry)
                                    THEN ViewportOffset[view] ELSE outputs[p].viewport
                  /\ o.position = outputs[p].position
<1> USE DEF VITypeOK
<1> DEFINE L == LayerFromUBO(view)
           V == ViewportFromMap(view)
           fl == FixedLayer(entry)
           fv == FixedViewport(entry)
<1>1. /\ L = LayerOffset[view] /\ L \in Nat
      /\ V = ViewportOffset[view] /\ V \in Nat
  BY Offsets
<1>2. (IF setup.stage = "mesh" THEN Unrolled(limit) ELSE {0}) = FixedSlots(limit)
  BY UnrolledIs DEF FixedSlots
<1> HIDE DEF L, V, fl, fv
<1>3. WithFixed(entry, limit) =
        [p \in Slots |->
           IF p \notin FixedSlots(limit) THEN outputs[p]
           ELSE [outputs[p] EXCEPT !.layer = IF fl THEN L ELSE @, !.viewport = IF fv THEN V ELSE @]]
  BY <1>2 DEF WithFixed, L, V, fl, fv
<1>4. ASSUME NEW p \in Slots
      PROVE  LET o == WithFixed(entry, limit)[p]
                 here == p \in FixedSlots(limit)
             IN  /\ o \in Output
                 /\ o.layer = IF here /\ fl THEN L ELSE outputs[p].layer
                 /\ o.viewport = IF here /\ fv THEN V ELSE outputs[p].viewport
                 /\ o.position = outputs[p].position
  <2>1. outputs[p] \in Output
    OBVIOUS
  <2>2. CASE p \notin FixedSlots(limit)
    BY <1>3, <2>1, <2>2
  <2>3. CASE p \in FixedSlots(limit)
    <3> DEFINE x == outputs[p]
    <3>1. WithFixed(entry, limit)[p] =
            [x EXCEPT !.layer = IF fl THEN L ELSE @, !.viewport = IF fv THEN V ELSE @]
      BY <1>3, <2>3
    <3>2. x \in Output
      BY <2>1
    <3> HIDE DEF x
    <3>3. WithFixed(entry, limit)[p] =
            [layer |-> IF fl THEN L ELSE x.layer, viewport |-> IF fv THEN V ELSE x.viewport,
             position |-> x.position]
      BY <3>1, <3>2 DEF Output
    <3> QED BY <1>1, <2>3, <3>2, <3>3 DEF Output, x
  <2> QED BY <2>2, <2>3
<1>5. WithFixed(entry, limit) \in [Slots -> Output]
  BY <1>3, <1>4, Zenon
<1> QED BY <1>1, <1>4, <1>5 DEF fl, fv

\* What is drawn from an output that is as it should be.
LEMMA DrawnIsGood ==
  ASSUME VITypeOK, ~ MaskedOut, NEW o \in Output, NEW n \in [layer : Nat, viewport : Nat],
         IF setup.declaresLayer
           THEN o.layer = n.layer + (IF PerView THEN LayerOffset[view] ELSE 0)
           ELSE /\ n.layer = 0
                /\ o.layer = IF LayerInConstant THEN LayerOffset[view] ELSE Unwritten,
         IF setup.declaresViewport
           THEN o.viewport = n.viewport + (IF StoresViewport THEN ViewportOffset[view] ELSE 0)
           ELSE /\ n.viewport = 0
                /\ o.viewport = IF ViewportInMap THEN ViewportOffset[view] ELSE Unwritten
  PROVE  Good([o EXCEPT !.position = "shader"], n)
<1> DEFINE q == [o EXCEPT !.position = "shader"]
           L == LayerOffset[view]
           V == ViewportOffset[view]
<1>1. q.layer = o.layer /\ q.viewport = o.viewport
  BY DEF Output
<1>2. L \in Nat /\ V \in Nat /\ n.layer \in Nat /\ n.viewport \in Nat
  BY Offsets DEF VITypeOK
<1>3. setup \in Setups /\ (setup.enable /\ setup.last /\ setup.declaresLayer => setup.ubo)
  BY DEF VITypeOK
<1> HIDE DEF q, L, V
<1>4. Written(q.layer) + HardwareLayer = n.layer + (IF StoresLayer THEN L ELSE 0)
  <2>1. CASE setup.declaresLayer /\ PerView
    <3>1. ~ HardwareMultiview /\ StoresLayer
      BY <1>3, <2>1 DEF HardwareMultiview, CustomLayer, PerView, StoresLayer
    <3>2. Written(q.layer) = n.layer + L /\ HardwareLayer = 0
      BY <1>1, <1>2, <2>1, <3>1 DEF Written, Unwritten, HardwareLayer, L
    <3> QED BY <1>2, <3>1, <3>2
  <2>2. CASE ~ PerView
    <3>1. HardwareLayer = 0 /\ ~ StoresLayer /\ ~ LayerInConstant
      BY <2>2 DEF HardwareLayer, StoresLayer, LayerInConstant
    <3>2. Written(q.layer) = n.layer
      BY <1>1, <1>2, <2>2, <3>1 DEF Written, Unwritten
    <3> QED BY <1>2, <3>1, <3>2
  <2>3. CASE ~ setup.declaresLayer /\ PerView /\ setup.viewSpec
    <3>1. HardwareMultiview /\ StoresLayer /\ ~ LayerInConstant
      BY <2>3 DEF HardwareMultiview, CustomLayer, StoresLayer, LayerInConstant
    <3>2. Written(q.layer) = 0 /\ HardwareLayer = L /\ n.layer = 0
      BY <1>1, <2>3, <3>1 DEF Written, HardwareLayer, L
    <3> QED BY <1>2, <3>1, <3>2
  <2>4. CASE ~ setup.declaresLayer /\ PerView /\ ~ setup.viewSpec
    <3>1. ~ HardwareMultiview /\ HardwareLayer = 0 /\ n.layer = 0
          /\ (StoresLayer <=> setup.ubo) /\ (LayerInConstant <=> setup.ubo)
      BY <1>3, <2>4 DEF HardwareMultiview, CustomLayer, StoresLayer, LayerInConstant, HardwareLayer
    <3>2. Written(q.layer) = IF setup.ubo THEN L ELSE 0
      BY <1>1, <1>2, <2>4, <3>1 DEF Written, Unwritten, L
    <3> QED BY <1>2, <3>1, <3>2
  <2> QED BY <2>1, <2>2, <2>3, <2>4
<1>5. Written(q.viewport) = n.viewport + (IF StoresViewport THEN V ELSE 0)
  <2>1. CASE setup.declaresViewport
    BY <1>1, <1>2, <2>1 DEF Written, Unwritten, V
  <2>2. CASE ~ setup.declaresViewport
    <3>1. n.viewport = 0 /\ (ViewportInMap <=> StoresViewport)
      BY <2>2 DEF ViewportInMap, StoresViewport, CustomViewport
    <3> QED BY <1>1, <1>2, <2>2, <3>1 DEF Written, Unwritten, V
  <2> QED BY <2>1, <2>2
<1> QED BY <1>4, <1>5 DEF Good, L, V, q

\* One map of views, and one identifier for it.
LEMMA MapKept ==
  ASSUME MapOK, NEW used \in SUBSET {ViewMapAs}, RecordUses(used), ViewMapAs' = ViewMapAs
  PROVE  MapOK'
<1>1. mapUses' = mapUses \cup used /\ ViewMapAs # "none"
  BY DEF RecordUses, ViewMapAs
<1>2. used = {} \/ used = {ViewMapAs}
  OBVIOUS
<1>3. used # {} => (CHOOSE k \in used : TRUE) = ViewMapAs
  BY <1>2
<1> QED BY <1>1, <1>2, <1>3 DEF MapOK, RecordUses

LEMMA FixedUses ==
  ASSUME VITypeOK, NEW entry \in BOOLEAN PROVE FixedMapUses(entry) \subseteq {ViewMapAs}
BY DEF VITypeOK, FixedMapUses, FixedLayer, FixedViewport, ViewMapAs, HardwareMultiview

LEMMA VIInitInv == LayersHaveConstant /\ ViewInit => VIInv
<1> SUFFICES ASSUME LayersHaveConstant, ViewInit PROVE VIInv
  OBVIOUS
<1>1. setup \in ViewSetups /\ view \in ViewIds /\ step = "entry" /\ viewMap = "none"
      /\ mapUses = {} /\ drawn = {} /\ named = Unnamed /\ outputs = [p \in Slots |-> Blank]
  BY DEF ViewInit
<1>2. setup \in Setups /\ (setup.counted = Before <=> setup.stage = "mesh")
  BY <1>1, VIConstants DEF VIConstants, Setups, Before
<1>3. Blank \in Output /\ Unnamed \in [layer : Nat, viewport : Nat]
  BY DEF Blank, Output, Unnamed
<1>4. outputs \in [Slots -> Output]
  BY <1>1, <1>3, Zenon
<1>5. VITypeOK
  BY <1>1, <1>2, <1>3, <1>4 DEF VITypeOK, LayersHaveConstant
<1>6. EntryOK /\ BodyOK /\ MapOK /\ DrawnOK
  BY <1>1, <1>2 DEF EntryOK, BodyOK, MapOK, DrawnOK
<1> QED BY <1>5, <1>6 DEF VIInv

\* What does not change as long as a shader runs.
Frame == /\ UNCHANGED view
         /\ \E n \in {Before} \cup Nat : setup' = [setup EXCEPT !.counted = n]

SameSetup ==
  /\ PerView' = PerView /\ CustomLayer' = CustomLayer /\ CustomViewport' = CustomViewport
  /\ Slots' = Slots /\ ViewMapAs' = ViewMapAs /\ HardwareMultiview' = HardwareMultiview
  /\ MaskedOut' = MaskedOut /\ LayerInConstant' = LayerInConstant
  /\ ViewportInMap' = ViewportInMap /\ StoresViewport' = StoresViewport
  /\ StoresLayer' = StoresLayer /\ HardwareLayer' = HardwareLayer
  /\ view' = view /\ setup' \in Setups
  /\ setup'.declaresLayer = setup.declaresLayer /\ setup'.declaresViewport = setup.declaresViewport
  /\ setup'.stage = setup.stage /\ setup'.enable = setup.enable /\ setup'.last = setup.last
  /\ setup'.ubo = setup.ubo /\ setup'.viewSpec = setup.viewSpec
  /\ setup'.viewportSpec = setup.viewportSpec

LEMMA SetupKept == ASSUME setup \in Setups, Frame PROVE SameSetup
<1>1. PICK n \in {Before} \cup Nat : setup' = [setup EXCEPT !.counted = n]
  BY DEF Frame
<1>2. view' = view
  BY DEF Frame
<1>3. /\ setup' \in Setups /\ setup'.enable = setup.enable /\ setup'.last = setup.last
      /\ setup'.viewSpec = setup.viewSpec /\ setup'.viewportSpec = setup.viewportSpec
      /\ setup'.ubo = setup.ubo /\ setup'.masks = setup.masks /\ setup'.mask = setup.mask
      /\ setup'.stage = setup.stage /\ setup'.declaresLayer = setup.declaresLayer
      /\ setup'.declaresViewport = setup.declaresViewport
  BY <1>1 DEF Setups
<1>4. /\ PerView' = PerView /\ CustomLayer' = CustomLayer /\ CustomViewport' = CustomViewport
      /\ Slots' = Slots
  BY <1>3 DEF PerView, CustomLayer, CustomViewport, Slots
<1>5. HardwareMultiview' = HardwareMultiview
  BY <1>3, <1>4 DEF HardwareMultiview
<1>6. ViewMapAs' = ViewMapAs
  BY <1>5 DEF ViewMapAs
<1>7. MaskedOut' = MaskedOut
  BY <1>2, <1>3, <1>4 DEF MaskedOut, Masks
<1>8. /\ LayerInConstant' = LayerInConstant /\ ViewportInMap' = ViewportInMap
      /\ StoresViewport' = StoresViewport /\ StoresLayer' = StoresLayer
  BY <1>3, <1>4, <1>5 DEF LayerInConstant, ViewportInMap, StoresViewport, StoresLayer
<1>9. HardwareLayer' = HardwareLayer
  BY <1>2, <1>4, <1>5 DEF HardwareLayer
<1> QED BY <1>2, <1>3, <1>4, <1>5, <1>6, <1>7, <1>8, <1>9 DEF SameSetup

LEMMA GoodKept ==
  ASSUME SameSetup, NEW o, NEW n PROVE Good(o, n)' <=> Good(o, n)
BY DEF SameSetup, Good

LEMMA FixedIs ==
  ASSUME VITypeOK, NEW entry \in BOOLEAN
  PROVE  /\ FixedLayer(entry) <=> LayerInConstant /\ EmitsFixed(entry)
         /\ FixedViewport(entry) <=> ViewportInMap /\ EmitsFixed(entry)
         /\ setup.declaresLayer => ~ FixedLayer(entry)
         /\ setup.declaresViewport => ~ FixedViewport(entry)
BY DEF VITypeOK, FixedLayer, FixedViewport, LayerInConstant, ViewportInMap, PerView, CustomLayer,
       CustomViewport

LEMMA EnterInv == VIInv /\ EnterFunction => VIInv'
<1> SUFFICES ASSUME VIInv, EnterFunction PROVE VIInv'
  OBVIOUS
<1> USE DEF VIInv
<1>1. /\ step = "entry" /\ UNCHANGED <<setup, view, named>>
      /\ \A p \in Slots : outputs[p] = Blank
      /\ drawn = {} /\ named = Unnamed /\ (setup.stage = "mesh" => setup.counted = Before)
  BY DEF EnterFunction, EntryOK
<1>2. SameSetup
  <2>1. setup \in Setups /\ setup' = [setup EXCEPT !.counted = setup.counted]
        /\ setup.counted \in {Before} \cup Nat
    BY <1>1 DEF VITypeOK, Setups
  <2>2. Frame
    BY <1>1, <2>1 DEF Frame
  <2> QED BY <2>1, <2>2, SetupKept
<1>3. MapOK'
  <2>1. RecordUses((IF Masks THEN {ViewMapAs} ELSE {}) \cup FixedMapUses(TRUE))
    BY DEF EnterFunction
  <2>2. (IF Masks THEN {ViewMapAs} ELSE {}) \cup FixedMapUses(TRUE) \in SUBSET {ViewMapAs}
    BY FixedUses
  <2> QED BY <1>2, <2>1, <2>2, MapKept DEF SameSetup
<1>4. CASE MaskedOut
  <2>1. /\ step' = "returned"
        /\ outputs' = IF Degenerate
                        THEN [p \in Slots |-> [outputs[p] EXCEPT !.position = "degenerate"]]
                        ELSE outputs
        /\ drawn' = IF Degenerate THEN {<<outputs'[0], Unnamed>>} ELSE drawn
    BY <1>4 DEF EnterFunction
  <2>2. \A p \in Slots : [outputs[p] EXCEPT !.position = "degenerate"] \in Output
                          /\ [outputs[p] EXCEPT !.position = "degenerate"].position = "degenerate"
    BY DEF VITypeOK, Output
  <2>3. outputs' \in [Slots -> Output]
    BY <2>1, <2>2 DEF VITypeOK
  <2>4. VITypeOK'
    BY <1>1, <1>2, <2>1, <2>3 DEF VITypeOK, SameSetup
  <2>5. DrawnOK'
    <3>1. CASE Degenerate
      <4>1. 0 \in Slots
        BY <3>1 DEF Degenerate, Slots
      <4>2. outputs'[0].position = "degenerate" /\ drawn' = {<<outputs'[0], Unnamed>>}
        BY <2>1, <2>2, <3>1, <4>1
      <4> QED BY <4>2 DEF DrawnOK, Good
    <3>2. CASE ~ Degenerate
      BY <1>1, <2>1, <3>2 DEF DrawnOK
    <3> QED BY <3>1, <3>2
  <2> QED BY <1>3, <2>1, <2>4, <2>5 DEF EntryOK, BodyOK
<1>5. CASE ~ MaskedOut
  <2>1. step' = "body" /\ outputs' = WithFixed(TRUE, 0) /\ drawn' = drawn
    BY <1>5 DEF EnterFunction
  <2>2. VITypeOK'
    BY <1>1, <1>2, <2>1, WithFixedIs DEF VITypeOK, SameSetup
  <2>3. ASSUME NEW p \in Slots PROVE LayerOK(p)' /\ ViewportOK(p)'
    <3>1. /\ outputs'[p].layer = IF p \in FixedSlots(0) /\ FixedLayer(TRUE)
                                   THEN LayerOffset[view] ELSE Unwritten
          /\ outputs'[p].viewport = IF p \in FixedSlots(0) /\ FixedViewport(TRUE)
                                      THEN ViewportOffset[view] ELSE Unwritten
      <4>1. outputs[p].layer = Unwritten /\ outputs[p].viewport = Unwritten
        BY <1>1 DEF Blank
      <4>2. /\ outputs'[p].layer = IF p \in FixedSlots(0) /\ FixedLayer(TRUE)
                                     THEN LayerOffset[view] ELSE outputs[p].layer
            /\ outputs'[p].viewport = IF p \in FixedSlots(0) /\ FixedViewport(TRUE)
                                        THEN ViewportOffset[view] ELSE outputs[p].viewport
        BY <2>1, WithFixedIs
      <4> QED BY <4>1, <4>2
    <3>2. p \in FixedSlots(0) /\ EmitsFixed(TRUE) <=> Placed(p)
      <4>1. setup.stage \in {"vertex", "domain", "geometry", "mesh"}
        BY DEF VITypeOK, Setups
      <4>2. Primitives \in Nat
        BY VIConstants DEF VIConstants
      <4> QED BY <1>1, <4>1, <4>2 DEF FixedSlots, EmitsFixed, Placed, Slots, Before
    <3>3. Placed(p)' = Placed(p)
      BY <1>1 DEF Placed
    <3>4. named'.layer = 0 /\ named'.viewport = 0
      BY <1>1 DEF Unnamed
    <3>5. LayerOK(p)'
      BY <1>2, <3>1, <3>2, <3>3, <3>4, FixedIs DEF LayerOK, SameSetup
    <3>6. ViewportOK(p)'
      BY <1>2, <3>1, <3>2, <3>3, <3>4, FixedIs DEF ViewportOK, SameSetup
    <3> QED BY <3>5, <3>6
  <2>4. BodyOK'
    BY <1>2, <1>5, <2>3 DEF BodyOK, SameSetup
  <2> QED BY <1>1, <1>3, <2>1, <2>2, <2>4 DEF EntryOK, DrawnOK
<1> QED BY <1>4, <1>5

\* A step that leaves the setup alone and stays in the body.
LEMMA StaysInBody ==
  ASSUME VIInv, step = "body", UNCHANGED <<setup, view, step>>,
         outputs' \in [Slots -> Output], named' \in [layer : Nat, viewport : Nat],
         \A p \in Slots : LayerOK(p)' /\ ViewportOK(p)',
         NEW used \in SUBSET {ViewMapAs}, RecordUses(used),
         \A d \in drawn' : d \in drawn \/ Good(d[1], d[2])
  PROVE  VIInv'
<1> USE DEF VIInv
<1>1. SameSetup
  <2>1. setup \in Setups /\ setup' = [setup EXCEPT !.counted = setup.counted]
        /\ setup.counted \in {Before} \cup Nat
    BY DEF VITypeOK, Setups
  <2>2. Frame
    BY <2>1 DEF Frame
  <2> QED BY <2>1, <2>2, SetupKept
<1>2. MapOK'
  BY <1>1, MapKept DEF SameSetup
<1>3. VITypeOK'
  BY <1>1 DEF VITypeOK, SameSetup
<1>4. BodyOK' /\ EntryOK'
  BY <1>1 DEF BodyOK, EntryOK, SameSetup
<1>5. DrawnOK'
  BY <1>1, GoodKept DEF DrawnOK
<1> QED BY <1>2, <1>3, <1>4, <1>5

LEMMA StoreLayerInv == ASSUME VIInv, NEW x \in Named, StoreLayer(x) PROVE VIInv'
<1> USE DEF VIInv
<1> DEFINE new == IF PerView THEN x + LayerFromUBO(view) ELSE x
           used == IF PerView THEN {"ubo"} ELSE {}
<1>1. /\ step = "body" /\ setup.declaresLayer /\ UNCHANGED <<setup, view, step, drawn>>
      /\ outputs' = [p \in Slots |-> [outputs[p] EXCEPT !.layer = new]]
      /\ named' = [named EXCEPT !.layer = x] /\ RecordUses(used)
  BY DEF StoreLayer
<1>2. x \in Nat /\ new \in Nat /\ new = x + (IF PerView THEN LayerOffset[view] ELSE 0)
  BY Offsets, VIConstants DEF VIConstants, VITypeOK
<1> HIDE DEF new
<1>3. used \in SUBSET {ViewMapAs}
  BY <1>1 DEF VITypeOK, ViewMapAs, HardwareMultiview, CustomLayer, PerView
<1> HIDE DEF used
<1>4. \A p \in Slots : /\ outputs'[p] \in Output /\ outputs'[p].layer = new
                        /\ outputs'[p].viewport = outputs[p].viewport
  BY <1>1, <1>2 DEF VITypeOK, Output
<1>5. outputs' \in [Slots -> Output]
  BY <1>1, <1>4, Zenon
<1>6. /\ named' \in [layer : Nat, viewport : Nat]
      /\ named'.layer = x /\ named'.viewport = named.viewport
  BY <1>1, <1>2 DEF VITypeOK
<1>7. ASSUME NEW p \in Slots PROVE LayerOK(p)' /\ ViewportOK(p)'
  <2>1. PerView' = PerView
    BY <1>1 DEF PerView
  <2>2. LayerOK(p)'
    BY <1>1, <1>2, <1>4, <1>6, <2>1 DEF LayerOK
  <2>3. ViewportOK(p)
    BY <1>1 DEF BodyOK
  <2>4. Placed(p)' = Placed(p) /\ StoresViewport' = StoresViewport /\ ViewportInMap' = ViewportInMap
    BY <1>1 DEF Placed, StoresViewport, ViewportInMap, PerView, CustomViewport
  <2>5. ViewportOK(p)'
    BY <1>1, <1>4, <1>6, <2>3, <2>4 DEF ViewportOK
  <2> QED BY <2>2, <2>5
<1> QED BY <1>1, <1>3, <1>5, <1>6, <1>7, StaysInBody

LEMMA StoreViewportInv == ASSUME VIInv, NEW x \in Named, StoreViewport(x) PROVE VIInv'
<1> USE DEF VIInv
<1> DEFINE new == IF StoresViewport THEN x + ViewportFromMap(view) ELSE x
           used == IF StoresViewport THEN {ViewMapAs} ELSE {}
<1>1. /\ step = "body" /\ setup.declaresViewport /\ UNCHANGED <<setup, view, step, drawn>>
      /\ outputs' = [p \in Slots |-> [outputs[p] EXCEPT !.viewport = new]]
      /\ named' = [named EXCEPT !.viewport = x] /\ RecordUses(used)
  BY DEF StoreViewport, StoresViewport
<1>2. x \in Nat /\ new \in Nat /\ new = x + (IF StoresViewport THEN ViewportOffset[view] ELSE 0)
  BY Offsets, VIConstants DEF VIConstants, VITypeOK
<1> HIDE DEF new
<1>3. used \in SUBSET {ViewMapAs}
  OBVIOUS
<1> HIDE DEF used
<1>4. \A p \in Slots : /\ outputs'[p] \in Output /\ outputs'[p].viewport = new
                        /\ outputs'[p].layer = outputs[p].layer
  BY <1>1, <1>2 DEF VITypeOK, Output
<1>5. outputs' \in [Slots -> Output]
  BY <1>1, <1>4, Zenon
<1>6. /\ named' \in [layer : Nat, viewport : Nat]
      /\ named'.viewport = x /\ named'.layer = named.layer
  BY <1>1, <1>2 DEF VITypeOK
<1>7. ASSUME NEW p \in Slots PROVE LayerOK(p)' /\ ViewportOK(p)'
  <2>1. StoresViewport' = StoresViewport
    BY <1>1 DEF StoresViewport, PerView
  <2>2. ViewportOK(p)'
    BY <1>1, <1>2, <1>4, <1>6, <2>1 DEF ViewportOK
  <2>3. LayerOK(p)
    BY <1>1 DEF BodyOK
  <2>4. Placed(p)' = Placed(p) /\ PerView' = PerView /\ LayerInConstant' = LayerInConstant
    BY <1>1 DEF Placed, LayerInConstant, PerView, CustomLayer
  <2>5. LayerOK(p)'
    BY <1>1, <1>4, <1>6, <2>3, <2>4 DEF LayerOK
  <2> QED BY <2>2, <2>5
<1> QED BY <1>1, <1>3, <1>5, <1>6, <1>7, StaysInBody

LEMMA EmitVertexInv == ASSUME VIInv, EmitVertex PROVE VIInv'
<1> USE DEF VIInv
<1> DEFINE o == WithFixed(FALSE, 0)[0]
<1>1. /\ step = "body" /\ setup.stage = "geometry" /\ AllWritten
      /\ UNCHANGED <<setup, view, step>>
      /\ drawn' = drawn \cup {<<[o EXCEPT !.position = "shader"], named>>}
      /\ outputs' = [p \in Slots |-> Blank] /\ named' = Unnamed
      /\ RecordUses(FixedMapUses(FALSE))
  BY DEF EmitVertex
<1>2. Slots = {0} /\ FixedSlots(0) = {0} /\ EmitsFixed(FALSE) /\ ~ Placed(0)
  BY <1>1 DEF Slots, FixedSlots, EmitsFixed, Placed
<1>3. /\ o \in Output
      /\ o.layer = IF FixedLayer(FALSE) THEN LayerOffset[view] ELSE outputs[0].layer
      /\ o.viewport = IF FixedViewport(FALSE) THEN ViewportOffset[view] ELSE outputs[0].viewport
  BY <1>2, WithFixedIs
<1> HIDE DEF o
<1>4. LayerOK(0) /\ ViewportOK(0) /\ ~ MaskedOut
  BY <1>1, <1>2 DEF BodyOK
<1>5. Good([o EXCEPT !.position = "shader"], named)
  <2>1. named \in [layer : Nat, viewport : Nat]
    BY DEF VITypeOK
  <2>2. IF setup.declaresLayer
          THEN o.layer = named.layer + (IF PerView THEN LayerOffset[view] ELSE 0)
          ELSE /\ named.layer = 0
               /\ o.layer = IF LayerInConstant THEN LayerOffset[view] ELSE Unwritten
    BY <1>1, <1>2, <1>3, <1>4, FixedIs DEF LayerOK, AllWritten
  <2>3. IF setup.declaresViewport
          THEN o.viewport = named.viewport + (IF StoresViewport THEN ViewportOffset[view] ELSE 0)
          ELSE /\ named.viewport = 0
               /\ o.viewport = IF ViewportInMap THEN ViewportOffset[view] ELSE Unwritten
    BY <1>1, <1>2, <1>3, <1>4, FixedIs DEF ViewportOK, AllWritten
  <2> QED BY <1>3, <1>4, <2>1, <2>2, <2>3, DrawnIsGood
<1>6. outputs' \in [Slots -> Output] /\ named' \in [layer : Nat, viewport : Nat]
  <2>1. Blank \in Output /\ Unnamed \in [layer : Nat, viewport : Nat]
    BY DEF Blank, Output, Unnamed
  <2> QED BY <1>1, <2>1, Zenon
<1>7. ASSUME NEW p \in Slots PROVE LayerOK(p)' /\ ViewportOK(p)'
  <2>1. ~ Placed(p)'
    BY <1>1 DEF Placed
  <2>2. /\ outputs'[p].layer = Unwritten /\ outputs'[p].viewport = Unwritten
        /\ named'.layer = 0 /\ named'.viewport = 0
    BY <1>1 DEF Blank, Unnamed
  <2> QED BY <2>1, <2>2 DEF LayerOK, ViewportOK
<1>8. FixedMapUses(FALSE) \in SUBSET {ViewMapAs}
  BY FixedUses
<1>9. \A d \in drawn' : d \in drawn \/ Good(d[1], d[2])
  BY <1>1, <1>5
<1> QED BY <1>1, <1>6, <1>7, <1>8, <1>9, StaysInBody

LEMMA CountsInv == ASSUME VIInv, NEW n \in 0 .. Primitives, SetMeshOutputs(n) PROVE VIInv'
<1> USE DEF VIInv
<1>0. n \in Nat /\ Primitives \in Nat
  BY VIConstants DEF VIConstants
<1>1. /\ step = "body" /\ setup.stage = "mesh" /\ setup.counted = Before
      /\ setup' = [setup EXCEPT !.counted = n] /\ outputs' = WithFixed(FALSE, n)
      /\ RecordUses(FixedMapUses(FALSE)) /\ UNCHANGED <<view, step, drawn, named>>
  BY DEF SetMeshOutputs
<1>2. SameSetup /\ setup'.counted = n
  <2>1. setup \in Setups /\ n \in {Before} \cup Nat
    BY <1>0 DEF VITypeOK
  <2>2. Frame
    BY <1>1, <2>1 DEF Frame
  <2>3. setup'.counted = n
    BY <1>1, <2>1 DEF Setups
  <2> QED BY <2>1, <2>2, <2>3, SetupKept
<1>3. VITypeOK'
  <2>1. setup'.counted # Before
    BY <1>0, <1>2 DEF Before
  <2> QED BY <1>1, <1>2, <2>1, WithFixedIs DEF VITypeOK, SameSetup
<1>4. MapOK'
  <2>1. FixedMapUses(FALSE) \in SUBSET {ViewMapAs}
    BY FixedUses
  <2> QED BY <1>1, <1>2, <2>1, MapKept DEF SameSetup
<1>5. ASSUME NEW p \in Slots PROVE LayerOK(p)' /\ ViewportOK(p)'
  <2>1. LayerOK(p) /\ ViewportOK(p)
    BY <1>1 DEF BodyOK
  <2>2. ~ Placed(p) /\ (Placed(p)' <=> p \in FixedSlots(n)) /\ EmitsFixed(FALSE)
    <3>1. p \in Nat
      BY <1>0, <1>1 DEF Slots
    <3> QED BY <1>1, <1>2, <3>1 DEF Placed, FixedSlots, EmitsFixed, SameSetup, Before
  <2>3. /\ outputs'[p].layer = IF p \in FixedSlots(n) /\ FixedLayer(FALSE)
                                 THEN LayerOffset[view] ELSE outputs[p].layer
        /\ outputs'[p].viewport = IF p \in FixedSlots(n) /\ FixedViewport(FALSE)
                                    THEN ViewportOffset[view] ELSE outputs[p].viewport
    BY <1>1, WithFixedIs
  <2>4. LayerOK(p)'
    BY <1>1, <1>2, <2>1, <2>2, <2>3, FixedIs DEF LayerOK, SameSetup
  <2>5. ViewportOK(p)'
    BY <1>1, <1>2, <2>1, <2>2, <2>3, FixedIs DEF ViewportOK, SameSetup
  <2> QED BY <2>4, <2>5
<1>6. BodyOK' /\ EntryOK'
  BY <1>1, <1>2, <1>5 DEF BodyOK, EntryOK, SameSetup
<1>7. DrawnOK'
  BY <1>1, <1>2, GoodKept DEF DrawnOK
<1> QED BY <1>3, <1>4, <1>6, <1>7

LEMMA ReturnInv == ASSUME VIInv, ReturnFromShader PROVE VIInv'
<1> USE DEF VIInv
<1> DEFINE Drawn(p) == [outputs[p] EXCEPT !.position = "shader"]
<1>1. /\ step = "body" /\ setup.counted # Before /\ (setup.stage = "geometry" \/ AllWritten)
      /\ step' = "returned" /\ UNCHANGED <<setup, view, viewMap, mapUses, outputs, named>>
      /\ drawn' = CASE setup.stage = "mesh" -> {<<Drawn(p), named>> : p \in {q \in Slots : q < setup.counted}}
                    [] setup.stage = "geometry" -> drawn
                    [] OTHER -> {<<Drawn(0), named>>}
  BY DEF ReturnFromShader
<1>2. SameSetup
  <2>1. setup \in Setups /\ setup' = [setup EXCEPT !.counted = setup.counted]
        /\ setup.counted \in {Before} \cup Nat
    BY <1>1 DEF VITypeOK, Setups
  <2>2. Frame
    BY <1>1, <2>1 DEF Frame
  <2> QED BY <2>1, <2>2, SetupKept
<1>3. VITypeOK' /\ MapOK' /\ EntryOK' /\ BodyOK'
  BY <1>1, <1>2 DEF VITypeOK, SameSetup, MapOK, EntryOK, BodyOK
<1>4. ASSUME NEW p \in Slots, Placed(p), AllWritten PROVE Good(Drawn(p), named)
  <2>1. outputs[p] \in Output /\ named \in [layer : Nat, viewport : Nat]
    BY DEF VITypeOK
  <2>2. LayerOK(p) /\ ViewportOK(p) /\ ~ MaskedOut
    BY <1>1 DEF BodyOK
  <2>3. IF setup.declaresLayer
          THEN outputs[p].layer = named.layer + (IF PerView THEN LayerOffset[view] ELSE 0)
          ELSE /\ named.layer = 0
               /\ outputs[p].layer = IF LayerInConstant THEN LayerOffset[view] ELSE Unwritten
    BY <1>4, <2>2 DEF LayerOK, AllWritten
  <2>4. IF setup.declaresViewport
          THEN outputs[p].viewport = named.viewport + (IF StoresViewport THEN ViewportOffset[view] ELSE 0)
          ELSE /\ named.viewport = 0
               /\ outputs[p].viewport = IF ViewportInMap THEN ViewportOffset[view] ELSE Unwritten
    BY <1>4, <2>2 DEF ViewportOK, AllWritten
  <2> QED BY <2>1, <2>2, <2>3, <2>4, DrawnIsGood
<1> HIDE DEF Drawn
<1>5. \A d \in drawn' : d \in drawn \/ Good(d[1], d[2])
  <2>1. CASE setup.stage = "mesh"
    <3>1. \A d \in drawn' : \E p \in Slots : d = <<Drawn(p), named>> /\ p < setup.counted
      BY <1>1, <2>1
    <3>2. \A p \in Slots : p < setup.counted => Good(Drawn(p), named)
      BY <1>1, <1>4, <2>1 DEF Placed
    <3> QED BY <3>1, <3>2
  <2>2. CASE setup.stage = "geometry"
    BY <1>1, <2>2
  <2>3. CASE setup.stage \notin {"mesh", "geometry"}
    <3>1. drawn' = {<<Drawn(0), named>>}
      BY <1>1, <2>3
    <3>2. 0 \in Slots /\ Placed(0) /\ AllWritten
      BY <1>1, <2>3 DEF Slots, Placed, VITypeOK, Setups
    <3> QED BY <1>4, <3>1, <3>2
  <2> QED BY <2>1, <2>2, <2>3
<1>6. DrawnOK'
  BY <1>2, <1>5, GoodKept DEF DrawnOK
<1> QED BY <1>3, <1>6

\* Whatever the stage, the options and the number of threads, primitives and views:
\* what reaches the rasterizer is in the layer and the viewport that the shader
\* named plus the offsets of the view, each added once, nothing of a view that is
\* masked out is more than a degenerate vertex, and the identifier of the view map
\* is used only as what it was created as
\* (emit_view_instancing_fixed_layer_viewport, emit_view_masking).
THEOREM VIViewsPlaced ==
  ASSUME LayersHaveConstant PROVE ViewSpec => []ViewsPlaced
<1>1. ViewInit => VIInv
  BY VIInitInv
<1>2. VIInv /\ [ViewNext]_viVars => VIInv'
  <2> SUFFICES ASSUME VIInv, [ViewNext]_viVars PROVE VIInv'
    OBVIOUS
  <2>1. CASE UNCHANGED viVars
    <3>1. UNCHANGED <<setup, view, step, viewMap, mapUses, outputs, drawn, named>>
      BY <2>1 DEF viVars
    <3>2. setup \in Setups /\ Frame
      <4>1. setup \in Setups /\ setup' = [setup EXCEPT !.counted = setup.counted]
            /\ setup.counted \in {Before} \cup Nat
        BY <3>1 DEF VIInv, VITypeOK, Setups
      <4> QED BY <3>1, <4>1 DEF Frame
    <3>3. SameSetup
      BY <3>2, SetupKept
    <3>4. VITypeOK' /\ EntryOK' /\ MapOK'
      BY <3>1, <3>3 DEF VIInv, VITypeOK, EntryOK, MapOK, SameSetup
    <3>5. \A p : LayerOK(p)' = LayerOK(p) /\ ViewportOK(p)' = ViewportOK(p)
      BY <3>1, <3>3 DEF LayerOK, ViewportOK, Placed, SameSetup
    <3>6. BodyOK' /\ DrawnOK'
      BY <3>1, <3>3, <3>5, GoodKept DEF VIInv, BodyOK, DrawnOK, SameSetup
    <3> QED BY <3>4, <3>6 DEF VIInv
  <2> QED BY <2>1, EnterInv, StoreLayerInv, StoreViewportInv, EmitVertexInv, CountsInv, ReturnInv
          DEF ViewNext
<1>3. VIInv => ViewsPlaced
  <2> SUFFICES ASSUME VIInv PROVE ViewsPlaced
    OBVIOUS
  <2>1. mapUses \subseteq {viewMap}
    BY DEF VIInv, MapOK
  <2> QED BY <2>1 DEF VIInv, DrawnOK, Good, ViewsPlaced
<1> QED BY <1>1, <1>2, <1>3, PTL DEF ViewSpec

=============================================================================
