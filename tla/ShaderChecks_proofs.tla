------------------------- MODULE ShaderChecks_proofs -------------------------
(***************************************************************************)
(* Proofs about the checks that run inside of the shader: DescriptorQA and *)
(* BDAValidate.                                                            *)
(***************************************************************************)
EXTENDS DescriptorQA, BDAValidate, FiniteSetTheorems, TLAPS

-----------------------------------------------------------------------------
(***************************************************************************)
(* Proofs about DescriptorQA for every set of calls, every heap and every  *)
(* atomic width that is not smaller than the number of calls.              *)
(*                                                                         *)
(* The argument: fault_atomic counts the calls that have claimed a number, *)
(* so as long as it has not wrapped, only the first of them reads 0        *)
(* (CounterInv).  That call is the only one with pending stores, the       *)
(* report agrees with it on every field that is no longer pending, and     *)
(* fault_type is stored only when none is pending (ReporterInv).           *)
(***************************************************************************)

\* The hypothesis of the safety theorems: the 32-bit counter does not wrap.
NoWrap == Cardinality(Calls) <= AtomicRange

\* Calls that have executed the atomic increment.
Claimed == {c \in Calls : prev[c] # NoPrev}

CounterInv ==
  /\ \A c \in Calls : pc[c] \in {"idle", "load", "passed", "fault"} <=> prev[c] = NoPrev
  /\ fault_atomic = Cardinality(Claimed) \/ Cardinality(Claimed) = AtomicRange
  /\ SingleReporter

ReporterInv ==
  /\ \A c \in Calls : pending[c] # {} => pc[c] = "report"
  /\ \A c \in Calls : pc[c] = "report" => prev[c] = 0 /\ fault_type = {}
  /\ \A c \in Calls : pc[c] = "fault" \/ prev[c] = 0 => FaultsOf(c) # {}
  /\ \A c \in Calls : prev[c] = 0 =>
       \A f \in Fields : f \notin pending[c] => report[f] = CallReport(c)[f]
  /\ \A c \in Calls : prev[c] = 0 /\ pc[c] = "fallback" => fault_type = FaultsOf(c)
  /\ fault_type # {} => \E c \in Calls : prev[c] = 0 /\ pc[c] = "fallback"

QAInv == QATypeOK /\ CounterInv /\ ReporterInv

-----------------------------------------------------------------------------

\* A counter below its range is not reduced.
LEMMA ModSmall ==
  ASSUME NEW n \in Nat, NEW r \in Nat \ {0}, n < r
  PROVE  n % r = n
OBVIOUS

\* Claiming a number adds the call to Claimed; no wrap happens before.
LEMMA ClaimedGrows ==
  ASSUME NoWrap, NEW c \in Calls, prev[c] = NoPrev
  PROVE  /\ IsFiniteSet(Claimed)
         /\ Cardinality(Claimed) \in Nat
         /\ Cardinality(Claimed) < AtomicRange
         /\ Cardinality(Claimed \cup {c}) = Cardinality(Claimed) + 1
<1>1. IsFiniteSet(Claimed) /\ IsFiniteSet(Calls)
  BY QAConstants, FS_Subset DEF Claimed, QAConstants
<1>2. c \notin Claimed /\ Claimed \cup {c} \subseteq Calls
  BY DEF Claimed
<1>3. Cardinality(Claimed \cup {c}) = Cardinality(Claimed) + 1
  BY <1>1, <1>2, FS_AddElement
<1>4. Cardinality(Claimed \cup {c}) <= Cardinality(Calls)
  BY <1>1, <1>2, FS_Subset
<1>5. Cardinality(Claimed) \in Nat /\ Cardinality(Calls) \in Nat
  BY <1>1, FS_CardinalityType
<1> QED
  BY <1>1, <1>3, <1>4, <1>5, QAConstants DEF NoWrap, QAConstants

\* Every variable keeps its type.
LEMMA TypeInit == QAInit => QATypeOK
<1> SUFFICES ASSUME QAInit PROVE QATypeOK
  OBVIOUS
<1>1. NullEntry \in Entries
  BY QAConstants DEF NullEntry, Entries, Times, QAConstants
<1>2. [offset |-> 0, mask |-> {}] \in Args
  BY QAConstants DEF Args, QAConstants
<1>3. live_status_table \in TableWords
  <2>1. ASSUME NEW k \in Cookies
        PROVE  CookieBit(k) \in 0 .. CookiesPerWord - 1
    BY QAConstants DEF CookieBit, QAConstants
  <2> QED BY <2>1 DEF QAInit, TableWords
<1>4. IsReport(report)
  BY DEF QAInit, ZeroReport, IsReport
<1>5. fault_atomic \in 0 .. AtomicRange - 1 /\ clock \in Times /\ va_map_timestamp \in Times
  BY QAConstants DEF QAInit, Times, QAConstants
<1>6. /\ heap \in [0 .. DescriptorCount - 1 -> Entries]
      /\ entry \in [Calls -> Entries]
      /\ arg \in [Calls -> Args]
  BY <1>1, <1>2 DEF QAInit
<1>7. /\ pc \in [Calls -> PCs]
      /\ loaded \in [Calls -> SUBSET {"timestamp", "entry", "status"}]
      /\ timestamp \in [Calls -> Times]
      /\ status \in [Calls -> SUBSET (0 .. CookiesPerWord - 1)]
      /\ prev \in [Calls -> {NoPrev} \cup (0 .. AtomicRange - 1)]
      /\ pending \in [Calls -> SUBSET Fields]
      /\ dead_at_start \in [Calls -> SUBSET Cookies]
      /\ fault_type \in SUBSET FaultBits
      /\ dead \in SUBSET Cookies
  BY QAConstants DEF QAInit, PCs, Times, QAConstants
<1> QED BY <1>3, <1>4, <1>5, <1>6, <1>7 DEF QATypeOK

LEMMA TypeStep == QATypeOK /\ [QANext]_vars => QATypeOK'
<1> SUFFICES ASSUME QATypeOK, [QANext]_vars PROVE QATypeOK'
  OBVIOUS
<1> USE DEF QATypeOK
<1>1. ASSUME NEW c \in Calls, Start(c) PROVE QATypeOK'
  BY <1>1 DEF Start, bufferVars, hostVars, loadVars, PCs
<1>2. ASSUME NEW c \in Calls, LoadTimestamp(c) PROVE QATypeOK'
  BY <1>2 DEF LoadTimestamp, bufferVars, hostVars
<1>3. ASSUME NEW c \in Calls, LoadEntry(c) PROVE QATypeOK'
  BY <1>3 DEF LoadEntry, bufferVars, hostVars
<1>4. ASSUME NEW c \in Calls, LoadStatus(c) PROVE QATypeOK'
  <2>1. live_status_table[CookieWord(entry[c].cookie)] \in SUBSET (0 .. CookiesPerWord - 1)
    BY ZenonT(30) DEF TableWords, Words, Entries
  <2> QED BY <1>4, <2>1 DEF LoadStatus, bufferVars, hostVars
<1>5. ASSUME NEW c \in Calls, Check(c) PROVE QATypeOK'
  BY <1>5 DEF Check, bufferVars, hostVars, loadVars, PCs
<1>6. ASSUME NEW c \in Calls, IncrementFaultAtomic(c) PROVE QATypeOK'
  <2>1. (fault_atomic + 1) % AtomicRange \in 0 .. AtomicRange - 1
    BY QAConstants DEF QAConstants
  <2> QED BY <1>6, <2>1 DEF IncrementFaultAtomic, NextCount, hostVars, loadVars, PCs
<1>7. ASSUME NEW c \in Calls, NEW f \in Fields, StoreField(c, f) PROVE QATypeOK'
  <2>1. IsReport(report)'
    BY <1>7 DEF StoreField, IsReport
  <2> QED BY <1>7, <2>1 DEF StoreField, hostVars, loadVars
<1>8. ASSUME NEW c \in Calls, StoreFaultType(c) PROVE QATypeOK'
  <2>1. FaultsOf(c) \in SUBSET FaultBits
    BY DEF FaultsOf
  <2> QED BY <1>8, <2>1 DEF StoreFaultType, hostVars, loadVars, PCs
<1>9. CASE HostMapVA
  BY <1>9, QAConstants DEF HostMapVA, bufferVars, loadVars, Times, QAConstants
<1>10. CASE HostSubmit
  BY <1>10 DEF HostSubmit, bufferVars, loadVars
<1>11. ASSUME NEW k \in Cookies, HostDestroy(k) PROVE QATypeOK'
  BY <1>11 DEF HostDestroy, bufferVars, loadVars, TableWords
<1>12. ASSUME NEW o \in 0 .. DescriptorCount - 1, NEW k \in Cookies,
              NEW info \in SUBSET TypeBits, HostWriteDescriptor(o, k, info)
       PROVE QATypeOK'
  <2>1. [cookie |-> k, timestamp |-> clock, info |-> info] \in Entries
    BY DEF Entries
  <2> QED BY <1>12, <2>1 DEF HostWriteDescriptor, bufferVars, loadVars
<1>13. CASE UNCHANGED vars
  BY <1>13 DEF vars, bufferVars, hostVars, loadVars
<1> QED
  BY <1>1, <1>2, <1>3, <1>4, <1>5, <1>6, <1>7, <1>8, <1>9, <1>10, <1>11,
     <1>12, <1>13 DEF QANext, CallStep, HostStep

\* Type correctness of the emitted check and report functions and the host.
THEOREM QATypeCorrect == QASpec => []QATypeOK
<1>1. QAInit => QATypeOK
  BY TypeInit
<1>2. QATypeOK /\ [QANext]_vars => QATypeOK'
  BY TypeStep
<1> QED BY <1>1, <1>2, PTL DEF QASpec

-----------------------------------------------------------------------------

\* What a call reports depends on its parameters and on what it loaded.
LEMMA CallDataFrame ==
  ASSUME NEW c \in Calls,
         UNCHANGED <<arg[c], entry[c], status[c], timestamp[c]>>
  PROVE  FaultsOf(c)' = FaultsOf(c) /\ CallReport(c)' = CallReport(c)
BY DEF FaultsOf, LiveCheck, CallReport, ReportOf

\* A step in which no call claims a number keeps the counter part.
LEMMA CounterFrame ==
  ASSUME CounterInv, UNCHANGED <<fault_atomic, prev>>,
         \A c \in Calls : pc'[c] \in {"idle", "load", "passed", "fault"}
                            <=> pc[c] \in {"idle", "load", "passed", "fault"}
  PROVE  CounterInv'
<1>1. Claimed' = Claimed
  BY DEF Claimed
<1> QED BY <1>1 DEF CounterInv, SingleReporter

LEMMA InvInit == QAInit => QAInv
<1> SUFFICES ASSUME QAInit PROVE QAInv
  OBVIOUS
<1>1. QATypeOK
  BY TypeInit
<1>2. CounterInv
  <2>1. Claimed = {}
    BY DEF QAInit, Claimed
  <2>2. Cardinality(Claimed) = 0
    BY <2>1, FS_EmptySet
  <2> QED BY <2>2 DEF QAInit, CounterInv, SingleReporter, NoPrev
<1>3. ReporterInv
  BY DEF QAInit, ReporterInv, NoPrev
<1> QED BY <1>1, <1>2, <1>3 DEF QAInv

\* The atomic increment: only the first claimer reads 0.
LEMMA IncrementKeepsCounter ==
  ASSUME NoWrap, QATypeOK, CounterInv, NEW c \in Calls, IncrementFaultAtomic(c)
  PROVE  CounterInv' /\ (fault_atomic = 0 => Claimed = {})
<1> USE DEF QATypeOK
<1>1. prev[c] = NoPrev
  BY DEF CounterInv, IncrementFaultAtomic
<1>2. /\ IsFiniteSet(Claimed)
      /\ Cardinality(Claimed) \in Nat
      /\ Cardinality(Claimed) < AtomicRange
      /\ Cardinality(Claimed \cup {c}) = Cardinality(Claimed) + 1
  BY <1>1, ClaimedGrows
<1>3. fault_atomic = Cardinality(Claimed)
  BY <1>2, QAConstants DEF CounterInv, QAConstants
<1>4. fault_atomic = 0 => Claimed = {}
  BY <1>2, <1>3, FS_EmptySet
<1>5. prev' = [prev EXCEPT ![c] = fault_atomic] /\ fault_atomic # NoPrev
  BY DEF IncrementFaultAtomic, NoPrev
<1>6. Claimed' = Claimed \cup {c}
  BY <1>5 DEF Claimed
<1>7. fault_atomic' = Cardinality(Claimed') \/ Cardinality(Claimed') = AtomicRange
  <2>1. CASE fault_atomic + 1 < AtomicRange
    BY <2>1, <1>2, <1>3, <1>6, ModSmall, QAConstants DEF IncrementFaultAtomic, NextCount, QAConstants
  <2>2. CASE fault_atomic + 1 = AtomicRange
    BY <2>2, <1>2, <1>3, <1>6
  <2> QED BY <2>1, <2>2, QAConstants DEF QAConstants
<1>8. \A d \in Calls : pc'[d] \in {"idle", "load", "passed", "fault"} <=> prev'[d] = NoPrev
  BY <1>5 DEF CounterInv, IncrementFaultAtomic
<1>9. SingleReporter'
  <2> SUFFICES ASSUME NEW d \in Calls, NEW e \in Calls, prev'[d] = 0, prev'[e] = 0
               PROVE  d = e
    BY DEF SingleReporter
  <2>1. CASE fault_atomic = 0
    BY <2>1, <1>4, <1>5 DEF Claimed, NoPrev
  <2>2. CASE fault_atomic # 0
    BY <2>2, <1>5 DEF CounterInv, SingleReporter
  <2> QED BY <2>1, <2>2
<1> QED BY <1>4, <1>7, <1>8, <1>9 DEF CounterInv

\* The increment hands the untouched report buffer to the first claimer.
LEMMA IncrementKeepsReporter ==
  ASSUME NoWrap, QAInv, NEW c \in Calls, IncrementFaultAtomic(c)
  PROVE  ReporterInv'
<1> USE DEF QAInv, QATypeOK
<1>1. /\ prev' = [prev EXCEPT ![c] = fault_atomic]
      /\ UNCHANGED <<report, fault_type, arg, entry, status, timestamp>>
      /\ pc[c] = "fault"
  BY DEF IncrementFaultAtomic, loadVars
<1>2. \A d \in Calls : FaultsOf(d)' = FaultsOf(d) /\ CallReport(d)' = CallReport(d)
  BY <1>1, CallDataFrame
<1>3. CASE fault_atomic = 0
  <2>1. Claimed = {}
    BY <1>3, IncrementKeepsCounter
  <2>2. \A d \in Calls : prev[d] = NoPrev /\ prev[d] # 0
    BY <2>1 DEF Claimed, NoPrev
  <2>3. fault_type = {}
    BY <2>2 DEF ReporterInv
  <2>4. /\ pc' = [pc EXCEPT ![c] = "report"]
        /\ pending' = [pending EXCEPT ![c] = Fields]
    BY <1>3 DEF IncrementFaultAtomic, IsFirstFault
  <2>5. \A d \in Calls : pc[d] \notin {"report", "fallback"}
    BY <2>2 DEF CounterInv
  <2> QED BY <1>1, <1>2, <1>3, <2>2, <2>3, <2>4, <2>5 DEF ReporterInv
<1>4. CASE fault_atomic # 0
  <2>1. pc' = [pc EXCEPT ![c] = "fallback"] /\ pending' = pending
    BY <1>4 DEF IncrementFaultAtomic, IsFirstFault
  <2>2. prev[c] # 0
    BY <1>1 DEF CounterInv, NoPrev
  <2> QED BY <1>1, <1>2, <1>4, <2>1, <2>2 DEF ReporterInv
<1> QED BY <1>3, <1>4

\* A step of a call that has not faulted yet leaves the report alone.
LEMMA EarlyStepKeepsInv ==
  ASSUME QAInv, NEW c \in Calls,
         UNCHANGED <<fault_atomic, report, fault_type, prev, pending>>,
         pc[c] \in {"idle", "load"},
         pc'[c] \in {"load", "passed", "fault"},
         \A d \in Calls \ {c} :
           UNCHANGED <<pc[d], arg[d], entry[d], status[d], timestamp[d]>>,
         pc'[c] = "fault" => FaultsOf(c)' # {}
  PROVE  CounterInv' /\ ReporterInv'
<1> USE DEF QAInv
<1>1. CounterInv'
  BY CounterFrame
<1>2. prev[c] = NoPrev /\ prev[c] # 0
  BY DEF CounterInv, NoPrev
<1>3. \A d \in Calls \ {c} : FaultsOf(d)' = FaultsOf(d) /\ CallReport(d)' = CallReport(d)
  BY CallDataFrame
<1>4. ReporterInv'
  BY <1>2, <1>3 DEF ReporterInv
<1> QED BY <1>1, <1>4

\* The stores and the publication of the only reporter.
LEMMA StoreKeepsReporter ==
  ASSUME QAInv, NEW c \in Calls, NEW f \in Fields, StoreField(c, f)
  PROVE  CounterInv' /\ ReporterInv'
<1> USE DEF QAInv, QATypeOK
<1>1. /\ report' = [report EXCEPT ![f] = CallReport(c)[f]]
      /\ pending' = [pending EXCEPT ![c] = @ \ {f}]
      /\ f \in pending[c]
      /\ UNCHANGED <<fault_atomic, fault_type, pc, prev, arg, entry, status, timestamp>>
  BY DEF StoreField, loadVars
<1>2. CounterInv'
  BY <1>1, CounterFrame
<1>3. \A d \in Calls : FaultsOf(d)' = FaultsOf(d) /\ CallReport(d)' = CallReport(d)
  BY <1>1, CallDataFrame
<1>4. pc[c] = "report" /\ prev[c] = 0
  BY <1>1 DEF ReporterInv
<1>5. \A d \in Calls : prev[d] = 0 => d = c
  BY <1>4 DEF CounterInv, SingleReporter
<1>6. \A g \in Fields : g \notin pending'[c] => report'[g] = CallReport(c)[g]
  <2>1. DOMAIN report = Fields
    BY DEF IsReport
  <2> QED BY <1>1, <1>4, <2>1 DEF ReporterInv
<1>7. ReporterInv'
  BY <1>1, <1>3, <1>4, <1>5, <1>6 DEF ReporterInv
<1> QED BY <1>2, <1>7

LEMMA PublishKeepsReporter ==
  ASSUME QAInv, NEW c \in Calls, StoreFaultType(c)
  PROVE  CounterInv' /\ ReporterInv'
<1> USE DEF QAInv, QATypeOK
<1>1. /\ pc[c] = "report" /\ pending[c] = {}
      /\ fault_type' = FaultsOf(c)
      /\ pc' = [pc EXCEPT ![c] = "fallback"]
      /\ UNCHANGED <<fault_atomic, report, prev, pending, arg, entry, status, timestamp>>
  BY DEF StoreFaultType, Barrier, loadVars
<1>2. CounterInv'
  BY <1>1, CounterFrame
<1>3. \A d \in Calls : FaultsOf(d)' = FaultsOf(d) /\ CallReport(d)' = CallReport(d)
  BY <1>1, CallDataFrame
<1>4. prev[c] = 0 /\ \A d \in Calls : prev[d] = 0 => d = c
  BY <1>1 DEF ReporterInv, CounterInv, SingleReporter
<1>5. \A d \in Calls : pc[d] = "report" => d = c
  BY <1>4 DEF ReporterInv
<1>6. ReporterInv'
  BY <1>1, <1>3, <1>4, <1>5 DEF ReporterInv
<1> QED BY <1>2, <1>6

LEMMA InvStep ==
  ASSUME NoWrap, QAInv, [QANext]_vars
  PROVE  QAInv'
<1>0. QATypeOK'
  BY TypeStep DEF QAInv
<1> SUFFICES CounterInv' /\ ReporterInv'
  BY <1>0 DEF QAInv
<1>1. ASSUME NEW c \in Calls, Start(c) PROVE CounterInv' /\ ReporterInv'
  BY <1>1, EarlyStepKeepsInv DEF Start, bufferVars, loadVars, QAInv, QATypeOK
<1>2. ASSUME NEW c \in Calls, LoadTimestamp(c) PROVE CounterInv' /\ ReporterInv'
  BY <1>2, EarlyStepKeepsInv DEF LoadTimestamp, bufferVars, QAInv, QATypeOK
<1>3. ASSUME NEW c \in Calls, LoadEntry(c) PROVE CounterInv' /\ ReporterInv'
  BY <1>3, EarlyStepKeepsInv DEF LoadEntry, bufferVars, QAInv, QATypeOK
<1>4. ASSUME NEW c \in Calls, LoadStatus(c) PROVE CounterInv' /\ ReporterInv'
  BY <1>4, EarlyStepKeepsInv DEF LoadStatus, bufferVars, QAInv, QATypeOK
<1>5. ASSUME NEW c \in Calls, Check(c) PROVE CounterInv' /\ ReporterInv'
  <2>1. FaultsOf(c)' = FaultsOf(c)
    BY <1>5, CallDataFrame DEF Check, loadVars
  <2> QED
    BY <1>5, <2>1, EarlyStepKeepsInv DEF Check, bufferVars, loadVars, QAInv, QATypeOK
<1>6. ASSUME NEW c \in Calls, IncrementFaultAtomic(c) PROVE CounterInv' /\ ReporterInv'
  BY <1>6, IncrementKeepsCounter, IncrementKeepsReporter DEF QAInv
<1>7. ASSUME NEW c \in Calls, NEW f \in Fields, StoreField(c, f)
      PROVE CounterInv' /\ ReporterInv'
  BY <1>7, StoreKeepsReporter
<1>8. ASSUME NEW c \in Calls, StoreFaultType(c) PROVE CounterInv' /\ ReporterInv'
  BY <1>8, PublishKeepsReporter
<1>9. CASE HostStep \/ UNCHANGED vars
  <2>1. UNCHANGED <<bufferVars, arg, pc, entry, status, timestamp, prev, pending>>
    BY <1>9 DEF HostStep, HostMapVA, HostSubmit, HostDestroy, HostWriteDescriptor,
                vars, loadVars
  <2>2. \A d \in Calls : FaultsOf(d)' = FaultsOf(d) /\ CallReport(d)' = CallReport(d)
    BY <2>1, CallDataFrame
  <2>3. CounterInv'
    BY <2>1, CounterFrame DEF QAInv, bufferVars
  <2>4. ReporterInv'
    BY <2>1, <2>2 DEF QAInv, ReporterInv, bufferVars
  <2> QED BY <2>3, <2>4
<1> QED
  BY <1>1, <1>2, <1>3, <1>4, <1>5, <1>6, <1>7, <1>8, <1>9 DEF QANext, CallStep

-----------------------------------------------------------------------------

LEMMA InvConsistent == QAInv => ReportConsistent
<1> SUFFICES ASSUME QAInv, fault_type # {} PROVE ReportConsistent
  BY DEF ReportConsistent
<1>1. PICK c \in Calls : prev[c] = 0 /\ pc[c] = "fallback"
  BY DEF QAInv, ReporterInv
<1>2. pending[c] = {} /\ fault_type = FaultsOf(c)
  BY <1>1 DEF QAInv, ReporterInv
<1>3. \A f \in Fields : report[f] = CallReport(c)[f]
  BY <1>1, <1>2 DEF QAInv, ReporterInv
<1>4. report = [f \in Fields |-> report[f]]
  BY DEF QAInv, QATypeOK, IsReport
<1>5. report = CallReport(c)
  <2>1. CallReport(c) = [f \in Fields |-> CallReport(c)[f]]
    BY DEF CallReport, ReportOf
  <2> QED BY <1>3, <1>4, <2>1
<1> QED BY <1>1, <1>2, <1>5 DEF ReportConsistent

\* A published report changes in no step.
LEMMA StepImmutable ==
  ASSUME NoWrap, QAInv, [QANext]_vars, fault_type # {}
  PROVE  UNCHANGED <<report, fault_type>>
<1>1. \A c \in Calls : pc[c] # "report" /\ pending[c] = {}
  BY DEF QAInv, ReporterInv
<1>2. ASSUME NEW c \in Calls, CallStep(c) PROVE UNCHANGED <<report, fault_type>>
  BY <1>1, <1>2 DEF CallStep, Start, LoadTimestamp, LoadEntry, LoadStatus, Check,
     IncrementFaultAtomic, StoreField, StoreFaultType, bufferVars
<1>3. CASE HostStep \/ UNCHANGED vars
  BY <1>3 DEF HostStep, HostMapVA, HostSubmit, HostDestroy, HostWriteDescriptor,
     vars, bufferVars
<1> QED BY <1>2, <1>3 DEF QANext

\* Every step is a step of the write-once slot, or leaves the slot alone.
LEMMA StepRefines ==
  ASSUME NoWrap, QAInv, QAInv', [QANext]_vars
  PROVE  [Slot!FSNext]_PublishedReport
<1>1. CASE fault_type # {}
  BY <1>1, StepImmutable DEF PublishedReport
<1>2. CASE fault_type = {} /\ fault_type' = {}
  BY <1>2 DEF PublishedReport
<1>3. CASE fault_type = {} /\ fault_type' # {}
  <2>1. PICK c \in Calls : report' = CallReport(c)' /\ fault_type' = FaultsOf(c)'
    <3>1. ReportConsistent'
      BY InvConsistent, PTL
    <3> QED BY <1>3, <3>1 DEF ReportConsistent
  <2>2. arg'[c] \in Args /\ entry'[c] \in Entries /\ fault_type' \in SUBSET FaultBits
    BY DEF QAInv, QATypeOK
  <2>3. report' = ReportOf(c, arg'[c], entry'[c])
    BY <2>1 DEF CallReport, ReportOf
  <2>4. [fields |-> report', faults |-> fault_type'] \in CompleteReports
    BY <1>3, <2>2, <2>3 DEF CompleteReports
  <2>5. Slot!Publish("QAGlobalData")
    BY <1>3, <2>4 DEF Slot!Publish, PublishedReport
  <2> QED BY <2>5 DEF Slot!FSNext
<1> QED BY <1>1, <1>2, <1>3

\* As long as the fault counter does not wrap, a host that observes
\* fault_type # 0 reads the complete report of a single call.
THEOREM QAReportConsistent ==
  ASSUME NoWrap
  PROVE  QASpec => [](ReportConsistent /\ SingleReporter)
<1>1. QAInit => QAInv
  BY InvInit
<1>2. QAInv /\ [QANext]_vars => QAInv'
  BY InvStep
<1>3. QAInv => ReportConsistent /\ SingleReporter
  BY InvConsistent DEF QAInv, CounterInv
<1> QED BY <1>1, <1>2, <1>3, PTL DEF QASpec

\* As long as the fault counter does not wrap, no later fault overwrites a
\* published report.
THEOREM QAReportImmutable ==
  ASSUME NoWrap
  PROVE  QASpec => ReportImmutable
<1>1. QAInit => QAInv
  BY InvInit
<1>2. QAInv /\ [QANext]_vars => QAInv'
  BY InvStep
<1>3. QAInv /\ [QANext]_vars
        => [fault_type # {} => UNCHANGED <<report, fault_type>>]_vars
  BY StepImmutable
<1> QED BY <1>1, <1>2, <1>3, PTL DEF QASpec, ReportImmutable

\* The emitted report protocol implements the write-once slot.
THEOREM QAImplementsFaultSlot ==
  ASSUME NoWrap
  PROVE  QASpec => ImplementsFaultSlot
<1>1. QAInit => QAInv
  BY InvInit
<1>2. QAInv /\ [QANext]_vars => QAInv'
  BY InvStep
<1>3. QAInit => Slot!FSInit
  BY DEF QAInit, Slot!FSInit, PublishedReport
<1>4. QAInv /\ QAInv' /\ [QANext]_vars => [Slot!FSNext]_PublishedReport
  BY StepRefines
<1> QED BY <1>1, <1>2, <1>3, <1>4, PTL DEF QASpec, ImplementsFaultSlot, Slot!FSSpec

-----------------------------------------------------------------------------
(* The lookup: why an offset that passes is valid.                         *)

LookupInv ==
  /\ va_map_timestamp <= clock
  /\ \A k \in dead : CookieBit(k) \notin live_status_table[CookieWord(k)]
  /\ \A c \in Calls :
       /\ dead_at_start[c] \subseteq dead
       /\ timestamp[c] <= va_map_timestamp
       /\ "status" \in loaded[c] => "entry" \in loaded[c]
       /\ pc[c] = "idle" => loaded[c] = {}
       /\ "status" \in loaded[c] /\ entry[c].cookie \in dead_at_start[c]
            => CookieBit(entry[c].cookie) \notin status[c]
       /\ pc[c] = "passed" => "status" \in loaded[c] /\ FaultsOf(c) = {}

LEMMA LookupInit == QAInit => LookupInv
BY DEF QAInit, LookupInv

LEMMA LookupStep ==
  ASSUME QATypeOK, QATypeOK', LookupInv, [QANext]_vars
  PROVE  LookupInv'
<1> USE DEF QATypeOK
<1>1. ASSUME NEW c \in Calls, Start(c) PROVE LookupInv'
  <2>1. \A d \in Calls \ {c} : FaultsOf(d)' = FaultsOf(d)
    BY <1>1, CallDataFrame DEF Start, loadVars
  <2> QED BY <1>1, <2>1 DEF Start, LookupInv, bufferVars, hostVars, loadVars
<1>2. ASSUME NEW c \in Calls, LoadTimestamp(c) PROVE LookupInv'
  <2>1. \A d \in Calls \ {c} : FaultsOf(d)' = FaultsOf(d)
    BY <1>2, CallDataFrame DEF LoadTimestamp
  <2>2. va_map_timestamp \in Int /\ \A d \in Calls : timestamp[d] \in Int
    BY QAConstants DEF Times, QAConstants
  <2> QED BY <1>2, <2>1, <2>2 DEF LoadTimestamp, LookupInv, hostVars
<1>3. ASSUME NEW c \in Calls, LoadEntry(c) PROVE LookupInv'
  <2>1. \A d \in Calls \ {c} : FaultsOf(d)' = FaultsOf(d)
    BY <1>3, CallDataFrame DEF LoadEntry
  <2> QED BY <1>3, <2>1 DEF LoadEntry, LookupInv, hostVars
<1>4. ASSUME NEW c \in Calls, LoadStatus(c) PROVE LookupInv'
  <2>1. \A d \in Calls \ {c} : FaultsOf(d)' = FaultsOf(d)
    BY <1>4, CallDataFrame DEF LoadStatus
  <2> QED BY <1>4, <2>1 DEF LoadStatus, LookupInv, hostVars
<1>5. ASSUME NEW c \in Calls, Check(c) PROVE LookupInv'
  <2>1. \A d \in Calls : FaultsOf(d)' = FaultsOf(d)
    BY <1>5, CallDataFrame DEF Check, loadVars
  <2> QED BY <1>5, <2>1 DEF Check, LookupInv, hostVars, loadVars
<1>6. ASSUME NEW c \in Calls,
             IncrementFaultAtomic(c) \/ StoreFaultType(c) \/ \E f \in Fields : StoreField(c, f)
      PROVE LookupInv'
  <2>1. UNCHANGED <<hostVars, loadVars, arg, dead_at_start>>
    BY <1>6 DEF IncrementFaultAtomic, StoreFaultType, StoreField
  <2>2. \A d \in Calls : FaultsOf(d)' = FaultsOf(d)
    BY <2>1, CallDataFrame DEF loadVars
  <2>3. \A d \in Calls : pc'[d] \in {"idle", "passed"} => pc'[d] = pc[d]
    BY <1>6 DEF IncrementFaultAtomic, StoreFaultType, StoreField
  <2> QED BY <2>1, <2>2, <2>3 DEF LookupInv, hostVars, loadVars
<1>7. CASE HostStep
  <2>1. UNCHANGED <<loadVars, arg, pc, dead_at_start>>
    BY <1>7 DEF HostStep, HostMapVA, HostSubmit, HostDestroy, HostWriteDescriptor
  <2>2. \A d \in Calls : FaultsOf(d)' = FaultsOf(d)
    BY <2>1, CallDataFrame DEF loadVars
  <2>3. /\ clock' \in Int /\ va_map_timestamp' \in Int /\ clock \in Int
        /\ va_map_timestamp \in Int /\ \A d \in Calls : timestamp[d] \in Int
    BY QAConstants DEF Times, QAConstants
  <2>4. /\ va_map_timestamp' <= clock' /\ va_map_timestamp <= va_map_timestamp'
        /\ dead \subseteq dead'
    BY <1>7, <2>3 DEF HostStep, HostMapVA, HostSubmit, HostDestroy,
       HostWriteDescriptor, LookupInv
  <2>5. \A k \in dead' : CookieBit(k) \notin live_status_table'[CookieWord(k)]
    <3>1. ASSUME NEW j \in Cookies, HostDestroy(j)
          PROVE  \A k \in dead' : CookieBit(k) \notin live_status_table'[CookieWord(k)]
      BY <3>1 DEF HostDestroy, LookupInv, TableWords, Words
    <3>2. CASE UNCHANGED <<live_status_table, dead>>
      BY <3>2 DEF LookupInv
    <3> QED BY <1>7, <3>1, <3>2 DEF HostStep, HostMapVA, HostSubmit, HostWriteDescriptor
  <2>6. \A d \in Calls : timestamp'[d] <= va_map_timestamp'
    BY <2>1, <2>3, <2>4 DEF LookupInv, loadVars
  <2> QED BY <2>1, <2>2, <2>4, <2>5, <2>6 DEF LookupInv, loadVars
<1>8. CASE UNCHANGED vars
  <2>1. \A d \in Calls : FaultsOf(d)' = FaultsOf(d)
    BY <1>8, CallDataFrame DEF vars, loadVars
  <2> QED BY <1>8, <2>1 DEF LookupInv, vars, hostVars, loadVars
<1> QED
  BY <1>1, <1>2, <1>3, <1>4, <1>5, <1>6, <1>7, <1>8 DEF QANext, CallStep

LEMMA LookupValid == QATypeOK /\ LookupInv => PassedCallIsValid
<1> SUFFICES ASSUME QATypeOK, LookupInv, NEW c \in Calls, pc[c] = "passed"
             PROVE  /\ arg[c].offset < DescriptorCount
                    /\ arg[c].mask \subseteq entry[c].info
                    /\ entry[c].cookie \notin dead_at_start[c]
                    /\ entry[c].timestamp <= va_map_timestamp
  BY DEF PassedCallIsValid
<1>1. \A b \in FaultBits : b \notin FaultsOf(c)
  BY DEF LookupInv
<1>2. /\ ~ (arg[c].offset >= DescriptorCount)
      /\ arg[c].mask \subseteq entry[c].info
      /\ LiveCheck(c)
      /\ timestamp[c] >= entry[c].timestamp
  BY <1>1 DEF FaultsOf, FaultBits
<1>3. /\ arg[c].offset \in Nat /\ entry[c].timestamp \in Int
      /\ timestamp[c] \in Int /\ va_map_timestamp \in Int
  <2>1. arg[c] \in Args /\ entry[c] \in Entries
    BY DEF QATypeOK
  <2>2. timestamp[c] \in Times /\ va_map_timestamp \in Times
    BY DEF QATypeOK
  <2>3. arg[c].offset \in Offsets /\ entry[c].timestamp \in Times
    BY <2>1 DEF Args, Entries
  <2>4. Offsets \subseteq Nat /\ Times \subseteq Int
    BY QAConstants DEF Times, QAConstants
  <2> QED BY <2>2, <2>3, <2>4
<1>4. entry[c].cookie \notin dead_at_start[c]
  BY <1>2 DEF LookupInv, LiveCheck
<1>5. arg[c].offset < DescriptorCount
  BY <1>2, <1>3, QAConstants DEF QAConstants
<1>6. entry[c].timestamp <= va_map_timestamp
  BY <1>2, <1>3 DEF LookupInv
<1> QED BY <1>2, <1>4, <1>5, <1>6

\* An offset that descriptor_qa_check lets through is in range, of the right
\* type, of a resource that was alive when the call began and no younger than
\* the submitted VA mappings; here the counter may wrap.
THEOREM QAPassedCallIsValid == QASpec => []PassedCallIsValid
<1>1. QAInit => QATypeOK /\ LookupInv
  BY TypeInit, LookupInit
<1>2. QATypeOK /\ LookupInv /\ [QANext]_vars => QATypeOK' /\ LookupInv'
  BY TypeStep, LookupStep
<1>3. QATypeOK /\ LookupInv => PassedCallIsValid
  BY LookupValid
<1> QED BY <1>1, <1>2, <1>3, PTL DEF QASpec

-----------------------------------------------------------------------------
(***************************************************************************)
(* Proofs about BDAValidate for any number of invocations and accesses,    *)
(* any hash and a filter of any size.                                      *)
(*                                                                         *)
(* The argument.  Every mark and every lock in the filter has somebody who *)
(* left it (MarksHaveCause, LocksHaveCause), and nobody takes one away.    *)
(* An invocation at work has marked the cells it is done with, and what it *)
(* remembers as prev_hazard lies between the marks of the accesses that    *)
(* had returned before it began and the marks of those cells (WorkOK).     *)
(* That is why an earlier race is seen, and then not excused by a lock.    *)
(* An invocation that is alone in its window finds nothing in a cell that  *)
(* no other window uses, so that it gets exclusive access and leaves its   *)
(* lock, which excuses it from then on (AloneOK).                          *)
(***************************************************************************)

\* A cell of window w that no other window hashes to.
Private(w, h) ==
  \A v \in Windows : v # w => \A g \in Hashes : Cell(v, g) # Cell(w, h)

\* The hypothesis of the theorem about reports: the bloom filter has no false
\* positives, because every window has a private cell.
NoFalsePositives == \A w \in Windows : \E h \in Hashes : Private(w, h)

WindowOf(i) == acc[i].window
Working(i) == point[i] \in {"mark", "lock"}

\* The hashes whose atomic the current access has done.
MarkedHashes(i) == IF point[i] = "mark" THEN Hashes \ todo[i] ELSE Hashes

\* Marks and locks are left by an access or an owner; a finished access has
\* marked every cell of its window.
MarksHaveCause ==
  \A c \in Cells, o \in Ops : cells[c].marks[o] # {} =>
    \E x \in begun : /\ \E h \in Hashes : Cell(x[2].window, h) = c
                     /\ o \in Invalidates[x[2].op]

LocksHaveCause ==
  \A c \in Cells : \A b \in cells[c].lock :
    \E p \in owners, h \in LockHashes : Cell(p[2], h) = c /\ b \in LockMask(id[p[1]], h)

HasMarked(a, h) ==
  \A o \in Ops : InvalidationMask(a)[o] \subseteq cells[Cell(a.window, h)].marks[o]

FinishedOK ==
  \A x \in finished : \A h \in Hashes : HasMarked(x[2], h)

\* The ids of invocations, and what an invocation that is not at work has done.
CallerOK(i) ==
  /\ id[i] = NoId => /\ point[i] = "run" /\ verdict[i] = "none"
                     /\ \A x \in begun : x[1] # i
                     /\ \A p \in owners : p[1] # i
  /\ \A x \in begun : x[1] = i => x \in finished \/ (Working(i) /\ x = <<i, acc[i]>>)

\* An access at work.
WorkOK(i) ==
  Working(i) =>
    /\ <<i, acc[i]>> \in begun /\ acc[i].in_bounds /\ verdict[i] = "none"
    /\ past[i].finished \subseteq finished
    /\ \A h \in MarkedHashes(i) :
         /\ HasMarked(acc[i], h)
         /\ \A o \in Ops : prev_hazard[i][o] \subseteq cells[Cell(WindowOf(i), h)].marks[o]
    /\ \A x \in past[i].finished : x[2].window = WindowOf(i) =>
         \A o \in Ops : InvalidationMask(x[2])[o] \subseteq prev_hazard[i][o]
    /\ \A w \in Windows : <<i, w>> \in owners =>
         <<i, w>> \in past[i].owners \/ (point[i] = "lock" /\ exclusive[i])
    /\ point[i] = "lock" =>
         /\ exclusive[i] <=> TakesExclusiveOwnership(i)
         /\ exclusive[i] => <<i, WindowOf(i)>> \in owners
         /\ RacesWithPast(i) =>
              \A h \in LockHashes \ todo[i] : LockIsAbsent(i, h) => ~ self_lock[i]

\* Only invocation i has accessed window w, and its locks are complete.
Alone(i, w) == \A x \in begun : x[2].window = w => x[1] = i
Locked(i, w) == \A h \in LockHashes : LockMask(id[i], h) \subseteq cells[Cell(w, h)].lock

\* What invocation i's access knows of a window of which i is the only user.
AloneAtWork(i) ==
  \/ Locked(i, WindowOf(i)) /\ (point[i] = "lock" => self_lock[i])
  \/ /\ point[i] = "mark"
     /\ \A h \in Hashes : Private(WindowOf(i), h) =>
          \/ /\ h \in todo[i]
             /\ \A o \in Ops : cells[Cell(WindowOf(i), h)].marks[o] = {}
          \/ \A o \in Ops : prev_hazard[i][o] = {}
  \/ /\ point[i] = "lock" /\ exclusive[i]
     /\ \A o \in Ops : prev_hazard[i][o] = {}
     /\ \A h \in LockHashes \ todo[i] :
          LockMask(id[i], h) \subseteq cells[Cell(WindowOf(i), h)].lock

\* Where i is the only user of a window, its locks excuse it from the second
\* access on.
AloneOK(i) ==
  /\ \A x \in finished : x[1] = i /\ Alone(i, x[2].window) => Locked(i, x[2].window)
  /\ Working(i) /\ Alone(i, WindowOf(i)) => AloneAtWork(i)

\* The inductive invariant of the theorem about races, and what the one about
\* reports adds to it.
BDAInv ==
  /\ BDATypeOK /\ MarksHaveCause /\ LocksHaveCause /\ FinishedOK
  /\ \A i \in Accessors : CallerOK(i) /\ WorkOK(i)
  /\ EarlierRaceIsReported

CauseInv == (\A i \in Accessors : AloneOK(i)) /\ ReportHasCause

-----------------------------------------------------------------------------
(* Cells and masks.                                                        *)

LEMMA DivRem ==
  ASSUME NEW x \in Nat, NEW a \in Nat \ {0}
  PROVE  /\ x \div a \in Nat
         /\ x % a \in 0 .. a - 1
         /\ x = a * (x \div a) + (x % a)
OBVIOUS

LEMMA MulMono ==
  ASSUME NEW a \in Nat, NEW x \in Nat, NEW y \in Nat, x <= y
  PROVE  a * x <= a * y
<1>1. y - x \in Nat /\ a * (y - x) >= 0
  OBVIOUS
<1>2. a * (y - x) = a * y - a * x
  OBVIOUS
<1> QED BY <1>1, <1>2

\* build_hash_offset: every atomic of the filter hits one of its cells.
LEMMA CellRange == \A w \in Windows, h \in Hashes : Cell(w, h) \in Cells
<1> SUFFICES ASSUME NEW w \in Windows, NEW h \in Hashes PROVE Cell(w, h) \in Cells
  OBVIOUS
<1> DEFINE a == AddrHash[<<w, h>>]
           m == BufferLen % HashRange
           q == BufferLen \div HashRange
<1>1. a \in Nat /\ BufferLen \in Nat /\ UintRange \in Nat /\ BufferLen <= UintRange
  BY BDAConstants DEF BDAConstants
<1>2. HashRange \in Nat \ {0} /\ HashRange <= BufferLen /\ m # 0
  BY <1>1, BDABuffer DEF BDABuffer
<1>3. m \in 1 .. HashRange - 1 /\ q \in Nat /\ BufferLen = HashRange * q + m
  <2>1. /\ q \in Nat /\ m \in 0 .. HashRange - 1 /\ BufferLen = HashRange * q + m
    BY <1>1, <1>2, DivRem
  <2> QED BY <1>2, <2>1
<1> HIDE DEF m, q
<1>4. q >= 1
  <2>1. CASE q = 0
    BY <1>2, <1>3, <2>1
  <2> QED BY <1>3, <2>1
<1>5. HashRange * q >= HashRange
  <2>1. HashRange * 1 <= HashRange * q
    BY <1>2, <1>3, <1>4, MulMono
  <2> QED BY <1>2, <2>1
<1>6. a % HashRange \in 0 .. HashRange - 1
  BY <1>1, <1>2
<1>7. HashOffset = m - 1
  <2>1. m - 1 \in 0 .. UintRange - 1
    BY <1>1, <1>2, <1>3
  <2>2. (m - 1) % UintRange = m - 1
    BY <1>1, <2>1
  <2> QED BY <2>2 DEF HashOffset, m
<1>8. (a % HashRange) + (m - 1) \in 0 .. BufferLen - 2
  BY <1>1, <1>2, <1>3, <1>5, <1>6
<1>9. ((a % HashRange) + (m - 1)) % UintRange = (a % HashRange) + (m - 1)
  BY <1>1, <1>8
<1> QED BY <1>7, <1>8, <1>9 DEF Cell, Cells

LEMMA LockHashRange == LockHashes \subseteq Hashes
BY BDAConstants DEF BDAConstants, LockHashes, Hashes

\* The shifts that select the fields of an id.
LEMMA Powers == \A k \in 0 .. 29 : 2 ^ k \in Nat \ {0}
<1>1. /\ 2 ^ 0 \in Nat \ {0} /\ 2 ^ 1 \in Nat \ {0} /\ 2 ^ 2 \in Nat \ {0}
      /\ 2 ^ 3 \in Nat \ {0} /\ 2 ^ 4 \in Nat \ {0} /\ 2 ^ 5 \in Nat \ {0}
      /\ 2 ^ 6 \in Nat \ {0} /\ 2 ^ 7 \in Nat \ {0} /\ 2 ^ 8 \in Nat \ {0}
      /\ 2 ^ 9 \in Nat \ {0} /\ 2 ^ 10 \in Nat \ {0} /\ 2 ^ 11 \in Nat \ {0}
      /\ 2 ^ 12 \in Nat \ {0} /\ 2 ^ 13 \in Nat \ {0} /\ 2 ^ 14 \in Nat \ {0}
  OBVIOUS
<1>2. /\ 2 ^ 15 \in Nat \ {0} /\ 2 ^ 16 \in Nat \ {0} /\ 2 ^ 17 \in Nat \ {0}
      /\ 2 ^ 18 \in Nat \ {0} /\ 2 ^ 19 \in Nat \ {0} /\ 2 ^ 20 \in Nat \ {0}
      /\ 2 ^ 21 \in Nat \ {0} /\ 2 ^ 22 \in Nat \ {0} /\ 2 ^ 23 \in Nat \ {0}
      /\ 2 ^ 24 \in Nat \ {0} /\ 2 ^ 25 \in Nat \ {0} /\ 2 ^ 26 \in Nat \ {0}
      /\ 2 ^ 27 \in Nat \ {0} /\ 2 ^ 28 \in Nat \ {0} /\ 2 ^ 29 \in Nat \ {0}
  OBVIOUS
<1>3. ASSUME NEW k \in 0 .. 29
      PROVE  \/ k = 0 \/ k = 1 \/ k = 2 \/ k = 3 \/ k = 4 \/ k = 5 \/ k = 6 \/ k = 7
             \/ k = 8 \/ k = 9 \/ k = 10 \/ k = 11 \/ k = 12 \/ k = 13 \/ k = 14
             \/ k = 15 \/ k = 16 \/ k = 17 \/ k = 18 \/ k = 19 \/ k = 20 \/ k = 21
             \/ k = 22 \/ k = 23 \/ k = 24 \/ k = 25 \/ k = 26 \/ k = 27 \/ k = 28
             \/ k = 29
  OBVIOUS
<1> QED BY <1>1, <1>2, <1>3, Zenon

LEMMA LockMaskType ==
  ASSUME NEW n \in Nat, NEW h \in LockHashes
  PROVE  LockMask(n, h) \subseteq (0 .. 2) \X (0 .. 7)
<1>1. h \in Nat
  BY BDAConstants DEF BDAConstants, LockHashes
<1>2. BaseBit(h) \in 0 .. 23
  BY <1>1 DEF BaseBit
<1>3. ASSUME NEW j \in 0 .. 2
      PROVE  <<j, (n \div 2 ^ (BaseBit(h) + 3 * j)) % 8>> \in (0 .. 2) \X (0 .. 7)
  <2>1. BaseBit(h) + 3 * j \in 0 .. 29
    BY <1>2
  <2>2. 2 ^ (BaseBit(h) + 3 * j) \in Nat \ {0}
    BY <2>1, Powers
  <2> DEFINE d == 2 ^ (BaseBit(h) + 3 * j)
  <2> HIDE DEF d
  <2>3. (n \div d) % 8 \in 0 .. 7
    BY <2>2 DEF d
  <2> QED BY <2>3 DEF d
<1> QED BY <1>3 DEF LockMask

LEMMA InvalidatesOps ==
  /\ \A o, p \in Ops : OpsConflict(o, p) <=> p \in Invalidates[o]
  /\ \A o \in Ops : "Store" \in Invalidates[o]
BY DEF Ops, OpsConflict, Invalidates

LEMMA MaskTypes ==
  ASSUME NEW a \in Accesses, NEW o \in Ops
  PROVE  /\ InvalidationMask(a)[o] \subseteq MarkRange(o)
         /\ MarkRange(o) \subseteq Bytes \cup WindowWords
         /\ MarkOf(a, o) \subseteq MarkRange(o)
BY DEF InvalidationMask, MarkRange, MarkOf, ByteMask, WordMask

\* Bytes that two accesses share lie in words that they share.
LEMMA WordOfByte ==
  ASSUME NEW a \in Accesses, NEW b \in ByteMask(a)
  PROVE  b \div WordBytes \in WordMask(a)
<1> DEFINE f == a.first
           n == a.len
           W == WordBytes
           N == WindowBytes
<1>1. f \in Nat /\ n \in Nat \ {0} /\ b \in Nat /\ f <= b /\ b < f + n /\ b < N
  BY BDAConstants DEF BDAConstants, AccessType, Bytes, ByteMask
<1>2. W \in Nat \ {0} /\ N \in Nat \ {0} /\ N % W = 0
  BY BDAConstants DEF BDAConstants
<1>3. WordMask(a) = {w \in 0 .. (N \div W) - 1 :
                      f \div W <= w /\ w < (f \div W) + (((f % W) + n + W - 1) \div W)}
  BY DEF WordMask, WindowWords
<1> HIDE DEF f, n, W, N
<1> DEFINE k == b \div W
           e == (f % W) + n + W - 1
<1>4. k \in Nat /\ b = W * k + (b % W) /\ b % W \in 0 .. W - 1
  BY <1>1, <1>2
<1>5. f \div W \in Nat /\ f = W * (f \div W) + (f % W) /\ f % W \in 0 .. W - 1
  BY <1>1, <1>2
<1>6. N \div W \in Nat /\ N = W * (N \div W)
  BY <1>2
<1>7. e \in Nat /\ e \div W \in Nat /\ e = W * (e \div W) + (e % W) /\ e % W \in 0 .. W - 1
  BY <1>1, <1>2, <1>5
<1>8. f \div W <= k
  <2>1. CASE k + 1 <= f \div W
    <3>1. k + 1 \in Nat
      BY <1>4
    <3>2. W * (k + 1) <= W * (f \div W)
      BY <1>2, <1>5, <2>1, <3>1, MulMono
    <3> QED BY <1>1, <1>2, <1>4, <1>5, <3>2
  <2> QED BY <1>4, <1>5, <2>1
<1>9. k < (f \div W) + (e \div W)
  <2>1. CASE (f \div W) + (e \div W) <= k
    <3>1. W * ((f \div W) + (e \div W)) <= W * k
      BY <1>2, <1>4, <1>5, <1>7, <2>1, MulMono
    <3>2. W * ((f \div W) + (e \div W)) = (f - (f % W)) + (e - (e % W))
      BY <1>2, <1>5, <1>7
    <3> QED BY <1>1, <1>2, <1>4, <1>5, <1>7, <3>1, <3>2
  <2> QED BY <1>4, <1>5, <1>7, <2>1
<1>10. k < N \div W
  <2>1. CASE N \div W <= k
    <3>1. W * (N \div W) <= W * k
      BY <1>2, <1>4, <1>6, <2>1, MulMono
    <3> QED BY <1>1, <1>2, <1>4, <1>6, <3>1
  <2> QED BY <1>4, <1>6, <2>1
<1> QED BY <1>3, <1>4, <1>6, <1>8, <1>9, <1>10 DEF W

\* A race on common bytes shows in the marks of the earlier access.
LEMMA RaceShows ==
  ASSUME NEW a \in Accesses, NEW b \in Accesses, Overlap(a, b), OpsConflict(a.op, b.op)
  PROVE  /\ InvalidationMask(a)[b.op] \cap MarkOf(b, b.op) # {}
         /\ InvalidationMask(a)["Store"] \cap ByteMask(b) # {}
<1>1. a.op \in Ops /\ b.op \in Ops
  BY BDAConstants DEF BDAConstants, AccessType
<1>2. b.op \in Invalidates[a.op] /\ "Store" \in Invalidates[a.op]
  BY <1>1, InvalidatesOps
<1>3. PICK k : k \in ByteMask(a) /\ k \in ByteMask(b)
  BY DEF Overlap
<1>4. k \div WordBytes \in WordMask(a) /\ k \div WordBytes \in WordMask(b)
  BY <1>3, WordOfByte
<1>5. /\ InvalidationMask(a)[b.op] = MarkOf(a, b.op)
      /\ InvalidationMask(a)["Store"] = ByteMask(a)
  BY <1>1, <1>2 DEF InvalidationMask, MarkOf, Ops
<1> QED BY <1>3, <1>4, <1>5 DEF MarkOf

LEMMA AccessFields ==
  ASSUME NEW a \in Accesses
  PROVE  a.window \in Windows /\ a.op \in Ops
BY BDAConstants DEF BDAConstants, AccessType

-----------------------------------------------------------------------------
(* What every step has in common.                                          *)

BDAStep(i) ==
  \/ AllocateInvocationID(i)
  \/ \E a \in Accesses : BeginAccess(i, a)
  \/ \E h \in Hashes : MarkCell(i, h)
  \/ EndMarking(i)
  \/ \E h \in LockHashes : LockCell(i, h)
  \/ Return(i)

\* Invocation j keeps its access.
SameAccess(j) ==
  /\ id'[j] = id[j] /\ point'[j] = point[j] /\ acc'[j] = acc[j]
  /\ todo'[j] = todo[j] /\ prev_hazard'[j] = prev_hazard[j]
  /\ exclusive'[j] = exclusive[j] /\ self_lock'[j] = self_lock[j]
  /\ verdict'[j] = verdict[j] /\ past'[j] = past[j]

\* A step changes the access of one invocation only.
LEMMA StepFrame ==
  ASSUME BDATypeOK, NEW i \in Accessors, BDAStep(i), NEW j \in Accessors, j # i
  PROVE  SameAccess(j)
<1> USE DEF SameAccess, BDATypeOK
<1>1. CASE AllocateInvocationID(i)
  BY <1>1 DEF AllocateInvocationID, accessVars, histVars
<1>2. ASSUME NEW a \in Accesses, BeginAccess(i, a) PROVE SameAccess(j)
  BY <1>2 DEF BeginAccess
<1>3. ASSUME NEW h \in Hashes, MarkCell(i, h) PROVE SameAccess(j)
  BY <1>3 DEF MarkCell, histVars
<1>4. CASE EndMarking(i)
  BY <1>4 DEF EndMarking
<1>5. ASSUME NEW h \in LockHashes, LockCell(i, h) PROVE SameAccess(j)
  BY <1>5 DEF LockCell, histVars
<1>6. CASE Return(i)
  BY <1>6 DEF Return
<1> QED BY <1>1, <1>2, <1>3, <1>4, <1>5, <1>6 DEF BDAStep

\* Nothing is taken out of the filter or out of the histories, and an id stays.
Grows ==
  /\ \A c \in Cells : /\ \A o \in Ops : cells[c].marks[o] \subseteq cells'[c].marks[o]
                      /\ cells[c].lock \subseteq cells'[c].lock
  /\ begun \subseteq begun' /\ finished \subseteq finished' /\ owners \subseteq owners'
  /\ \A j \in Accessors : id[j] # NoId => id'[j] = id[j]

LEMMA StepGrows ==
  ASSUME BDATypeOK, NEW i \in Accessors, BDAStep(i)
  PROVE  Grows
<1> USE DEF Grows, BDATypeOK
<1>1. CASE AllocateInvocationID(i)
  BY <1>1 DEF AllocateInvocationID, accessVars, histVars
<1>2. ASSUME NEW a \in Accesses, BeginAccess(i, a) PROVE Grows
  BY <1>2 DEF BeginAccess
<1>3. ASSUME NEW h \in Hashes, MarkCell(i, h) PROVE Grows
  BY <1>3 DEF MarkCell, histVars
<1>4. CASE EndMarking(i)
  BY <1>4 DEF EndMarking
<1>5. ASSUME NEW h \in LockHashes, LockCell(i, h) PROVE Grows
  BY <1>5 DEF LockCell, histVars
<1>6. CASE Return(i)
  BY <1>6 DEF Return
<1> QED BY <1>1, <1>2, <1>3, <1>4, <1>5, <1>6 DEF BDAStep

LEMMA MarksUpdate ==
  ASSUME NEW D, NEW M, NEW L, NEW f \in [D -> [marks : M, lock : L]], NEW c \in D, NEW m \in M
  PROVE  [f EXCEPT ![c].marks = m] \in [D -> [marks : M, lock : L]]
<1>1. [f[c] EXCEPT !.marks = m] \in [marks : M, lock : L]
  OBVIOUS
<1> QED BY <1>1

LEMMA LockUpdate ==
  ASSUME NEW D, NEW M, NEW L, NEW f \in [D -> [marks : M, lock : L]], NEW c \in D, NEW l \in L
  PROVE  [f EXCEPT ![c].lock = l] \in [D -> [marks : M, lock : L]]
<1>1. [f[c] EXCEPT !.lock = l] \in [marks : M, lock : L]
  OBVIOUS
<1> QED BY <1>1

LEMMA StepType ==
  ASSUME BDATypeOK, NEW i \in Accessors, CallerOK(i), WorkOK(i), BDAStep(i)
  PROVE  BDATypeOK'
<1> USE CellRange
<1>1. CASE AllocateInvocationID(i)
  <2>1. id_counter \in 0 .. UintRange - 1 /\ id_counter' \in 0 .. UintRange - 1
    BY <1>1, BDAConstants DEF BDAConstants, AllocateInvocationID, BDATypeOK
  <2> QED BY <1>1, <2>1 DEF AllocateInvocationID, accessVars, histVars, BDATypeOK
<1>2. ASSUME NEW a \in Accesses, BeginAccess(i, a) PROVE BDATypeOK'
  <2>1. AllMarks \in [Ops -> SUBSET (Bytes \cup WindowWords)]
    BY DEF AllMarks, MarkRange
  <2>2. count' \in [Accessors -> 0 .. MaxAccesses]
    BY <1>2, BDAConstants DEF BDAConstants, BeginAccess, BDATypeOK
  <2>3. CASE a.in_bounds
    <3>1. begun' \subseteq Accessors \X Accesses /\ finished' \subseteq begun'
      BY <1>2, <2>3 DEF BeginAccess, BDATypeOK
    <3>2. past' \in [Accessors -> [finished : SUBSET (Accessors \X Accesses),
                                  owners : SUBSET (Accessors \X Windows)]]
      <4>1. [finished |-> finished, owners |-> owners]
              \in [finished : SUBSET (Accessors \X Accesses),
                  owners : SUBSET (Accessors \X Windows)]
        BY DEF BDATypeOK
      <4> QED BY <1>2, <2>3, <4>1, SMTT(30) DEF BeginAccess, BDATypeOK
    <3>3. prev_hazard' \in [Accessors -> [Ops -> SUBSET (Bytes \cup WindowWords)]]
      <4> DEFINE M == [Ops -> SUBSET (Bytes \cup WindowWords)]
      <4>1. prev_hazard \in [Accessors -> M] /\ AllMarks \in M
        BY <2>1 DEF BDATypeOK
      <4> HIDE DEF M
      <4>2. prev_hazard' \in [Accessors -> M]
        BY <1>2, <2>3, <4>1 DEF BeginAccess
      <4> QED BY <4>2 DEF M
    <3>4. point' \in [Accessors -> {"run", "mark", "lock"}]
      <4>1. point' = [point EXCEPT ![i] = "mark"]
        BY <1>2, <2>3 DEF BeginAccess
      <4>2. point \in [Accessors -> {"run", "mark", "lock"}]
        BY DEF BDATypeOK
      <4> QED BY <4>1, <4>2
    <3>5. acc' \in [Accessors -> Accesses] /\ todo' \in [Accessors -> SUBSET Hashes]
      BY <1>2, <2>3, SMTT(30) DEF BeginAccess, BDATypeOK
    <3>6. /\ verdict' \in [Accessors -> {"none", "pass", "report"}]
          /\ UNCHANGED <<cells, id_counter, id, exclusive, self_lock, owners>>
      BY <1>2, <2>3 DEF BeginAccess, BDATypeOK
    <3> QED BY <2>2, <3>1, <3>2, <3>3, <3>4, <3>5, <3>6 DEF BDATypeOK
  <2>4. CASE ~ a.in_bounds
    BY <1>2, <2>2, <2>4 DEF BeginAccess, BDATypeOK
  <2> QED BY <2>3, <2>4
<1>3. ASSUME NEW h \in Hashes, MarkCell(i, h) PROVE BDATypeOK'
  <2> DEFINE c == Cell(acc[i].window, h)
             M == [Ops -> SUBSET (Bytes \cup WindowWords)]
             L == SUBSET ((0 .. 2) \X (0 .. 7))
  <2>1. acc[i] \in Accesses /\ c \in Cells
    BY AccessFields DEF BDATypeOK
  <2>2. /\ [o \in Ops |-> prev_hazard[i][o] \cap cells[c].marks[o]] \in M
        /\ [o \in Ops |-> cells[c].marks[o] \cup InvalidationMask(acc[i])[o]] \in M
    BY <2>1, MaskTypes DEF BDATypeOK
  <2>3. prev_hazard' \in [Accessors -> M]
    BY <1>3, <2>2 DEF MarkCell, BDATypeOK
  <2>4. cells' \in [Cells -> [marks : M, lock : L]]
    <3> DEFINE m == [o \in Ops |-> cells[c].marks[o] \cup InvalidationMask(acc[i])[o]]
    <3>1. cells \in [Cells -> [marks : M, lock : L]] /\ m \in M
      BY <2>2 DEF BDATypeOK
    <3>2. cells' = [cells EXCEPT ![c].marks = m]
      BY <1>3 DEF MarkCell
    <3> HIDE DEF M, L, c, m
    <3>3. [cells EXCEPT ![c].marks = m] \in [Cells -> [marks : M, lock : L]]
      BY <2>1, <3>1, MarksUpdate
    <3> QED BY <3>2, <3>3
  <2> QED BY <1>3, <2>3, <2>4 DEF MarkCell, histVars, BDATypeOK
<1>4. CASE EndMarking(i)
  <2>1. TakesExclusiveOwnership(i) \in BOOLEAN
    BY DEF TakesExclusiveOwnership
  <2>2. owners' \subseteq Accessors \X Windows
    BY <1>4, AccessFields DEF EndMarking, BDATypeOK
  <2> QED BY <1>4, <2>1, <2>2, LockHashRange DEF EndMarking, BDATypeOK
<1>5. ASSUME NEW h \in LockHashes, LockCell(i, h) PROVE BDATypeOK'
  <2> DEFINE c == Cell(acc[i].window, h)
             M == [Ops -> SUBSET (Bytes \cup WindowWords)]
             L == SUBSET ((0 .. 2) \X (0 .. 7))
  <2>1. acc[i] \in Accesses /\ c \in Cells
    BY AccessFields, LockHashRange DEF BDATypeOK
  <2>2. id[i] \in Nat
    BY <1>5, BDAConstants DEF LockCell, CallerOK, BDAConstants, BDATypeOK
  <2>3. LockBits(i, h) \in L
    BY <2>2, LockMaskType DEF LockBits
  <2>4. cells' \in [Cells -> [marks : M, lock : L]]
    <3>1. cells \in [Cells -> [marks : M, lock : L]]
      BY DEF BDATypeOK
    <3> DEFINE l == cells[c].lock \cup LockBits(i, h)
    <3>2. l \in L
      BY <2>1, <2>3, <3>1
    <3>3. cells' = [cells EXCEPT ![c].lock = l]
      BY <1>5 DEF LockCell
    <3> HIDE DEF M, L, c, l
    <3>4. [cells EXCEPT ![c].lock = l] \in [Cells -> [marks : M, lock : L]]
      BY <2>1, <3>1, <3>2, LockUpdate
    <3> QED BY <3>3, <3>4
  <2>5. self_lock' \in [Accessors -> BOOLEAN]
    BY <1>5 DEF LockCell, BDATypeOK
  <2>6. /\ todo' \in [Accessors -> SUBSET Hashes]
        /\ UNCHANGED <<id_counter, id, point, acc, prev_hazard, exclusive, verdict, histVars>>
    BY <1>5 DEF LockCell, BDATypeOK
  <2> QED BY <2>4, <2>5, <2>6 DEF histVars, BDATypeOK
<1>6. CASE Return(i)
  <2>1. point' \in [Accessors -> {"run", "mark", "lock"}]
    BY <1>6 DEF Return, BDATypeOK
  <2>2. verdict' \in [Accessors -> {"none", "pass", "report"}]
    BY <1>6 DEF Return, BDATypeOK
  <2>3. finished' \subseteq begun'
    BY <1>6 DEF Return, BDATypeOK, WorkOK, Working
  <2> QED BY <1>6, <2>1, <2>2, <2>3 DEF Return, BDATypeOK
<1> QED BY <1>1, <1>2, <1>3, <1>4, <1>5, <1>6 DEF BDAStep

\* A lock that is absent was absent before: the ids of the others only get more.
LEMMA AbsentBefore ==
  ASSUME Grows, NEW j \in Accessors, NEW h \in LockHashes,
         acc'[j] = acc[j], past'[j] = past[j], id'[j] = id[j], LockIsAbsent(j, h)'
  PROVE  LockIsAbsent(j, h)
<1> DEFINE Others == {k \in Accessors \ {j} : id[k] # NoId}
           Sum == UNION {LockMask(id[p[1]], p[2]) : p \in Others \X LockHashes}
<1>1. Sum \subseteq Sum'
  <2> SUFFICES ASSUME NEW k \in Others, NEW g \in LockHashes, NEW b \in LockMask(id[k], g)
               PROVE  b \in Sum'
    OBVIOUS
  <2>1. k \in Others' /\ id'[k] = id[k]
    BY DEF Grows
  <2>2. <<k, g>> \in Others' \X LockHashes /\ LockMask(id[k], g) = LockMask(id'[k], g)
    BY <2>1
  <2>3. b \in LockMask(id'[<<k, g>>[1]], <<k, g>>[2])
    BY <2>2
  <2> QED BY <2>2, <2>3
<1>2. ~ LockMask(id'[j], h) \subseteq Sum'
  BY DEF LockIsAbsent
<1>3. ~ LockMask(id[j], h) \subseteq Sum
  BY <1>1, <1>2
<1> QED BY <1>3 DEF LockIsAbsent

LEMMA HasMarkedStays ==
  ASSUME Grows, NEW a \in Accesses, NEW h \in Hashes, HasMarked(a, h)
  PROVE  HasMarked(a, h)'
<1>1. Cell(a.window, h) \in Cells
  BY CellRange, AccessFields
<1> QED BY <1>1 DEF Grows, HasMarked

-----------------------------------------------------------------------------
(* The inductive step.                                                     *)

\* The invariant of an invocation survives the steps of the others.
LEMMA OtherStep ==
  ASSUME BDAInv, NEW i \in Accessors, BDAStep(i), NEW j \in Accessors, j # i
  PROVE  CallerOK(j)' /\ WorkOK(j)'
<1>1. BDATypeOK /\ CallerOK(j) /\ WorkOK(j)
  BY DEF BDAInv
<1>2. SameAccess(j) /\ Grows
  BY <1>1, StepFrame, StepGrows
<1>3. /\ \A x \in begun' : x[1] = j => x \in begun
      /\ \A p \in owners' : p[1] = j => p \in owners
  <2>1. ASSUME NEW a \in Accesses, BeginAccess(i, a) PROVE <1>3
    BY <2>1 DEF BeginAccess
  <2>2. CASE EndMarking(i)
    BY <2>2 DEF EndMarking
  <2>3. CASE ~ EndMarking(i) /\ ~ \E a \in Accesses : BeginAccess(i, a)
    BY <2>3 DEF BDAStep, AllocateInvocationID, MarkCell, LockCell, Return, histVars
  <2> QED BY <2>1, <2>2, <2>3
<1>4. CallerOK(j)'
  BY <1>1, <1>2, <1>3 DEF CallerOK, SameAccess, Grows, Working
<1>5. ASSUME Working(j)' PROVE WorkOK(j)'
  <2>1. Working(j) /\ acc[j] \in Accesses /\ WindowOf(j) \in Windows
    BY <1>1, <1>2, <1>5, AccessFields DEF SameAccess, Working, BDATypeOK, WindowOf
  <2>2. /\ (<<j, acc[j]>> \in begun /\ acc[j].in_bounds /\ verdict[j] = "none")'
        /\ past'[j].finished \subseteq finished'
    BY <1>1, <1>2, <2>1 DEF WorkOK, SameAccess, Grows
  <2>3. ASSUME NEW h \in MarkedHashes(j)'
        PROVE  /\ HasMarked(acc[j], h)'
               /\ \A o \in Ops : prev_hazard'[j][o] \subseteq cells'[Cell(WindowOf(j)', h)].marks[o]
    <3>1. h \in MarkedHashes(j) /\ h \in Hashes
      BY <1>2 DEF MarkedHashes, SameAccess
    <3>2. Cell(WindowOf(j), h) \in Cells /\ WindowOf(j)' = WindowOf(j)
      BY <1>2, <2>1, <3>1, CellRange DEF SameAccess, WindowOf
    <3>3. HasMarked(acc[j], h)
      BY <1>1, <2>1, <3>1 DEF WorkOK
    <3>4. HasMarked(acc[j], h)'
      BY <1>2, <2>1, <3>1, <3>2, <3>3 DEF HasMarked, Grows, SameAccess, WindowOf
    <3> QED BY <1>1, <1>2, <2>1, <3>1, <3>2, <3>4 DEF WorkOK, Grows, SameAccess
  <2>4. \A x \in past'[j].finished : x[2].window = WindowOf(j)' =>
          \A o \in Ops : InvalidationMask(x[2])[o] \subseteq prev_hazard'[j][o]
    BY <1>1, <1>2, <2>1 DEF WorkOK, SameAccess, WindowOf
  <2>5. \A w \in Windows : <<j, w>> \in owners' =>
          <<j, w>> \in past'[j].owners \/ (point'[j] = "lock" /\ exclusive'[j])
    BY <1>1, <1>2, <1>3, <2>1 DEF WorkOK, SameAccess
  <2>6. ASSUME point'[j] = "lock"
        PROVE  /\ exclusive'[j] <=> TakesExclusiveOwnership(j)'
               /\ exclusive'[j] => <<j, WindowOf(j)'>> \in owners'
               /\ RacesWithPast(j)' =>
                    \A h \in LockHashes \ todo'[j] : LockIsAbsent(j, h)' => ~ self_lock'[j]
    <3>1. TakesExclusiveOwnership(j)' <=> TakesExclusiveOwnership(j)
      BY <1>2 DEF TakesExclusiveOwnership, SameAccess
    <3>2. RacesWithPast(j)' => RacesWithPast(j)
      BY <1>2 DEF RacesWithPast, SameAccess
    <3>3. \A h \in LockHashes : LockIsAbsent(j, h)' => LockIsAbsent(j, h)
      BY <1>2, AbsentBefore DEF SameAccess
    <3> QED BY <1>1, <1>2, <2>1, <2>6, <3>1, <3>2, <3>3 DEF WorkOK, SameAccess, Grows, WindowOf
  <2> QED BY <2>2, <2>3, <2>4, <2>5, <2>6 DEF WorkOK
<1>6. CASE ~ Working(j)'
  BY <1>4, <1>6 DEF WorkOK
<1> QED BY <1>4, <1>5, <1>6

\* AllocateInvocationID comes before the first access.
LEMMA AllocateStep ==
  ASSUME BDAInv, NEW i \in Accessors, AllocateInvocationID(i)
  PROVE  CallerOK(i)' /\ WorkOK(i)'
<1>1. BDATypeOK /\ CallerOK(i)
  BY DEF BDAInv
<1>2. id'[i] = id_counter /\ id_counter # NoId /\ UNCHANGED <<accessVars, histVars>>
  BY <1>1 DEF AllocateInvocationID, BDATypeOK, NoId
<1>3. point[i] = "run" /\ (\A x \in begun : x[1] # i)
  BY <1>1 DEF CallerOK, AllocateInvocationID
<1> QED BY <1>2, <1>3 DEF CallerOK, WorkOK, Working, accessVars, histVars

\* An access begins with every mark, and with none of its atomics done.
LEMMA BeginStep ==
  ASSUME BDAInv, NEW i \in Accessors, NEW a \in Accesses, BeginAccess(i, a)
  PROVE  CallerOK(i)' /\ WorkOK(i)'
<1>1. BDATypeOK /\ CallerOK(i)
  BY DEF BDAInv
<1>2. point[i] = "run" /\ ~ Working(i) /\ id'[i] # NoId
  BY DEF BeginAccess, Working
<1>3. CASE a.in_bounds
  <2>1. /\ point'[i] = "mark" /\ acc'[i] = a /\ todo'[i] = Hashes /\ verdict'[i] = "none"
        /\ prev_hazard'[i] = AllMarks /\ begun' = begun \cup {<<i, a>>}
        /\ past'[i] = [finished |-> finished, owners |-> owners]
        /\ UNCHANGED <<cells, finished, owners>>
    BY <1>1, <1>3 DEF BeginAccess, BDATypeOK
  <2>2. CallerOK(i)'
    BY <1>1, <1>2, <2>1 DEF CallerOK, Working
  <2>3. MarkedHashes(i)' = {}
    BY <2>1 DEF MarkedHashes
  <2>4. \A x \in finished : \A o \in Ops : InvalidationMask(x[2])[o] \subseteq AllMarks[o]
    <3>1. \A x \in finished : x[2] \in Accesses
      BY <1>1 DEF BDATypeOK
    <3> QED BY <3>1, MaskTypes DEF AllMarks
  <2> QED BY <1>3, <2>1, <2>2, <2>3, <2>4 DEF WorkOK
<1>4. CASE ~ a.in_bounds
  <2>1. UNCHANGED <<point, begun, finished, id>>
    BY <1>4 DEF BeginAccess
  <2> QED BY <1>1, <1>2, <2>1 DEF CallerOK, WorkOK, Working
<1> QED BY <1>3, <1>4

\* An atomic narrows prev_hazard, not below what had returned before.
LEMMA MarkStep ==
  ASSUME BDAInv, NEW i \in Accessors, NEW h \in Hashes, MarkCell(i, h)
  PROVE  CallerOK(i)' /\ WorkOK(i)'
<1> DEFINE c == Cell(WindowOf(i), h)
<1>1. BDATypeOK /\ CallerOK(i) /\ WorkOK(i) /\ FinishedOK
  BY DEF BDAInv
<1>2. /\ point[i] = "mark" /\ point'[i] = "mark" /\ Working(i) /\ h \in todo[i]
      /\ UNCHANGED <<id, acc, verdict, begun, finished, owners, past>>
  BY DEF MarkCell, Working, histVars
<1>3. acc[i] \in Accesses /\ WindowOf(i) \in Windows /\ WindowOf(i)' = WindowOf(i) /\ c \in Cells
  BY <1>1, <1>2, AccessFields, CellRange DEF BDATypeOK, WindowOf
<1>4. /\ todo'[i] = todo[i] \ {h}
      /\ \A o \in Ops : /\ prev_hazard'[i][o] = prev_hazard[i][o] \cap cells[c].marks[o]
                        /\ cells'[c].marks[o] = cells[c].marks[o] \cup InvalidationMask(acc[i])[o]
  BY <1>1, <1>3 DEF MarkCell, BDATypeOK, WindowOf
<1>5. Grows
  BY <1>1, StepGrows DEF BDAStep
<1>6. CallerOK(i)'
  BY <1>1, <1>2 DEF CallerOK, Working
<1>7. ASSUME NEW g \in MarkedHashes(i)'
      PROVE  /\ HasMarked(acc[i], g)'
             /\ \A o \in Ops : prev_hazard'[i][o] \subseteq cells'[Cell(WindowOf(i)', g)].marks[o]
  <2>1. g \in Hashes /\ Cell(WindowOf(i), g) \in Cells
    BY <1>2, <1>3, CellRange DEF MarkedHashes
  <2>2. CASE g = h
    BY <1>2, <1>3, <1>4, <2>2 DEF HasMarked, WindowOf
  <2>3. CASE g # h
    <3>1. g \in MarkedHashes(i)
      BY <1>2, <1>4, <2>3 DEF MarkedHashes
    <3>2. /\ HasMarked(acc[i], g)
          /\ \A o \in Ops : prev_hazard[i][o] \subseteq cells[Cell(WindowOf(i), g)].marks[o]
      BY <1>1, <1>2, <3>1 DEF WorkOK
    <3> QED BY <1>2, <1>3, <1>4, <1>5, <2>1, <3>2 DEF HasMarked, Grows, WindowOf
  <2> QED BY <2>2, <2>3
<1>8. ASSUME NEW x \in past[i].finished, x[2].window = WindowOf(i), NEW o \in Ops
      PROVE  InvalidationMask(x[2])[o] \subseteq prev_hazard'[i][o]
  <2>1. InvalidationMask(x[2])[o] \subseteq prev_hazard[i][o]
    BY <1>1, <1>2, <1>8 DEF WorkOK
  <2>2. HasMarked(x[2], h)
    BY <1>1, <1>2 DEF WorkOK, FinishedOK
  <2> QED BY <1>4, <1>8, <2>1, <2>2 DEF HasMarked
<1>9. \A w \in Windows : <<i, w>> \in owners => <<i, w>> \in past[i].owners
  BY <1>1, <1>2 DEF WorkOK
<1> QED BY <1>1, <1>2, <1>3, <1>6, <1>7, <1>8, <1>9 DEF WorkOK

LEMMA EndStep ==
  ASSUME BDAInv, NEW i \in Accessors, EndMarking(i)
  PROVE  CallerOK(i)' /\ WorkOK(i)'
<1>1. BDATypeOK /\ CallerOK(i) /\ WorkOK(i)
  BY DEF BDAInv
<1>2. /\ point[i] = "mark" /\ todo[i] = {} /\ Working(i)
      /\ UNCHANGED <<cells, id, acc, prev_hazard, verdict, begun, finished, past>>
  BY DEF EndMarking, Working
<1>3. /\ point'[i] = "lock" /\ todo'[i] = LockHashes
      /\ exclusive'[i] = TakesExclusiveOwnership(i)
      /\ TakesExclusiveOwnership(i)' <=> TakesExclusiveOwnership(i)
  BY <1>1, <1>2 DEF EndMarking, BDATypeOK, TakesExclusiveOwnership
<1>4. owners' = IF exclusive'[i] THEN owners \cup {<<i, WindowOf(i)>>} ELSE owners
  BY <1>3 DEF EndMarking, WindowOf
<1>5. id[i] # NoId
  BY <1>1, <1>2 DEF CallerOK
<1>6. CallerOK(i)'
  BY <1>1, <1>2, <1>3, <1>5 DEF CallerOK, Working
<1>7. MarkedHashes(i)' = MarkedHashes(i) /\ WindowOf(i)' = WindowOf(i)
  BY <1>2, <1>3 DEF MarkedHashes, WindowOf
<1>8. \A g \in MarkedHashes(i) : HasMarked(acc[i], g)'
  BY <1>1, <1>2 DEF WorkOK, HasMarked
<1>9. \A w \in Windows : <<i, w>> \in owners' => <<i, w>> \in past[i].owners \/ exclusive'[i]
  BY <1>1, <1>2, <1>4 DEF WorkOK
<1> QED BY <1>1, <1>2, <1>3, <1>4, <1>6, <1>7, <1>8, <1>9 DEF WorkOK

\* An access that races with one that had returned did not get exclusive access.
LEMMA RaceIsNotExclusive ==
  ASSUME BDATypeOK, NEW i \in Accessors, WorkOK(i), point[i] = "lock", RacesWithPast(i)
  PROVE  ~ exclusive[i] /\ Hazard(i)
<1>1. PICK x \in past[i].finished :
        Overlap(x[2], acc[i]) /\ OpsConflict(x[2].op, acc[i].op)
  BY DEF RacesWithPast
<1>2. x[2] \in Accesses /\ acc[i] \in Accesses /\ acc[i].op \in Ops /\ "Store" \in Ops
  BY AccessFields DEF BDATypeOK, Ops
<1>3. \A o \in Ops : InvalidationMask(x[2])[o] \subseteq prev_hazard[i][o]
  BY <1>1 DEF WorkOK, Working, Overlap, WindowOf
<1>4. /\ InvalidationMask(x[2])[acc[i].op] \cap MarkOf(acc[i], acc[i].op) # {}
      /\ InvalidationMask(x[2])["Store"] \cap ByteMask(acc[i]) # {}
  BY <1>1, <1>2, RaceShows
<1>5. ~ TakesExclusiveOwnership(i)
  BY <1>2, <1>3, <1>4 DEF TakesExclusiveOwnership
<1>6. ~ exclusive[i]
  BY <1>5 DEF WorkOK, Working
<1>7. Hazard(i)
  BY <1>2, <1>3, <1>4 DEF Hazard
<1> QED BY <1>6, <1>7

\* A lock that cannot be there is not found.
LEMMA AbsentIsNotFound ==
  ASSUME BDAInv, NEW i \in Accessors, NEW h \in LockHashes, point[i] = "lock",
         RacesWithPast(i), LockIsAbsent(i, h)
  PROVE  ~ LockMask(id[i], h) \subseteq cells[Cell(WindowOf(i), h)].lock
<1>1. BDATypeOK /\ WorkOK(i) /\ LocksHaveCause /\ \A j \in Accessors : CallerOK(j)
  BY DEF BDAInv
<1>2. ~ exclusive[i]
  BY <1>1, RaceIsNotExclusive
<1> DEFINE Sum == UNION {LockMask(id[p[1]], p[2]) :
                          p \in {j \in Accessors \ {i} : id[j] # NoId} \X LockHashes}
           c == Cell(WindowOf(i), h)
<1>3. c \in Cells
  BY <1>1, AccessFields, CellRange, LockHashRange DEF BDATypeOK, WindowOf
<1>4. ASSUME NEW b \in cells[c].lock PROVE b \in Sum
  <2>1. PICK p \in owners, g \in LockHashes : Cell(p[2], g) = c /\ b \in LockMask(id[p[1]], g)
    BY <1>1, <1>3, <1>4 DEF LocksHaveCause
  <2>2. p[1] \in Accessors /\ p[2] \in Windows /\ p = <<p[1], p[2]>>
    BY <1>1 DEF BDATypeOK
  <2>3. id[p[1]] # NoId
    BY <1>1, <2>2 DEF CallerOK
  <2>4. p[1] # i
    <3> SUFFICES ASSUME p[1] = i PROVE FALSE
      OBVIOUS
    <3>1. <<i, p[2]>> \in past[i].owners
      BY <1>1, <1>2, <2>2 DEF WorkOK, Working
    <3> QED BY <2>1, <2>2, <3>1 DEF LockIsAbsent, WindowOf
  <2>5. <<p[1], g>> \in {j \in Accessors \ {i} : id[j] # NoId} \X LockHashes
    BY <2>2, <2>3, <2>4
  <2>6. b \in LockMask(id[<<p[1], g>>[1]], <<p[1], g>>[2])
    BY <2>1
  <2> QED BY <2>5, <2>6
<1>5. ~ LockMask(id[i], h) \subseteq Sum
  BY DEF LockIsAbsent
<1> QED BY <1>4, <1>5

LEMMA LockStep ==
  ASSUME BDAInv, NEW i \in Accessors, NEW h \in LockHashes, LockCell(i, h)
  PROVE  CallerOK(i)' /\ WorkOK(i)'
<1> DEFINE c == Cell(WindowOf(i), h)
<1>1. BDATypeOK /\ CallerOK(i) /\ WorkOK(i)
  BY DEF BDAInv
<1>2. /\ point[i] = "lock" /\ point'[i] = "lock" /\ Working(i) /\ h \in todo[i]
      /\ UNCHANGED <<id, acc, prev_hazard, exclusive, verdict, begun, finished, owners, past>>
  BY DEF LockCell, Working, histVars
<1>3. /\ todo'[i] = todo[i] \ {h}
      /\ self_lock'[i] = (self_lock[i] /\ LockMask(id[i], h) \subseteq cells[c].lock)
  BY <1>1 DEF LockCell, BDATypeOK, WindowOf
<1>4. Grows
  BY <1>1, StepGrows DEF BDAStep
<1>5. CallerOK(i)'
  BY <1>1, <1>2 DEF CallerOK, Working
<1>6. WindowOf(i)' = WindowOf(i) /\ MarkedHashes(i)' = Hashes /\ MarkedHashes(i) = Hashes
  BY <1>2 DEF WindowOf, MarkedHashes
<1>7. ASSUME NEW g \in Hashes
      PROVE  /\ HasMarked(acc[i], g)'
             /\ \A o \in Ops : prev_hazard[i][o] \subseteq cells'[Cell(WindowOf(i), g)].marks[o]
  <2>1. Cell(WindowOf(i), g) \in Cells
    BY <1>1, AccessFields, CellRange DEF BDATypeOK, WindowOf
  <2>2. /\ HasMarked(acc[i], g)
        /\ \A o \in Ops : prev_hazard[i][o] \subseteq cells[Cell(WindowOf(i), g)].marks[o]
    BY <1>1, <1>2, <1>6 DEF WorkOK
  <2> QED BY <1>2, <1>4, <2>1, <2>2 DEF HasMarked, Grows, WindowOf
<1>8. ASSUME RacesWithPast(i)', NEW g \in LockHashes \ todo'[i], LockIsAbsent(i, g)'
      PROVE  ~ self_lock'[i]
  <2>1. RacesWithPast(i)
    BY <1>2, <1>8 DEF RacesWithPast
  <2>2. LockIsAbsent(i, g)
    BY <1>2, <1>4, <1>8, AbsentBefore
  <2>3. CASE g = h
    BY <1>2, <1>3, <2>1, <2>2, <2>3, AbsentIsNotFound
  <2>4. CASE g # h
    BY <1>1, <1>2, <1>3, <2>1, <2>2, <2>4 DEF WorkOK
  <2> QED BY <2>3, <2>4
<1>9. TakesExclusiveOwnership(i)' <=> TakesExclusiveOwnership(i)
  BY <1>2 DEF TakesExclusiveOwnership
<1> QED BY <1>1, <1>2, <1>5, <1>6, <1>7, <1>8, <1>9 DEF WorkOK

LEMMA ReturnStep ==
  ASSUME BDAInv, NEW i \in Accessors, Return(i)
  PROVE  CallerOK(i)' /\ WorkOK(i)'
<1>1. BDATypeOK /\ CallerOK(i)
  BY DEF BDAInv
<1>2. /\ point[i] = "lock" /\ point'[i] = "run" /\ finished' = finished \cup {<<i, acc[i]>>}
      /\ UNCHANGED <<id, begun, owners>>
  BY <1>1 DEF Return, BDATypeOK
<1> QED BY <1>1, <1>2 DEF CallerOK, WorkOK, Working

LEMMA InvocationStep ==
  ASSUME BDAInv, NEW i \in Accessors, BDAStep(i)
  PROVE  \A j \in Accessors : CallerOK(j)' /\ WorkOK(j)'
<1>1. CallerOK(i)' /\ WorkOK(i)'
  BY AllocateStep, BeginStep, MarkStep, EndStep, LockStep, ReturnStep DEF BDAStep
<1> QED BY <1>1, OtherStep

\* Marks and locks appear with the access that causes them.
LEMMA CauseStep ==
  ASSUME BDAInv, NEW i \in Accessors, BDAStep(i)
  PROVE  MarksHaveCause' /\ LocksHaveCause' /\ FinishedOK'
<1>1. /\ BDATypeOK /\ CallerOK(i) /\ WorkOK(i)
      /\ MarksHaveCause /\ LocksHaveCause /\ FinishedOK /\ Grows
  BY StepGrows DEF BDAInv
<1>2. acc[i] \in Accesses /\ WindowOf(i) \in Windows
  BY <1>1, AccessFields DEF BDATypeOK, WindowOf
<1>3. MarksHaveCause'
  <2> SUFFICES ASSUME NEW c \in Cells, NEW o \in Ops, cells'[c].marks[o] # {}
               PROVE  \E x \in begun' : /\ \E h \in Hashes : Cell(x[2].window, h) = c
                                        /\ o \in Invalidates[x[2].op]
    BY DEF MarksHaveCause
  <2>1. CASE cells[c].marks[o] # {}
    BY <1>1, <2>1 DEF MarksHaveCause, Grows
  <2>2. CASE cells[c].marks[o] = {}
    <3>1. PICK h \in Hashes : MarkCell(i, h)
      <4>1. cells' # cells
        BY <2>2
      <4>2. CASE \E h \in LockHashes : LockCell(i, h)
        <5>1. cells'[c].marks = cells[c].marks
          BY <1>1, <4>2 DEF LockCell, BDATypeOK
        <5> QED BY <2>2, <5>1
      <4>3. CASE \E h \in Hashes : MarkCell(i, h)
        BY <4>3
      <4> QED BY <4>1, <4>2, <4>3 DEF BDAStep, AllocateInvocationID, BeginAccess,
                                      EndMarking, Return
    <3>2. c = Cell(WindowOf(i), h) /\ InvalidationMask(acc[i])[o] # {}
      BY <1>1, <2>2, <3>1 DEF MarkCell, BDATypeOK, WindowOf
    <3>3. o \in Invalidates[acc[i].op]
      BY <3>2 DEF InvalidationMask
    <3>4. <<i, acc[i]>> \in begun'
      BY <1>1, <3>1 DEF MarkCell, WorkOK, Working, Grows
    <3>5. <<i, acc[i]>>[2] = acc[i]
      OBVIOUS
    <3> QED BY <3>2, <3>3, <3>4, <3>5 DEF WindowOf
  <2> QED BY <2>1, <2>2
<1>4. LocksHaveCause'
  <2> SUFFICES ASSUME NEW c \in Cells, NEW b \in cells'[c].lock
               PROVE  \E p \in owners', h \in LockHashes :
                        Cell(p[2], h) = c /\ b \in LockMask(id'[p[1]], h)
    BY DEF LocksHaveCause
  <2>1. \A p \in owners : p[1] \in Accessors /\ id'[p[1]] = id[p[1]]
    BY <1>1 DEF BDAInv, BDATypeOK, CallerOK, Grows
  <2>2. CASE b \in cells[c].lock
    <3>1. PICK p \in owners, h \in LockHashes : Cell(p[2], h) = c /\ b \in LockMask(id[p[1]], h)
      BY <1>1, <2>2 DEF LocksHaveCause
    <3> QED BY <1>1, <2>1, <3>1 DEF Grows
  <2>3. CASE b \notin cells[c].lock
    <3>1. PICK h \in LockHashes : LockCell(i, h)
      <4>1. cells' # cells
        BY <2>3
      <4>2. CASE \E h \in Hashes : MarkCell(i, h)
        <5>1. cells'[c].lock = cells[c].lock
          BY <1>1, <4>2 DEF MarkCell, BDATypeOK
        <5> QED BY <2>3, <5>1
      <4>3. CASE \E h \in LockHashes : LockCell(i, h)
        BY <4>3
      <4> QED BY <4>1, <4>2, <4>3 DEF BDAStep, AllocateInvocationID, BeginAccess,
                                      EndMarking, Return
    <3>2. c = Cell(WindowOf(i), h) /\ b \in LockBits(i, h)
      BY <1>1, <2>3, <3>1 DEF LockCell, BDATypeOK, WindowOf
    <3>3. exclusive[i] /\ b \in LockMask(id[i], h)
      BY <3>2 DEF LockBits
    <3>4. <<i, WindowOf(i)>> \in owners
      BY <1>1, <3>1, <3>3 DEF LockCell, WorkOK, Working
    <3>5. <<i, WindowOf(i)>> \in owners' /\ id'[i] = id[i]
      BY <1>1, <3>1, <3>4 DEF Grows, LockCell
    <3>6. <<i, WindowOf(i)>>[1] = i /\ <<i, WindowOf(i)>>[2] = WindowOf(i)
      OBVIOUS
    <3> QED BY <3>2, <3>3, <3>5, <3>6
  <2> QED BY <2>2, <2>3
<1>5. FinishedOK'
  <2> SUFFICES ASSUME NEW x \in finished', NEW h \in Hashes PROVE HasMarked(x[2], h)'
    BY DEF FinishedOK
  <2>1. CASE x \in finished
    BY <1>1, <2>1, HasMarkedStays DEF FinishedOK, BDATypeOK
  <2>2. CASE x \notin finished
    <3>1. Return(i)
      BY <2>2 DEF BDAStep, AllocateInvocationID, BeginAccess, MarkCell, EndMarking, LockCell,
                  histVars
    <3>2. x = <<i, acc[i]>>
      BY <2>2, <3>1 DEF Return
    <3>3. HasMarked(acc[i], h)
      BY <1>1, <3>1 DEF Return, WorkOK, Working, MarkedHashes
    <3> QED BY <1>1, <1>2, <3>1, <3>2, <3>3, HasMarkedStays DEF Return, HasMarked
  <2> QED BY <2>1, <2>2
<1> QED BY <1>3, <1>4, <1>5

\* A verdict is given once, at the end of an access.
LEMMA ReportedStep ==
  ASSUME BDAInv, NEW i \in Accessors, BDAStep(i)
  PROVE  EarlierRaceIsReported'
<1>1. BDATypeOK /\ CallerOK(i) /\ WorkOK(i) /\ EarlierRaceIsReported /\ Grows
  BY StepGrows DEF BDAInv
<1> SUFFICES ASSUME NEW j \in Accessors, point'[j] = "run", verdict'[j] # "none",
                    acc'[j].in_bounds, NEW h \in LockHashes, LockIsAbsent(j, h)',
                    RacesWithPast(j)'
             PROVE  verdict'[j] = "report"
  BY DEF EarlierRaceIsReported
<1>2. CASE j # i
  <2>1. SameAccess(j)
    BY <1>1, <1>2, StepFrame
  <2>2. LockIsAbsent(j, h)
    BY <1>1, <2>1, AbsentBefore DEF SameAccess
  <2>3. RacesWithPast(j)
    BY <2>1 DEF RacesWithPast, SameAccess
  <2> QED BY <1>1, <2>1, <2>2, <2>3 DEF EarlierRaceIsReported, SameAccess
<1>3. CASE j = i
  <2>1. CASE AllocateInvocationID(i)
    BY <1>1, <1>3, <2>1 DEF AllocateInvocationID, CallerOK, accessVars
  <2>2. ASSUME NEW a \in Accesses, BeginAccess(i, a) PROVE FALSE
    BY <1>1, <1>3, <2>2 DEF BeginAccess, BDATypeOK
  <2>3. ASSUME NEW g \in Hashes, MarkCell(i, g) PROVE FALSE
    BY <1>3, <2>3 DEF MarkCell
  <2>4. CASE EndMarking(i)
    BY <1>1, <1>3, <2>4 DEF EndMarking, BDATypeOK
  <2>5. ASSUME NEW g \in LockHashes, LockCell(i, g) PROVE FALSE
    BY <1>3, <2>5 DEF LockCell
  <2>6. CASE Return(i)
    <3>1. /\ point[i] = "lock" /\ todo[i] = {} /\ UNCHANGED <<acc, past, id>>
          /\ verdict'[i] = IF ~ Hazard(i) \/ self_lock[i] THEN "pass" ELSE "report"
      BY <1>1, <2>6 DEF Return, BDATypeOK
    <3>2. RacesWithPast(i)
      BY <1>3, <3>1 DEF RacesWithPast
    <3>3. LockIsAbsent(i, h)
      BY <1>1, <1>3, <3>1, AbsentBefore
    <3>4. ~ self_lock[i]
      BY <1>1, <3>1, <3>2, <3>3 DEF WorkOK, Working
    <3>5. Hazard(i)
      BY <1>1, <3>1, <3>2, RaceIsNotExclusive
    <3> QED BY <1>3, <3>1, <3>4, <3>5
  <2> QED BY <2>1, <2>2, <2>3, <2>4, <2>5, <2>6 DEF BDAStep
<1> QED BY <1>2, <1>3

-----------------------------------------------------------------------------
(* The theorems.                                                           *)

LEMMA BDAInitInv == BDAInit => BDAInv
<1> SUFFICES ASSUME BDAInit PROVE BDAInv
  OBVIOUS
<1>1. BDATypeOK
  <2>1. NoMarks \in [Ops -> SUBSET (Bytes \cup WindowWords)]
    BY DEF NoMarks
  <2>2. (CHOOSE a \in Accesses : TRUE) \in Accesses
    BY BDAConstants DEF BDAConstants
  <2>3. acc \in [Accessors -> Accesses]
    BY <2>2 DEF BDAInit
  <2>4. /\ id_counter \in 0 .. UintRange - 1 /\ count \in [Accessors -> 0 .. MaxAccesses]
    BY BDAConstants DEF BDAConstants, BDAInit
  <2>5. cells \in [Cells -> [marks : [Ops -> SUBSET (Bytes \cup WindowWords)],
                            lock : SUBSET ((0 .. 2) \X (0 .. 7))]]
    BY <2>1 DEF BDAInit
  <2>6. prev_hazard \in [Accessors -> [Ops -> SUBSET (Bytes \cup WindowWords)]]
    BY <2>1 DEF BDAInit
  <2>7. past \in [Accessors -> [finished : SUBSET (Accessors \X Accesses),
                               owners : SUBSET (Accessors \X Windows)]]
    BY DEF BDAInit
  <2> QED BY <2>3, <2>4, <2>5, <2>6, <2>7, CellRange DEF BDAInit, BDATypeOK
<1>2. MarksHaveCause /\ LocksHaveCause /\ FinishedOK
  BY DEF BDAInit, MarksHaveCause, LocksHaveCause, FinishedOK, NoMarks
<1>3. \A i \in Accessors : CallerOK(i) /\ WorkOK(i)
  BY DEF BDAInit, CallerOK, WorkOK, Working
<1>4. EarlierRaceIsReported
  BY DEF BDAInit, EarlierRaceIsReported
<1> QED BY <1>1, <1>2, <1>3, <1>4 DEF BDAInv

LEMMA BDANextInv == BDAInv /\ [BDANext]_bdaVars => BDAInv'
<1> SUFFICES ASSUME BDAInv, [BDANext]_bdaVars PROVE BDAInv'
  OBVIOUS
<1>1. ASSUME NEW i \in Accessors, BDAStep(i) PROVE BDAInv'
  <2>1. BDATypeOK'
    BY <1>1, StepType DEF BDAInv
  <2> QED BY <1>1, <2>1, InvocationStep, CauseStep, ReportedStep DEF BDAInv
<1>2. CASE UNCHANGED bdaVars
  <2>1. UNCHANGED <<cells, id_counter, id, point, acc, todo, prev_hazard, exclusive, self_lock,
                    verdict, count, begun, finished, owners, past>>
    BY <1>2 DEF bdaVars, accessVars, histVars
  <2>2. BDATypeOK'
    BY <2>1 DEF BDAInv, BDATypeOK
  <2>3. MarksHaveCause' /\ LocksHaveCause' /\ FinishedOK'
    BY <2>1 DEF BDAInv, MarksHaveCause, LocksHaveCause, FinishedOK, HasMarked
  <2>4. \A i \in Accessors : /\ RacesWithPast(i)' <=> RacesWithPast(i)
                             /\ \A h \in LockHashes : LockIsAbsent(i, h)' <=> LockIsAbsent(i, h)
    BY <2>1 DEF RacesWithPast, LockIsAbsent
  <2>5. EarlierRaceIsReported'
    BY <2>1, <2>4 DEF BDAInv, EarlierRaceIsReported
  <2>6. \A i \in Accessors : CallerOK(i)'
    BY <2>1 DEF BDAInv, CallerOK, Working
  <2>7. ASSUME NEW i \in Accessors PROVE WorkOK(i)'
    <3>1. WorkOK(i)
      BY DEF BDAInv
    <3> QED BY <2>1, <2>4, <3>1 DEF WorkOK, Working, MarkedHashes, HasMarked, WindowOf,
                                    TakesExclusiveOwnership
  <2> QED BY <2>2, <2>3, <2>5, <2>6, <2>7 DEF BDAInv
<1> QED BY <1>1, <1>2 DEF BDANext, BDAStep

\* ValidateBDALoadStore misses no race with an access that had returned before
\* the call, whatever the interleaving of the atomics, unless a lock of the
\* invocation itself excuses it: any number of invocations, windows and
\* accesses, any hash.
THEOREM BDAEarlierRaceIsReported == BDASpec => []EarlierRaceIsReported
<1>1. BDAInv => EarlierRaceIsReported
  BY DEF BDAInv
<1> QED BY <1>1, BDAInitInv, BDANextInv, PTL DEF BDASpec

-----------------------------------------------------------------------------
(* Reports.                                                                *)

\* Locks of a window stay complete, and a window that has one user had no other.
LEMMA AloneBefore ==
  ASSUME Grows, NEW i \in Accessors, NEW w \in Windows
  PROVE  /\ Alone(i, w)' => Alone(i, w)
         /\ id'[i] = id[i] /\ Locked(i, w) => Locked(i, w)'
<1>1. \A h \in LockHashes : Cell(w, h) \in Cells
  BY CellRange, LockHashRange
<1>2. Alone(i, w)' => Alone(i, w)
  BY DEF Grows, Alone
<1>3. ASSUME id'[i] = id[i], Locked(i, w) PROVE Locked(i, w)'
  <2> SUFFICES ASSUME NEW h \in LockHashes
               PROVE  LockMask(id'[i], h) \subseteq cells'[Cell(w, h)].lock
    BY DEF Locked
  <2>1. LockMask(id[i], h) \subseteq cells[Cell(w, h)].lock
    BY <1>3 DEF Locked
  <2>2. cells[Cell(w, h)].lock \subseteq cells'[Cell(w, h)].lock
    BY <1>1 DEF Grows
  <2>3. LockMask(id'[i], h) = LockMask(id[i], h)
    BY <1>3
  <2> QED BY <2>1, <2>2, <2>3
<1> QED BY <1>2, <1>3

LEMMA OtherAlone ==
  ASSUME BDAInv, NEW i \in Accessors, AloneOK(i), NEW k \in Accessors, k # i, BDAStep(k)
  PROVE  AloneOK(i)'
<1>1. BDATypeOK /\ WorkOK(k) /\ SameAccess(i) /\ Grows
  BY StepFrame, StepGrows DEF BDAInv
<1>2. /\ acc[i] \in Accesses /\ WindowOf(i) \in Windows /\ WindowOf(i)' = WindowOf(i)
      /\ id'[i] = id[i] /\ Working(i)' = Working(i)
  BY <1>1, AccessFields DEF BDATypeOK, SameAccess, WindowOf, Working
<1>3. ASSUME NEW x \in finished', x[1] = i, Alone(i, x[2].window)'
      PROVE  Locked(i, x[2].window)'
  <2>1. x \in finished
    <3>1. CASE Return(k)
      BY <1>3, <3>1 DEF Return
    <3>2. CASE ~ Return(k)
      BY <1>3, <3>2 DEF BDAStep, AllocateInvocationID, BeginAccess, MarkCell, EndMarking,
                        LockCell, histVars
    <3> QED BY <3>1, <3>2
  <2>2. x[2].window \in Windows
    BY <1>1, <2>1, AccessFields DEF BDATypeOK
  <2> QED BY <1>1, <1>2, <1>3, <2>1, <2>2, AloneBefore DEF AloneOK
<1>4. ASSUME Working(i), Alone(i, WindowOf(i))', ~ Locked(i, WindowOf(i)), point[i] = "mark",
             NEW h \in Hashes, Private(WindowOf(i), h), h \in todo[i],
             \A o \in Ops : cells[Cell(WindowOf(i), h)].marks[o] = {}
      PROVE  \A o \in Ops : cells'[Cell(WindowOf(i), h)].marks[o] = {}
  <2> DEFINE c == Cell(WindowOf(i), h)
  <2>1. c \in Cells
    BY <1>2, CellRange
  <2>2. CASE \E g \in Hashes : MarkCell(k, g)
    <3>1. PICK g \in Hashes : MarkCell(k, g)
      BY <2>2
    <3>2. <<k, acc[k]>> \in begun'
      BY <1>1, <3>1 DEF MarkCell, WorkOK, Working, histVars
    <3>3. WindowOf(k) # WindowOf(i) /\ WindowOf(k) \in Windows
      BY <1>1, <1>2, <1>4, <3>2, AccessFields DEF Alone, WindowOf, BDATypeOK
    <3>4. c # Cell(WindowOf(k), g)
      BY <1>4, <3>3 DEF Private
    <3> QED BY <1>1, <1>4, <2>1, <3>1, <3>4 DEF MarkCell, BDATypeOK, WindowOf
  <2>3. CASE \E g \in LockHashes : LockCell(k, g)
    <3>1. cells'[c].marks = cells[c].marks
      BY <1>1, <2>1, <2>3 DEF LockCell, BDATypeOK
    <3> QED BY <1>4, <3>1
  <2>4. CASE cells' = cells
    BY <1>4, <2>4
  <2> QED BY <2>2, <2>3, <2>4 DEF BDAStep, AllocateInvocationID, BeginAccess, EndMarking, Return
<1>5. Alone(i, WindowOf(i))' => Alone(i, WindowOf(i))
  BY <1>1, <1>2, AloneBefore DEF Alone
<1>6. Locked(i, WindowOf(i)) => Locked(i, WindowOf(i))'
  BY <1>1, <1>2, AloneBefore DEF Locked
<1>7. \A h \in LockHashes : Cell(WindowOf(i), h) \in Cells
  BY <1>2, CellRange, LockHashRange
<1>8. ASSUME Working(i)', Alone(i, WindowOf(i))' PROVE AloneAtWork(i)'
  <2>1. CASE Locked(i, WindowOf(i)) /\ (point[i] = "lock" => self_lock[i])
    BY <1>1, <1>6, <2>1 DEF SameAccess, AloneAtWork
  <2>2. CASE /\ point[i] = "mark" /\ ~ Locked(i, WindowOf(i))
             /\ \A h \in Hashes : Private(WindowOf(i), h) =>
                  \/ /\ h \in todo[i]
                     /\ \A o \in Ops : cells[Cell(WindowOf(i), h)].marks[o] = {}
                  \/ \A o \in Ops : prev_hazard[i][o] = {}
    <3>1. \A h \in Hashes : Private(WindowOf(i), h)' <=> Private(WindowOf(i), h)
      BY <1>2 DEF Private
    <3> QED BY <1>1, <1>2, <1>4, <1>8, <2>2, <3>1 DEF SameAccess, AloneAtWork
  <2>3. CASE /\ point[i] = "lock" /\ exclusive[i]
             /\ \A o \in Ops : prev_hazard[i][o] = {}
             /\ \A h \in LockHashes \ todo[i] :
                  LockMask(id[i], h) \subseteq cells[Cell(WindowOf(i), h)].lock
    <3>1. \A h \in LockHashes \ todo[i] :
            LockMask(id[i], h) \subseteq cells'[Cell(WindowOf(i), h)].lock
      <4> TAKE h \in LockHashes \ todo[i]
      <4>1. LockMask(id[i], h) \subseteq cells[Cell(WindowOf(i), h)].lock
        BY <2>3
      <4>2. cells[Cell(WindowOf(i), h)].lock \subseteq cells'[Cell(WindowOf(i), h)].lock
        BY <1>1, <1>7 DEF Grows
      <4> QED BY <4>1, <4>2
    <3> QED BY <1>1, <1>2, <2>3, <3>1 DEF SameAccess, AloneAtWork
  <2> QED BY <1>2, <1>5, <1>8, <2>1, <2>2, <2>3 DEF AloneOK, AloneAtWork
<1> QED BY <1>3, <1>8 DEF AloneOK

\* Where i's own step returns no access, its locks are still complete.
LEMMA AloneKept ==
  ASSUME BDATypeOK, Grows, NEW i \in Accessors, AloneOK(i), id'[i] = id[i],
         finished' = finished, Working(i)' /\ Alone(i, WindowOf(i))' => AloneAtWork(i)'
  PROVE  AloneOK(i)'
<1>1. ASSUME NEW x \in finished', x[1] = i, Alone(i, x[2].window)'
      PROVE  Locked(i, x[2].window)'
  <2>1. x \in finished /\ x[2].window \in Windows
    BY <1>1, AccessFields DEF BDATypeOK
  <2> QED BY <1>1, <2>1, AloneBefore DEF AloneOK
<1> QED BY <1>1 DEF AloneOK, AloneAtWork

LEMMA BeginAlone ==
  ASSUME BDAInv, NEW i \in Accessors, AloneOK(i), NEW a \in Accesses, BeginAccess(i, a)
  PROVE  AloneOK(i)'
<1>1. BDATypeOK /\ MarksHaveCause /\ CallerOK(i) /\ Grows
  BY StepGrows DEF BDAInv, BDAStep
<1>2. point[i] = "run" /\ ~ Working(i) /\ UNCHANGED <<id, finished, cells>>
  BY DEF BeginAccess, Working
<1>3. ASSUME Working(i)', Alone(i, WindowOf(i))' PROVE AloneAtWork(i)'
  <2>1. /\ a.in_bounds /\ point'[i] = "mark" /\ todo'[i] = Hashes
        /\ begun' = begun \cup {<<i, a>>} /\ WindowOf(i)' = a.window
    BY <1>1, <1>2, <1>3 DEF BeginAccess, BDATypeOK, Working, WindowOf
  <2>2. CASE \E x \in begun : x[2].window = a.window
    <3>1. PICK x \in begun : x[2].window = a.window
      BY <2>2
    <3>2. x[1] = i /\ Alone(i, a.window)
      BY <1>3, <2>1, <3>1 DEF Alone
    <3>3. x \in finished
      BY <1>1, <1>2, <3>1, <3>2 DEF CallerOK
    <3>4. Locked(i, a.window)
      BY <3>1, <3>2, <3>3 DEF AloneOK
    <3>5. Locked(i, WindowOf(i))'
      BY <1>2, <2>1, <3>4 DEF Locked
    <3> QED BY <2>1, <3>5 DEF AloneAtWork
  <2>3. CASE ~ \E x \in begun : x[2].window = a.window
    <3>1. ASSUME NEW h \in Hashes, Private(a.window, h), NEW o \in Ops,
                 cells[Cell(a.window, h)].marks[o] # {}
          PROVE  FALSE
      <4>1. Cell(a.window, h) \in Cells
        BY CellRange, AccessFields
      <4>2. PICK x \in begun, g \in Hashes : Cell(x[2].window, g) = Cell(a.window, h)
        BY <1>1, <3>1, <4>1 DEF MarksHaveCause
      <4>3. x[2].window \in Windows
        BY <1>1, AccessFields DEF BDATypeOK
      <4> QED BY <2>3, <3>1, <4>2, <4>3 DEF Private
    <3>2. \A h \in Hashes : Private(WindowOf(i), h)' => Private(a.window, h)
      BY <2>1 DEF Private
    <3> QED BY <1>2, <2>1, <3>1, <3>2 DEF AloneAtWork
  <2> QED BY <2>2, <2>3
<1> QED BY <1>1, <1>2, <1>3, AloneKept

LEMMA MarkAlone ==
  ASSUME BDAInv, NEW i \in Accessors, AloneOK(i), NEW h \in Hashes, MarkCell(i, h)
  PROVE  AloneOK(i)'
<1> DEFINE W == WindowOf(i)
           c == Cell(W, h)
<1>1. BDATypeOK /\ Grows
  BY StepGrows DEF BDAInv, BDAStep
<1>2. /\ point[i] = "mark" /\ point'[i] = "mark" /\ Working(i) /\ W' = W
      /\ UNCHANGED <<id, begun, finished>>
  BY DEF MarkCell, Working, WindowOf, histVars
<1>3. W \in Windows /\ c \in Cells
  BY <1>1, AccessFields, CellRange DEF BDATypeOK, WindowOf
<1>4. /\ todo'[i] = todo[i] \ {h}
      /\ \A o \in Ops : prev_hazard'[i][o] = prev_hazard[i][o] \cap cells[c].marks[o]
      /\ \A d \in Cells : d # c => cells'[d] = cells[d]
  BY <1>1, <1>3 DEF MarkCell, BDATypeOK, WindowOf
<1>5. ASSUME Working(i)', Alone(i, WindowOf(i))' PROVE AloneAtWork(i)'
  <2>1. AloneAtWork(i)
    BY <1>2, <1>5 DEF AloneOK, AloneAtWork, Alone
  <2>2. CASE Locked(i, W)
    <3>1. Locked(i, W)'
      BY <1>1, <1>2, <1>3, <2>2, AloneBefore DEF Locked
    <3> QED BY <1>2, <3>1 DEF AloneAtWork
  <2>3. CASE \A g \in Hashes : Private(W, g) =>
               \/ g \in todo[i] /\ \A o \in Ops : cells[Cell(W, g)].marks[o] = {}
               \/ \A o \in Ops : prev_hazard[i][o] = {}
    <3>1. ASSUME NEW g \in Hashes, Private(W, g)
          PROVE  \/ g \in todo'[i] /\ \A o \in Ops : cells'[Cell(W, g)].marks[o] = {}
                 \/ \A o \in Ops : prev_hazard'[i][o] = {}
      <4>1. Cell(W, g) \in Cells
        BY <1>3, CellRange
      <4>2. CASE \A o \in Ops : prev_hazard[i][o] = {}
        BY <1>4, <4>2
      <4>3. CASE g \in todo[i] /\ \A o \in Ops : cells[Cell(W, g)].marks[o] = {}
        <5>1. CASE Cell(W, g) = c
          BY <1>4, <4>3, <5>1
        <5>2. CASE Cell(W, g) # c
          <6>1. g # h
            BY <5>2
          <6> QED BY <1>4, <4>1, <4>3, <5>2, <6>1
        <5> QED BY <5>1, <5>2
      <4> QED BY <2>3, <3>1, <4>2, <4>3
    <3>2. \A g \in Hashes : Private(W, g)' => Private(W, g)
      BY <1>2 DEF Private
    <3> QED BY <1>2, <3>1, <3>2 DEF AloneAtWork
  <2> QED BY <1>2, <2>1, <2>2, <2>3 DEF AloneAtWork
<1> QED BY <1>1, <1>2, <1>5, AloneKept

LEMMA EndAlone ==
  ASSUME NoFalsePositives, BDAInv, NEW i \in Accessors, AloneOK(i), EndMarking(i)
  PROVE  AloneOK(i)'
<1>1. BDATypeOK /\ Grows
  BY StepGrows DEF BDAInv, BDAStep
<1>2. /\ point[i] = "mark" /\ point'[i] = "lock" /\ todo[i] = {} /\ Working(i)
      /\ todo'[i] = LockHashes /\ self_lock'[i] = TRUE
      /\ exclusive'[i] = TakesExclusiveOwnership(i) /\ WindowOf(i)' = WindowOf(i)
      /\ UNCHANGED <<id, begun, finished, cells, prev_hazard>>
  BY <1>1 DEF EndMarking, Working, WindowOf, BDATypeOK
<1>3. ASSUME Working(i)', Alone(i, WindowOf(i))' PROVE AloneAtWork(i)'
  <2>1. AloneAtWork(i)
    BY <1>2, <1>3 DEF AloneOK, AloneAtWork, Alone
  <2>2. CASE Locked(i, WindowOf(i))
    BY <1>2, <2>2 DEF AloneAtWork, Locked
  <2>3. CASE ~ Locked(i, WindowOf(i))
    <3>1. WindowOf(i) \in Windows
      BY <1>1, AccessFields DEF BDATypeOK, WindowOf
    <3>2. PICK h \in Hashes : Private(WindowOf(i), h)
      BY <3>1 DEF NoFalsePositives
    <3>3. \A o \in Ops : prev_hazard[i][o] = {}
      BY <1>2, <2>1, <2>3, <3>2 DEF AloneAtWork
    <3>4. exclusive'[i]
      BY <1>2, <3>3 DEF TakesExclusiveOwnership, Ops
    <3> QED BY <1>2, <3>3, <3>4 DEF AloneAtWork
  <2> QED BY <2>2, <2>3
<1> QED BY <1>1, <1>2, <1>3, AloneKept

LEMMA LockAlone ==
  ASSUME BDAInv, NEW i \in Accessors, AloneOK(i), NEW h \in LockHashes, LockCell(i, h)
  PROVE  AloneOK(i)'
<1> DEFINE W == WindowOf(i)
           c == Cell(W, h)
<1>1. BDATypeOK /\ Grows
  BY StepGrows DEF BDAInv, BDAStep
<1>2. /\ point[i] = "lock" /\ point'[i] = "lock" /\ Working(i) /\ W' = W
      /\ UNCHANGED <<id, begun, finished, prev_hazard, exclusive>>
  BY DEF LockCell, Working, WindowOf, histVars
<1>3. W \in Windows /\ \A g \in LockHashes : Cell(W, g) \in Cells
  BY <1>1, AccessFields, CellRange, LockHashRange DEF BDATypeOK, WindowOf
<1>4. /\ todo'[i] = todo[i] \ {h}
      /\ self_lock'[i] = (self_lock[i] /\ LockMask(id[i], h) \subseteq cells[c].lock)
      /\ cells'[c].lock = cells[c].lock \cup LockBits(i, h)
  BY <1>1, <1>3 DEF LockCell, BDATypeOK, WindowOf
<1>5. ASSUME Working(i)', Alone(i, WindowOf(i))' PROVE AloneAtWork(i)'
  <2>1. AloneAtWork(i)
    BY <1>2, <1>5 DEF AloneOK, AloneAtWork, Alone
  <2>2. CASE Locked(i, W) /\ self_lock[i]
    <3>1. Locked(i, W)'
      BY <1>1, <1>2, <1>3, <2>2, AloneBefore DEF Locked
    <3>2. self_lock'[i]
      BY <1>4, <2>2 DEF Locked
    <3> QED BY <3>1, <3>2 DEF AloneAtWork
  <2>3. CASE /\ exclusive[i] /\ \A o \in Ops : prev_hazard[i][o] = {}
             /\ \A g \in LockHashes \ todo[i] :
                  LockMask(id[i], g) \subseteq cells[Cell(W, g)].lock
    <3>1. ASSUME NEW g \in LockHashes \ todo'[i]
          PROVE  LockMask(id[i], g) \subseteq cells'[Cell(W, g)].lock
      <4>1. CASE g = h
        BY <1>4, <2>3, <4>1 DEF LockBits
      <4>2. CASE g # h
        <5>1. LockMask(id[i], g) \subseteq cells[Cell(W, g)].lock
          BY <1>4, <2>3, <4>2
        <5>2. cells[Cell(W, g)].lock \subseteq cells'[Cell(W, g)].lock
          BY <1>1, <1>3 DEF Grows
        <5> QED BY <5>1, <5>2
      <4> QED BY <4>1, <4>2
    <3> QED BY <1>2, <2>3, <3>1 DEF AloneAtWork
  <2> QED BY <1>2, <2>1, <2>2, <2>3 DEF AloneAtWork
<1> QED BY <1>1, <1>2, <1>5, AloneKept

\* An access that returns has left its locks, or had found them.
LEMMA ReturnAlone ==
  ASSUME BDAInv, NEW i \in Accessors, AloneOK(i), Return(i)
  PROVE  AloneOK(i)'
<1>1. BDATypeOK /\ Working(i)
  BY DEF BDAInv, Return, Working
<1>2. /\ point[i] = "lock" /\ todo[i] = {} /\ ~ Working(i)'
      /\ finished' = finished \cup {<<i, acc[i]>>} /\ UNCHANGED <<id, begun, cells>>
  BY <1>1 DEF Return, Working, BDATypeOK
<1>3. Alone(i, WindowOf(i)) => Locked(i, WindowOf(i))
  BY <1>1, <1>2 DEF AloneOK, AloneAtWork, Locked
<1>4. \A x \in finished' : x[1] = i /\ Alone(i, x[2].window) => Locked(i, x[2].window)
  BY <1>2, <1>3 DEF AloneOK, WindowOf
<1> QED BY <1>2, <1>4 DEF AloneOK, Alone, Locked

LEMMA AloneStep ==
  ASSUME NoFalsePositives, BDAInv, NEW i \in Accessors, AloneOK(i),
         NEW k \in Accessors, BDAStep(k)
  PROVE  AloneOK(i)'
<1>1. CASE k # i
  BY <1>1, OtherAlone
<1>2. CASE AllocateInvocationID(i)
  <2>1. point[i] = "run" /\ \A x \in finished : x[1] # i
    BY <1>2 DEF BDAInv, BDATypeOK, CallerOK, AllocateInvocationID
  <2> QED BY <1>2, <2>1 DEF AloneOK, Working, AllocateInvocationID, accessVars, histVars
<1> QED BY <1>1, <1>2, BeginAlone, MarkAlone, EndAlone, LockAlone, ReturnAlone DEF BDAStep

\* What caused the report of an access: another invocation, and an operation
\* that the access conflicts with.
LEMMA ReportStep ==
  ASSUME NoFalsePositives, BDAInv, CauseInv, NEW i \in Accessors, Return(i),
         verdict'[i] = "report"
  PROVE  \E x, y \in begun :
           /\ x[1] # i /\ x[2].window = acc[i].window
           /\ y[2].window = acc[i].window /\ OpsConflict(y[2].op, acc[i].op)
<1> DEFINE W == WindowOf(i)
           op == acc[i].op
<1>1. BDATypeOK /\ WorkOK(i) /\ MarksHaveCause /\ AloneOK(i)
  BY DEF BDAInv, CauseInv
<1>2. point[i] = "lock" /\ Working(i) /\ Hazard(i) /\ ~ self_lock[i]
  BY <1>1 DEF Return, Working, BDATypeOK
<1>3. W \in Windows /\ op \in Ops
  BY <1>1, AccessFields DEF BDATypeOK, WindowOf
<1>4. prev_hazard[i][op] # {}
  BY <1>2 DEF Hazard
<1>5. ~ Alone(i, W)
  BY <1>1, <1>2, <1>3, <1>4 DEF AloneOK, AloneAtWork
<1>6. PICK x \in begun : x[1] # i /\ x[2].window = W
  BY <1>5 DEF Alone
<1>7. PICK h \in Hashes : Private(W, h)
  BY <1>3 DEF NoFalsePositives
<1>8. Cell(W, h) \in Cells /\ cells[Cell(W, h)].marks[op] # {}
  BY <1>1, <1>2, <1>3, <1>4, CellRange DEF WorkOK, MarkedHashes
<1>9. PICK y \in begun : /\ \E g \in Hashes : Cell(y[2].window, g) = Cell(W, h)
                         /\ op \in Invalidates[y[2].op]
  BY <1>1, <1>3, <1>8 DEF MarksHaveCause
<1>10. y[2].window \in Windows /\ y[2].op \in Ops
  BY <1>1, AccessFields DEF BDATypeOK
<1>11. y[2].window = W /\ OpsConflict(y[2].op, op)
  BY <1>3, <1>7, <1>9, <1>10, InvalidatesOps DEF Private
<1> QED BY <1>6, <1>11 DEF WindowOf

LEMMA CauseNextInv ==
  ASSUME NoFalsePositives, BDAInv, CauseInv, [BDANext]_bdaVars
  PROVE  CauseInv'
<1>1. ASSUME NEW k \in Accessors, BDAStep(k) PROVE CauseInv'
  <2>1. \A i \in Accessors : AloneOK(i)'
    BY <1>1, AloneStep DEF CauseInv
  <2>2. BDATypeOK /\ Grows
    BY <1>1, StepGrows DEF BDAInv
  <2>3. ASSUME NEW i \in Accessors, verdict'[i] = "report"
        PROVE  \E x, y \in begun' :
                 /\ x[1] # i /\ x[2].window = acc'[i].window
                 /\ y[2].window = acc'[i].window /\ OpsConflict(y[2].op, acc'[i].op)
    <3>1. CASE Return(k) /\ i = k
      <4>1. UNCHANGED <<acc, begun>>
        BY <3>1 DEF Return
      <4> QED BY <2>3, <3>1, <4>1, ReportStep
    <3>2. CASE ~ (Return(k) /\ i = k)
      <4>1. verdict[i] = "report" /\ acc'[i] = acc[i]
        <5>1. CASE i # k
          BY <1>1, <2>2, <2>3, <5>1, StepFrame DEF SameAccess
        <5>2. CASE i = k
          <6>1. ASSUME NEW a \in Accesses, BeginAccess(i, a) PROVE FALSE
            BY <2>2, <2>3, <6>1 DEF BeginAccess, BDATypeOK
          <6>2. UNCHANGED <<acc, verdict>>
            BY <1>1, <3>2, <5>2, <6>1 DEF BDAStep, AllocateInvocationID, MarkCell, EndMarking,
               LockCell, accessVars
          <6> QED BY <2>3, <6>2
        <5> QED BY <5>1, <5>2
      <4> QED BY <2>2, <4>1 DEF CauseInv, ReportHasCause, Grows
    <3> QED BY <3>1, <3>2
  <2> QED BY <2>1, <2>3 DEF CauseInv, ReportHasCause
<1>2. CASE UNCHANGED bdaVars
  <2>1. UNCHANGED <<cells, id, point, acc, todo, prev_hazard, exclusive, self_lock, verdict,
                    begun, finished>>
    BY <1>2 DEF bdaVars, accessVars, histVars
  <2>2. ASSUME NEW i \in Accessors PROVE AloneOK(i)'
    <3>1. AloneOK(i)
      BY DEF CauseInv
    <3> QED BY <2>1, <3>1 DEF AloneOK, AloneAtWork, Alone, Locked, Private, Working, WindowOf
  <2>3. ReportHasCause'
    BY <2>1 DEF CauseInv, ReportHasCause
  <2> QED BY <2>2, <2>3 DEF CauseInv
<1> QED BY <1>1, <1>2 DEF BDANext, BDAStep

\* ValidateBDALoadStore writes no cell but those of the filter, and reports
\* nothing without a cause, as long as the hash gives every window a cell of
\* its own among its cells.
THEOREM BDAFilterSound ==
  ASSUME NoFalsePositives
  PROVE  BDASpec => []FilterSound
<1>1. BDAInit => CauseInv
  BY DEF BDAInit, CauseInv, AloneOK, Working, ReportHasCause
<1>2. BDAInv /\ CauseInv /\ [BDANext]_bdaVars => CauseInv'
  BY CauseNextInv
<1>3. BDAInv /\ CauseInv => FilterSound
  BY DEF BDAInv, CauseInv, FilterSound
<1> QED BY <1>1, <1>2, <1>3, BDAInitInv, BDANextInv, PTL DEF BDASpec

=============================================================================
