---------------------------- MODULE DescriptorQA ----------------------------
(***************************************************************************)
(* The descriptor QA code that dxil-spirv emits into a shader              *)
(* (descriptor_qa.cpp): the function descriptor_qa_check, which looks a    *)
(* heap offset up in the host's shadow of the descriptor heap, and the     *)
(* function descriptor_qa_report_fault, through which the first faulting   *)
(* call of a whole device publishes one report to the host.                *)
(*                                                                         *)
(* A member of Calls is one dynamic execution of descriptor_qa_check.      *)
(* Calls run concurrently with each other and with the host, which         *)
(* destroys resources, rewrites descriptors and submits work (external:    *)
(* the host is vkd3d-proton).  Plain loads and stores of one call are not  *)
(* ordered by the device unless a data dependency or a barrier orders      *)
(* them: a call performs its timestamp and entry loads in either order,    *)
(* and its pending stores reach memory in any order.                       *)
(***************************************************************************)
EXTENDS Integers, FiniteSets

CONSTANTS
  Calls,            \* executions of descriptor_qa_check
  AtomicRange,      \* number of values of the 32-bit fault_atomic
  HeapIndex,        \* heap_index: the host's name of the heap
  DescriptorCount,  \* descriptor_count: descriptors in the heap
  Fields,           \* the report members this instance tracks
  Offsets,          \* heap offsets that shaders may compute
  Cookies,          \* resource cookies: natural numbers
  CookiesPerWord,   \* 32: bits of a live_status_table word
  TypeBits,         \* descriptor type flags
  MaxTime,          \* bound on the host's clock of VA mappings
  NoReport          \* "no report", for the abstract slot

VARIABLES
  \* The QA buffers, shared by every call and the host.
  fault_atomic,      \* count of faults, modulo AtomicRange
  report,            \* the report fields of the global buffer
  fault_type,        \* the set of fault bits last stored in fault_type
  heap,              \* cookies_descriptor_info
  live_status_table, \* per word, the set of bits that are on
  va_map_timestamp,
  \* The host (external).
  clock,             \* counts VA mappings made so far
  dead,              \* cookies of destroyed resources
  \* Each call.
  arg,               \* its parameters
  pc,
  loaded,            \* which of its loads it has performed
  timestamp, entry, status, \* the values it loaded
  prev,              \* what its atomic increment returned
  pending,           \* its stores that have not reached memory
  dead_at_start      \* history: dead when the call began

bufferVars == <<fault_atomic, report, fault_type>>
hostVars   == <<heap, live_status_table, va_map_timestamp, clock, dead>>
loadVars   == <<loaded, timestamp, entry, status>>
vars == <<bufferVars, hostVars, loadVars, arg, pc, prev, pending, dead_at_start>>

-----------------------------------------------------------------------------
(* The layout of the buffers.                                              *)

\* DescriptorQAGlobalMembers without FaultAtomic, FaultType, VAMapTimestamp
\* and LiveStatusTable: the fields that make up a report.
ReportMembers ==
  {"FailedShaderHash", "FailedOffset", "FailedHeap", "FailedCookie",
   "FailedInstruction", "FailedDescriptorTypeMask", "ActualDescriptorTypeMask"}

ASSUME QAConstants ==
  /\ AtomicRange \in Nat \ {0}
  /\ IsFiniteSet(Calls)
  /\ Fields \subseteq ReportMembers
  /\ DescriptorCount \in Nat
  /\ Offsets \subseteq Nat
  /\ 0 \in Offsets
  /\ Cookies \subseteq Nat
  /\ 0 \in Cookies
  /\ CookiesPerWord \in Nat \ {0}
  /\ MaxTime \in Nat

FaultBits == {"IndexOutOfRange", "InvalidType", "ResourceDestroyed",
              "VATimestampInvalid"}

\* The cleared global buffer.
ZeroReport ==
  [f \in Fields |->
     IF f \in {"FailedDescriptorTypeMask", "ActualDescriptorTypeMask"}
       THEN {} ELSE 0]

Times == 0 .. MaxTime

\* One uvec3 of cookies_descriptor_info.
Entries == [cookie : Cookies, timestamp : Times, info : SUBSET TypeBits]

\* A cleared entry: cookie 0 is that of a null descriptor.
NullEntry == [cookie |-> 0, timestamp |-> 0, info |-> {}]

\* build_cookie_descriptor_info_split: the table word and the bit of a cookie.
CookieWord(k) == k \div CookiesPerWord

\* Mutant: the bit number is not masked.
UnmaskedCookieBit(k) == k

CookieBit(k) == k % CookiesPerWord

Words == {CookieWord(k) : k \in Cookies}
TableWords == [Words -> SUBSET (0 .. CookiesPerWord - 1)]

\* Parameters of a call.  The instruction number and the shader hash are
\* constants of the call site; the call's name stands for both.
Args == [offset : Offsets, mask : SUBSET TypeBits]

NoPrev == -1

-----------------------------------------------------------------------------
(* descriptor_qa_check.                                                    *)

Start(c) ==
  /\ pc[c] = "idle"
  /\ \E a \in Args : arg' = [arg EXCEPT ![c] = a]
  /\ pc' = [pc EXCEPT ![c] = "load"]
  /\ dead_at_start' = [dead_at_start EXCEPT ![c] = dead]
  /\ UNCHANGED <<bufferVars, hostVars, loadVars, prev, pending>>

LoadTimestamp(c) ==
  /\ pc[c] = "load"
  /\ "timestamp" \notin loaded[c]
  /\ loaded' = [loaded EXCEPT ![c] = @ \cup {"timestamp"}]
  /\ timestamp' = [timestamp EXCEPT ![c] = va_map_timestamp]
  /\ UNCHANGED <<bufferVars, hostVars, entry, status, arg, pc, prev, pending,
                 dead_at_start>>

\* The entry is loaded before the offset is known to be in range: past the
\* end of the array the device returns an arbitrary value.
LoadEntry(c) ==
  /\ pc[c] = "load"
  /\ "entry" \notin loaded[c]
  /\ loaded' = [loaded EXCEPT ![c] = @ \cup {"entry"}]
  /\ \E e \in Entries :
       /\ arg[c].offset < DescriptorCount => e = heap[arg[c].offset]
       /\ entry' = [entry EXCEPT ![c] = e]
  /\ UNCHANGED <<bufferVars, hostVars, timestamp, status, arg, pc, prev,
                 pending, dead_at_start>>

\* The address of this load depends on the cookie of the entry.
LoadStatus(c) ==
  /\ pc[c] = "load"
  /\ "entry" \in loaded[c]
  /\ "status" \notin loaded[c]
  /\ loaded' = [loaded EXCEPT ![c] = @ \cup {"status"}]
  /\ status' = [status EXCEPT
                  ![c] = live_status_table[CookieWord(entry[c].cookie)]]
  /\ UNCHANGED <<bufferVars, hostVars, timestamp, entry, arg, pc, prev,
                 pending, dead_at_start>>

\* Mutant: any live resource of the word will do.
LiveCheckWord(c) == status[c] # {}

\* build_live_check.
LiveCheck(c) == CookieBit(entry[c].cookie) \in status[c]

\* The four selects of descriptor_qa_check, merged by bitwise or.
FaultsOf(c) ==
  {b \in FaultBits :
     \/ b = "IndexOutOfRange"    /\ arg[c].offset >= DescriptorCount
     \/ b = "InvalidType"        /\ ~ (arg[c].mask \subseteq entry[c].info)
     \/ b = "ResourceDestroyed"  /\ ~ LiveCheck(c)
     \/ b = "VATimestampInvalid" /\ ~ (timestamp[c] >= entry[c].timestamp)}

\* A call without a fault returns its own offset, a faulting one goes on to
\* descriptor_qa_report_fault and then returns descriptor_count.
Check(c) ==
  /\ pc[c] = "load"
  /\ loaded[c] = {"timestamp", "entry", "status"}
  /\ pc' = [pc EXCEPT ![c] = IF FaultsOf(c) = {} THEN "passed" ELSE "fault"]
  /\ UNCHANGED <<bufferVars, hostVars, loadVars, arg, prev, pending,
                 dead_at_start>>

-----------------------------------------------------------------------------
(* descriptor_qa_report_fault.                                             *)

\* What the call c with parameters a that loaded the entry e stores in field f.
FieldValue(c, a, e, f) ==
  CASE f = "FailedShaderHash"         -> c
    [] f = "FailedInstruction"        -> c
    [] f = "FailedHeap"               -> HeapIndex
    [] f = "FailedOffset"             -> a.offset
    [] f = "FailedDescriptorTypeMask" -> a.mask
    [] f = "FailedCookie"             -> e.cookie
    [] f = "ActualDescriptorTypeMask" -> e.info

ReportOf(c, a, e) == [f \in Fields |-> FieldValue(c, a, e, f)]

CallReport(c) == ReportOf(c, arg[c], entry[c])


\* The counter is a 32-bit word.
NextCount(n) == (n + 1) % AtomicRange

\* Mutant: the test looks at the new value of the counter.
IsFirstFaultByNewValue(old) == old = 1

\* Mutant: every faulting call believes it is the first.
EveryFaultReports(old) == TRUE

\* The comparison of the counter's old value: the first fault writes the report.
IsFirstFault(old) == old = 0

\* OpAtomicIAdd on fault_atomic, and the branch on its result.
IncrementFaultAtomic(c) ==
  /\ pc[c] = "fault"
  /\ prev' = [prev EXCEPT ![c] = fault_atomic]
  /\ fault_atomic' = NextCount(fault_atomic)
  /\ IF IsFirstFault(fault_atomic)
       THEN /\ pc' = [pc EXCEPT ![c] = "report"]
            /\ pending' = [pending EXCEPT ![c] = Fields]
       ELSE /\ pc' = [pc EXCEPT ![c] = "fallback"]
            /\ UNCHANGED pending
  /\ UNCHANGED <<report, fault_type, hostVars, loadVars, arg, dead_at_start>>

\* One of the stores of build_ssbo_store becomes visible.
StoreField(c, f) ==
  /\ f \in pending[c]
  /\ report' = [report EXCEPT ![f] = CallReport(c)[f]]
  /\ pending' = [pending EXCEPT ![c] = @ \ {f}]
  /\ UNCHANGED <<fault_atomic, fault_type, hostVars, loadVars, arg, pc, prev,
                 dead_at_start>>

\* Mutant: the barrier before the store to fault_type is missing.
NoBarrier(c) == TRUE

\* build_ssbo_barrier: the earlier stores of the call are visible.
Barrier(c) == pending[c] = {}

\* The store to fault_type, behind the barrier.
StoreFaultType(c) ==
  /\ pc[c] = "report"
  /\ Barrier(c)
  /\ fault_type' = FaultsOf(c)
  /\ pc' = [pc EXCEPT ![c] = "fallback"]
  /\ UNCHANGED <<fault_atomic, report, hostVars, loadVars, arg, prev, pending,
                 dead_at_start>>

\* The heap index a finished call uses.
Returned(c) == IF pc[c] = "passed" THEN arg[c].offset ELSE DescriptorCount

-----------------------------------------------------------------------------
(* The host (external).                                                    *)

HostMapVA ==
  /\ clock < MaxTime
  /\ clock' = clock + 1
  /\ UNCHANGED <<bufferVars, heap, live_status_table, va_map_timestamp, dead,
                 loadVars, arg, pc, prev, pending, dead_at_start>>

HostSubmit ==
  /\ va_map_timestamp # clock
  /\ va_map_timestamp' = clock
  /\ UNCHANGED <<bufferVars, heap, live_status_table, clock, dead, loadVars,
                 arg, pc, prev, pending, dead_at_start>>

HostDestroy(k) ==
  /\ k \notin dead
  /\ dead' = dead \cup {k}
  /\ live_status_table' =
       [live_status_table EXCEPT ![CookieWord(k)] = @ \ {CookieBit(k)}]
  /\ UNCHANGED <<bufferVars, heap, va_map_timestamp, clock, loadVars, arg, pc,
                 prev, pending, dead_at_start>>

HostWriteDescriptor(o, k, info) ==
  /\ k \notin dead
  /\ heap' = [heap EXCEPT
                ![o] = [cookie |-> k, timestamp |-> clock, info |-> info]]
  /\ UNCHANGED <<bufferVars, live_status_table, va_map_timestamp, clock, dead,
                 loadVars, arg, pc, prev, pending, dead_at_start>>

-----------------------------------------------------------------------------

QAInit ==
  /\ fault_atomic = 0
  /\ report = ZeroReport
  /\ fault_type = {}
  /\ heap = [o \in 0 .. DescriptorCount - 1 |-> NullEntry]
  /\ live_status_table =
       [w \in Words |-> {CookieBit(k) : k \in {j \in Cookies : CookieWord(j) = w}}]
  /\ va_map_timestamp = 0
  /\ clock = 0
  /\ dead = {}
  /\ arg = [c \in Calls |-> [offset |-> 0, mask |-> {}]]
  /\ pc = [c \in Calls |-> "idle"]
  /\ loaded = [c \in Calls |-> {}]
  /\ timestamp = [c \in Calls |-> 0]
  /\ entry = [c \in Calls |-> NullEntry]
  /\ status = [c \in Calls |-> {}]
  /\ prev = [c \in Calls |-> NoPrev]
  /\ pending = [c \in Calls |-> {}]
  /\ dead_at_start = [c \in Calls |-> {}]

CallStep(c) ==
  \/ Start(c)
  \/ LoadTimestamp(c)
  \/ LoadEntry(c)
  \/ LoadStatus(c)
  \/ Check(c)
  \/ IncrementFaultAtomic(c)
  \/ \E f \in Fields : StoreField(c, f)
  \/ StoreFaultType(c)

HostStep ==
  \/ HostMapVA
  \/ HostSubmit
  \/ \E k \in Cookies : HostDestroy(k)
  \/ \E o \in 0 .. DescriptorCount - 1, k \in Cookies, info \in SUBSET TypeBits :
       HostWriteDescriptor(o, k, info)

QANext == (\E c \in Calls : CallStep(c)) \/ HostStep

\* Fairness: both functions are straight-line code with one forward branch
\* each and wait for nobody, so an invocation that runs at all finishes them.
QASpec == QAInit /\ [][QANext]_vars /\ \A c \in Calls : WF_vars(CallStep(c))

-----------------------------------------------------------------------------
(* Properties.                                                             *)

PCs == {"idle", "load", "passed", "fault", "report", "fallback"}

\* The report members have values of different kinds.
IsReport(r) == r = [f \in Fields |-> r[f]]

\* The type of every variable.
QATypeOK ==
  /\ fault_atomic \in 0 .. AtomicRange - 1
  /\ IsReport(report)
  /\ fault_type \in SUBSET FaultBits
  /\ heap \in [0 .. DescriptorCount - 1 -> Entries]
  /\ live_status_table \in TableWords
  /\ va_map_timestamp \in Times
  /\ clock \in Times
  /\ dead \in SUBSET Cookies
  /\ arg \in [Calls -> Args]
  /\ pc \in [Calls -> PCs]
  /\ loaded \in [Calls -> SUBSET {"timestamp", "entry", "status"}]
  /\ timestamp \in [Calls -> Times]
  /\ entry \in [Calls -> Entries]
  /\ status \in [Calls -> SUBSET (0 .. CookiesPerWord - 1)]
  /\ prev \in [Calls -> {NoPrev} \cup (0 .. AtomicRange - 1)]
  /\ pending \in [Calls -> SUBSET Fields]
  /\ dead_at_start \in [Calls -> SUBSET Cookies]

\* What the comment above build_ssbo_barrier promises: a host that observes
\* fault_type # 0 reads, in all the other fields, the report of one faulting
\* call, never a mixture of two calls or a field not stored yet.
ReportConsistent ==
  fault_type # {} =>
    \E c \in Calls : /\ pc[c] = "fallback"
                     /\ report = CallReport(c)
                     /\ fault_type = FaultsOf(c)

\* At most one call ever owns the report buffer: two calls that both saw the
\* counter at 0 would interleave their stores.
SingleReporter ==
  \A c, d \in Calls :
    prev[c] = 0 /\ prev[d] = 0 => c = d

\* A descriptor offset that descriptor_qa_check returns unchanged was in range,
\* had every type bit the instruction asks for, belonged to a resource that was
\* alive when the call began, and was written no later than the newest VA
\* mapping the host had submitted.
PassedCallIsValid ==
  \A c \in Calls : pc[c] = "passed" =>
    /\ arg[c].offset < DescriptorCount
    /\ arg[c].mask \subseteq entry[c].info
    /\ entry[c].cookie \notin dead_at_start[c]
    /\ entry[c].timestamp <= va_map_timestamp

\* Once published, a report stays: a later fault never touches a field again.
ReportImmutable ==
  [][fault_type # {} => UNCHANGED <<report, fault_type>>]_vars

\* The report buffer is one write-once slot: the host's view of it.
PublishedReport ==
  [s \in {"QAGlobalData"} |->
     IF fault_type = {} THEN NoReport
                        ELSE [fields |-> report, faults |-> fault_type]]

CompleteReports ==
  {[fields |-> ReportOf(c, a, e), faults |-> b] :
     c \in Calls, a \in Args, e \in Entries, b \in (SUBSET FaultBits) \ {{}}}

Slot == INSTANCE FaultSlots
          WITH Slots <- {"QAGlobalData"}, Reports <- CompleteReports,
               None <- NoReport, slot <- PublishedReport

\* The emitted code implements the write-once slot.
ImplementsFaultSlot == Slot!FSSpec

\* A fault is never swallowed: once some call has faulted, a report appears.
FaultIsReported ==
  (\E c \in Calls : pc[c] = "fault") ~> (fault_type # {})

=============================================================================
