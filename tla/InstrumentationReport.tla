----------------------- MODULE InstrumentationReport -----------------------
(***************************************************************************)
(* The instruction instrumentation that dxil-spirv emits into a shader     *)
(* (spirv_module_instrumentation.cpp): NanInfInstrumentation, called after *)
(* an instruction with a floating point result, and AssumeTrue, called     *)
(* with the outcome of an assertion.  Both report a bad value through      *)
(* emit_instrumentation_hash: they hash the instruction to a slot of the   *)
(* payload buffer, claim the slot with an atomic or of a bit in the lower  *)
(* half of a control word, store the payload, and publish it to the host   *)
(* with an atomic or of the corresponding bit in the upper half.           *)
(*                                                                         *)
(* Invocations run concurrently and execute instrumented instructions one  *)
(* after the other.  The store of a payload reaches memory component by    *)
(* component in any order; only the barrier before the second atomic       *)
(* orders it.  The host (external) changes the dispatch cookie.            *)
(***************************************************************************)
EXTENDS Integers, FiniteSets

CONSTANTS
  Invocations,
  Insts,           \* numbers of instrumented instructions
  Values,          \* values and assertion codes that may be reported
  Cookies,         \* dispatch cookies, also values
  Kinds,           \* a subset of AllKinds: the instrumentation of the shaders
  PayloadLen,      \* length of InstrumentationData: a power of two
  HalfWord,        \* 16: claim bits in a control word
  Hash,            \* the hash of an instruction: [Insts -> Nat]
  CookieHash,      \* the hash of an instruction and a dispatch cookie
  MaxCalls,        \* bound: instrumented instructions of an invocation
  NoPayload        \* what an unpublished slot shows

AllKinds == {"NanInf", "AssumeTrue", "AssumeTrueCode"}

ASSUME IRConstants ==
  /\ Kinds \subseteq AllKinds
  /\ PayloadLen \in Nat \ {0}
  /\ HalfWord \in Nat \ {0}
  /\ Hash \in [Insts -> Nat]
  /\ CookieHash \in [Insts \X Cookies -> Nat]
  /\ MaxCalls \in Nat

VARIABLES
  control,         \* InstrumentationControlData: the set bits of each word
  payload,         \* InstrumentationData
  dispatch_cookie, \* the second last word of the control buffer
  shader_abort,    \* info.shader_abort: an option of the translation (never changed)
  should_report,   \* private per invocation: ShouldReportInstrumentation
  pc, kind, inst, value, slot, \* per invocation: the current or last report
  pending,         \* per invocation: payload components not yet in memory
  calls,           \* per invocation: instrumented instructions executed
  claimers         \* history: who saw the claim bit of a slot clear

callVars == <<kind, inst, value, slot>>
irVars == <<control, payload, dispatch_cookie, shader_abort, should_report, pc, callVars,
          pending, calls, claimers>>

-----------------------------------------------------------------------------

Slots == 0 .. PayloadLen - 1

\* hash & (payload_size - 1); the lengths are powers of two.
SlotOf(h) == h % PayloadLen

ControlWord(s) == s \div HalfWord
ControlBit(s)  == s % HalfWord

Words == {ControlWord(s) : s \in Slots}

\* The uvec4 of a payload: its components, and what a zeroed buffer holds.
Components == {"shader_hash", "inst", "value"}
ZeroPayload == [f \in Components |-> 0]

PayloadOf(i) ==
  [f \in Components |->
     CASE f = "shader_hash" -> i
       [] f = "inst"        -> inst[i]
       [] f = "value"       -> value[i]]

\* The bit of a slot in the upper half of its control word.
PublishBit(s) == ControlBit(s) + HalfWord

Claimed(s)   == ControlBit(s) \in control[ControlWord(s)]
Published(s) == PublishBit(s) \in control[ControlWord(s)]

-----------------------------------------------------------------------------
(* AssumeTrue and NanInfInstrumentation.                                   *)

\* The value is fine, or this invocation has reported before.
ReturnEarly(i) ==
  /\ pc[i] = "run"
  /\ calls[i] < MaxCalls
  /\ calls' = [calls EXCEPT ![i] = @ + 1]
  /\ UNCHANGED <<control, payload, dispatch_cookie, should_report, pc, callVars,
                 pending, claimers, shader_abort>>

\* Whether a bad value is acted upon: an aborting AssumeTrue never loads
\* ShouldReportInstrumentation.
WillReport(i, k) == (shader_abort /\ k # "NanInf") \/ should_report[i]

\* A bad value.  With shader_abort, AssumeTrue executes OpAbortKHR instead of
\* reporting; NanInfInstrumentation always reports.  A plain AssumeTrue
\* reports the dispatch cookie, which is still to be loaded.
BadValue(i, k, n, v) ==
  /\ pc[i] = "run"
  /\ calls[i] < MaxCalls
  /\ WillReport(i, k)
  /\ calls' = [calls EXCEPT ![i] = @ + 1]
  /\ IF shader_abort /\ k # "NanInf"
       THEN /\ pc' = [pc EXCEPT ![i] = "aborted"]
            /\ UNCHANGED callVars
       ELSE /\ pc' = [pc EXCEPT ![i] = IF k = "AssumeTrue" THEN "cookie"
                                                           ELSE "claim"]
            /\ kind' = [kind EXCEPT ![i] = k]
            /\ inst' = [inst EXCEPT ![i] = n]
            /\ value' = [value EXCEPT ![i] = v]
            /\ slot' = [slot EXCEPT ![i] = SlotOf(Hash[n])]
  /\ UNCHANGED <<control, payload, dispatch_cookie, should_report, pending,
                 claimers, shader_abort>>

\* emit_instrumentation_hash without a value: the cookie is the value, and it
\* is part of the hash, so that each dispatch may report.
LoadDispatchCookie(i) ==
  /\ pc[i] = "cookie"
  /\ value' = [value EXCEPT ![i] = dispatch_cookie]
  /\ slot' = [slot EXCEPT ![i] = SlotOf(CookieHash[<<inst[i], dispatch_cookie>>])]
  /\ pc' = [pc EXCEPT ![i] = "claim"]
  /\ UNCHANGED <<control, payload, dispatch_cookie, should_report, kind, inst,
                 pending, calls, claimers, shader_abort>>

\* Mutant: whoever reaches the slot writes it.
AlwaysNeedWrite(s) == TRUE

\* atomic_need_write: the claim bit was clear.
NeedWrite(s) == ~ Claimed(s)

\* The first atomic or, the store to ShouldReportInstrumentation, the branch.
Claim(i) ==
  /\ pc[i] = "claim"
  /\ control' = [control EXCEPT ![ControlWord(slot[i])] = @ \cup {ControlBit(slot[i])}]
  /\ should_report' = [should_report EXCEPT ![i] = FALSE]
  /\ IF NeedWrite(slot[i])
       THEN /\ pc' = [pc EXCEPT ![i] = "write"]
            /\ pending' = [pending EXCEPT ![i] = Components]
            /\ claimers' = [claimers EXCEPT ![slot[i]] = @ \cup {i}]
       ELSE /\ pc' = [pc EXCEPT ![i] = "run"]
            /\ UNCHANGED <<pending, claimers>>
  /\ UNCHANGED <<payload, dispatch_cookie, callVars, calls, shader_abort>>

\* A component of the payload store reaches memory.
StoreComponent(i, f) ==
  /\ f \in pending[i]
  /\ payload' = [payload EXCEPT ![slot[i]][f] = PayloadOf(i)[f]]
  /\ pending' = [pending EXCEPT ![i] = @ \ {f}]
  /\ UNCHANGED <<control, dispatch_cookie, should_report, pc, callVars, calls,
                 claimers, shader_abort>>

\* Mutant: the barrier between the payload and the second atomic is missing.
NoBarrier(i) == TRUE

\* barrier_op: the payload is in memory.
Barrier(i) == pending[i] = {}

\* Mutant: an early return without publishing.
ReturnUnpublished(i) ==
  /\ pc[i] = "write"
  /\ Barrier(i)
  /\ pc' = [pc EXCEPT ![i] = "run"]
  /\ UNCHANGED <<control, payload, dispatch_cookie, should_report, callVars,
                 pending, calls, claimers, shader_abort>>

\* The second atomic or; barrier_op2 behind it orders nothing of this function.
PublishPayload(i) ==
  /\ pc[i] = "write"
  /\ Barrier(i)
  /\ control' = [control EXCEPT ![ControlWord(slot[i])] = @ \cup {PublishBit(slot[i])}]
  /\ pc' = [pc EXCEPT ![i] = "run"]
  /\ UNCHANGED <<payload, dispatch_cookie, should_report, callVars, pending,
                 calls, claimers, shader_abort>>

\* The host writes the cookie of the next dispatch (external).
HostNextDispatch ==
  /\ \E k \in Cookies \ {dispatch_cookie} : dispatch_cookie' = k
  /\ UNCHANGED <<control, payload, should_report, pc, callVars, pending, calls,
                 claimers, shader_abort>>

-----------------------------------------------------------------------------

IRInit ==
  /\ control = [w \in Words |-> {}]
  /\ payload = [s \in Slots |-> ZeroPayload]
  /\ dispatch_cookie \in Cookies
  /\ shader_abort \in BOOLEAN
  /\ should_report = [i \in Invocations |-> TRUE]
  /\ pc = [i \in Invocations |-> "run"]
  /\ kind = [i \in Invocations |-> "none"]
  /\ inst = [i \in Invocations |-> 0]
  /\ value = [i \in Invocations |-> 0]
  /\ slot = [i \in Invocations |-> 0]
  /\ pending = [i \in Invocations |-> {}]
  /\ calls = [i \in Invocations |-> 0]
  /\ claimers = [s \in Slots |-> {}]

ReportStep(i) ==
  \/ LoadDispatchCookie(i)
  \/ Claim(i)
  \/ \E f \in Components : StoreComponent(i, f)
  \/ PublishPayload(i)

IRNext ==
  \/ \E i \in Invocations :
       \/ ReturnEarly(i)
       \/ \E k \in Kinds, n \in Insts, v \in Values : BadValue(i, k, n, v)
       \/ ReportStep(i)
  \/ HostNextDispatch

\* Fairness: a report that has begun is straight-line code that waits for
\* nobody; the instructions of the shader itself may stop at any time.
IRSpec ==
  IRInit /\ [][IRNext]_irVars /\ \A i \in Invocations : WF_irVars(ReportStep(i))

-----------------------------------------------------------------------------
(* Properties.                                                             *)

\* The type of every variable.
IRTypeOK ==
  /\ control \in [Words -> SUBSET (0 .. 2 * HalfWord - 1)]
  /\ DOMAIN payload = Slots
  /\ dispatch_cookie \in Cookies
  /\ shader_abort \in BOOLEAN
  /\ should_report \in [Invocations -> BOOLEAN]
  /\ pc \in [Invocations -> {"run", "cookie", "claim", "write", "aborted"}]
  /\ kind \in [Invocations -> AllKinds \cup {"none"}]
  /\ inst \in [Invocations -> Insts \cup {0}]
  /\ value \in [Invocations -> Values \cup Cookies \cup {0}]
  /\ slot \in [Invocations -> Slots]
  /\ pending \in [Invocations -> SUBSET Components]
  /\ calls \in [Invocations -> 0 .. MaxCalls]
  /\ claimers \in [Slots -> SUBSET Invocations]

\* The slot an invocation's current report belongs in.
ReportSlot(i) ==
  SlotOf(IF kind[i] = "AssumeTrue" THEN CookieHash[<<inst[i], value[i]>>]
                                   ELSE Hash[inst[i]])

\* A host that sees the upper bit of a slot reads there the whole payload of
\* one invocation, whose instruction (and, for AssumeTrue, whose dispatch
\* cookie) hashes to this slot.
PublishedIsComplete ==
  \A s \in Slots : Published(s) =>
    \E i \in claimers[s] : payload[s] = PayloadOf(i) /\ ReportSlot(i) = s

\* At most one invocation writes a slot, and only a claimed slot is published.
OneWriterPerSlot ==
  \A s \in Slots :
    /\ Cardinality(claimers[s]) <= 1
    /\ Published(s) => Claimed(s)

\* ShouldReportInstrumentation: an invocation that meets many bad values
\* occupies at most one slot.
OneSlotPerInvocation ==
  \A i \in Invocations : Cardinality({s \in Slots : i \in claimers[s]}) <= 1

\* With shader_abort, a failing AssumeTrue ends its invocation only between
\* reports: it leaves no slot claimed that nobody will publish.
AbortLeavesNoHalfReport ==
  \A i \in Invocations, s \in Slots :
    pc[i] = "aborted" /\ i \in claimers[s] => Published(s)

\* What the host reads is sound: a published payload is complete and one
\* invocation's, an invocation takes one slot however many bad values it meets,
\* and an abort leaves no slot claimed that nobody publishes.
ReportsSound ==
  /\ IRTypeOK /\ PublishedIsComplete /\ OneWriterPerSlot
  /\ OneSlotPerInvocation /\ AbortLeavesNoHalfReport

\* The host's view of the buffers.
PublishedPayload ==
  [s \in Slots |-> IF Published(s) THEN payload[s] ELSE NoPayload]

CompletePayloads ==
  [Components -> Invocations \cup Insts \cup Values \cup Cookies]

Store == INSTANCE FaultSlots
           WITH Reports <- CompletePayloads, None <- NoPayload,
                slot <- PublishedPayload

\* The two atomics implement one write-once slot per payload entry.
ImplementsFaultSlots == Store!FSSpec

\* A bad value that is being reported is never lost: even when another
\* invocation owns its slot, that slot is published in the end.
BadValueIsPublished ==
  \A s \in Slots :
    (\E i \in Invocations : pc[i] = "claim" /\ slot[i] = s) ~> Published(s)

=============================================================================
