-------------------- MODULE InstrumentationReport_proofs --------------------
(***************************************************************************)
(* Proofs about InstrumentationReport for any number of invocations, any   *)
(* hash and buffers of any length.                                         *)
(*                                                                         *)
(* The argument: a slot's claim bit is set exactly when one invocation has *)
(* seen it clear (ClaimInv).  That invocation has spent its permission to  *)
(* report, so the instruction and the value it reports no longer change    *)
(* (ReportInv); the slot's payload agrees with them on every component     *)
(* that is no longer pending (PayloadInv), and the slot is published       *)
(* exactly when its claimer has left the write, that is when none is.      *)
(***************************************************************************)
EXTENDS InstrumentationReport, FiniteSetTheorems, TLAPS

\* What an invocation has loaded for its current or last report.
ReportOK(i) ==
  /\ pc[i] \in {"cookie", "claim"} => should_report[i] /\ kind[i] # "none"
  /\ pc[i] = "cookie" => kind[i] = "AssumeTrue"
  /\ pc[i] # "write" => pending[i] = {}
  /\ kind[i] # "none" => inst[i] \in Insts /\ value[i] \in Values \cup Cookies
  /\ kind[i] # "none" /\ pc[i] # "cookie" => slot[i] = ReportSlot(i)

ReportInv == \A i \in Invocations : ReportOK(i)

\* Claim bits, publish bits and claimers.
ClaimInv ==
  /\ \A s \in Slots : Claimed(s) <=> claimers[s] # {}
  /\ \A s \in Slots : \A i, j \in claimers[s] : i = j
  /\ \A s \in Slots : \A i \in claimers[s] :
       /\ slot[i] = s /\ kind[i] # "none" /\ ~ should_report[i]
       /\ Published(s) <=> pc[i] # "write"
  /\ \A s \in Slots : Published(s) => claimers[s] # {}
  /\ \A i \in Invocations : pc[i] = "write" => i \in claimers[slot[i]]

\* A slot holds its claimer's payload but for the pending components.
PayloadInv ==
  \A s \in Slots :
    /\ payload[s] = [f \in Components |-> payload[s][f]]
    /\ \A i \in claimers[s] : \A f \in Components \ pending[i] :
         payload[s][f] = PayloadOf(i)[f]

IRInv == IRTypeOK /\ ReportInv /\ ClaimInv /\ PayloadInv

-----------------------------------------------------------------------------
(* The layout of the buffers.                                              *)

\* A dividend is determined by its quotient and its remainder.
LEMMA DivMod ==
  ASSUME NEW s \in Nat, NEW t \in Nat, NEW h \in Nat \ {0},
         s \div h = t \div h, s % h = t % h
  PROVE  s = t
<1>1. s = h * (s \div h) + (s % h)
  OBVIOUS
<1>2. t = h * (t \div h) + (t % h)
  OBVIOUS
<1> QED BY <1>1, <1>2

LEMMA SlotRange == \A h \in Nat : SlotOf(h) \in Slots
BY IRConstants DEF IRConstants, SlotOf, Slots

\* The control word and the bits of a slot exist, and no two slots share a
\* bit, be it for claiming or for publishing.
LEMMA ControlBits ==
  /\ \A s \in Slots : ControlWord(s) \in Words
  /\ \A s \in Slots : ControlBit(s) \in 0 .. HalfWord - 1
  /\ \A s \in Slots : PublishBit(s) \in HalfWord .. 2 * HalfWord - 1
  /\ \A s, t \in Slots : ControlBit(s) # PublishBit(t)
  /\ \A s, t \in Slots :
       ControlWord(s) = ControlWord(t) /\ ControlBit(s) = ControlBit(t) => s = t
  /\ \A s, t \in Slots :
       ControlWord(s) = ControlWord(t) /\ PublishBit(s) = PublishBit(t) => s = t
<1>1. \A s \in Slots : s \in Nat
  BY IRConstants DEF IRConstants, Slots
<1>2. \A s \in Slots : ControlBit(s) \in 0 .. HalfWord - 1
  BY <1>1, IRConstants DEF IRConstants, ControlBit
<1>3. \A s \in Slots : PublishBit(s) \in HalfWord .. 2 * HalfWord - 1
  BY <1>2, IRConstants DEF IRConstants, PublishBit
<1>4. ASSUME NEW s \in Slots, NEW t \in Slots,
             ControlWord(s) = ControlWord(t), ControlBit(s) = ControlBit(t)
      PROVE  s = t
  BY <1>1, <1>4, DivMod, IRConstants DEF IRConstants, ControlWord, ControlBit
<1>5. \A s, t \in Slots : PublishBit(s) = PublishBit(t) => ControlBit(s) = ControlBit(t)
  BY <1>2, IRConstants DEF IRConstants, PublishBit
<1>6. \A s, t \in Slots : ControlBit(s) # PublishBit(t)
  BY <1>2, <1>3, IRConstants DEF IRConstants
<1> QED BY <1>2, <1>3, <1>4, <1>5, <1>6 DEF Words

-----------------------------------------------------------------------------
(* Type correctness.                                                       *)

LEMMA IRTypeInit == IRInit => IRTypeOK
<1>1. 0 \in Slots /\ 0 \in 0 .. MaxCalls
  BY IRConstants DEF IRConstants, Slots
<1> QED BY <1>1 DEF IRInit, IRTypeOK

\* A step that reads inst only when a report has begun keeps the types.
LEMMA IRTypeStep == IRTypeOK /\ ReportInv /\ [IRNext]_irVars => IRTypeOK'
<1> SUFFICES ASSUME IRTypeOK, ReportInv, [IRNext]_irVars PROVE IRTypeOK'
  OBVIOUS
<1> USE DEF IRTypeOK
<1>a. \A n \in 0 .. MaxCalls : n < MaxCalls => n + 1 \in 0 .. MaxCalls
  BY IRConstants DEF IRConstants
<1>1. ASSUME NEW i \in Invocations, ReturnEarly(i) PROVE IRTypeOK'
  BY <1>1, <1>a DEF ReturnEarly, callVars
<1>2. ASSUME NEW i \in Invocations, NEW k \in Kinds, NEW n \in Insts,
             NEW v \in Values, BadValue(i, k, n, v)
      PROVE  IRTypeOK'
  <2>1. SlotOf(Hash[n]) \in Slots /\ k \in AllKinds
    BY IRConstants, SlotRange DEF IRConstants
  <2>2. /\ pc' \in [Invocations -> {"run", "cookie", "claim", "write", "aborted"}]
        /\ kind' \in [Invocations -> AllKinds \cup {"none"}]
        /\ inst' \in [Invocations -> Insts \cup {0}]
        /\ value' \in [Invocations -> Values \cup Cookies \cup {0}]
        /\ slot' \in [Invocations -> Slots]
    BY <1>2, <2>1 DEF BadValue, callVars
  <2> QED BY <1>2, <1>a, <2>2 DEF BadValue
<1>3. ASSUME NEW i \in Invocations, LoadDispatchCookie(i) PROVE IRTypeOK'
  <2>1. inst[i] \in Insts
    BY <1>3 DEF LoadDispatchCookie, ReportInv, ReportOK
  <2>2. SlotOf(CookieHash[<<inst[i], dispatch_cookie>>]) \in Slots
    BY <2>1, IRConstants, SlotRange DEF IRConstants
  <2> QED BY <1>3, <2>2 DEF LoadDispatchCookie
<1>4. ASSUME NEW i \in Invocations, Claim(i) PROVE IRTypeOK'
  <2>1. control' \in [Words -> SUBSET (0 .. 2 * HalfWord - 1)]
    BY <1>4, ControlBits, IRConstants DEF Claim, IRConstants
  <2>2. claimers' \in [Slots -> SUBSET Invocations]
    BY <1>4 DEF Claim
  <2>3. pc' \in [Invocations -> {"run", "cookie", "claim", "write", "aborted"}]
    BY <1>4 DEF Claim
  <2>4. pending' \in [Invocations -> SUBSET Components]
    BY <1>4 DEF Claim
  <2> QED BY <1>4, <2>1, <2>2, <2>3, <2>4 DEF Claim, callVars
<1>5. ASSUME NEW i \in Invocations, NEW f \in Components, StoreComponent(i, f)
      PROVE  IRTypeOK'
  BY <1>5 DEF StoreComponent, callVars
<1>6. ASSUME NEW i \in Invocations, PublishPayload(i) PROVE IRTypeOK'
  <2>1. control' \in [Words -> SUBSET (0 .. 2 * HalfWord - 1)]
    BY <1>6, ControlBits, IRConstants DEF PublishPayload, IRConstants
  <2> QED BY <1>6, <2>1 DEF PublishPayload, callVars
<1>7. CASE HostNextDispatch
  BY <1>7 DEF HostNextDispatch, callVars
<1>8. CASE UNCHANGED irVars
  BY <1>8 DEF irVars, callVars
<1> QED
  BY <1>1, <1>2, <1>3, <1>4, <1>5, <1>6, <1>7, <1>8 DEF IRNext, ReportStep

-----------------------------------------------------------------------------
(* The reports of the invocations.                                         *)

LEMMA ReportInit == IRInit => ReportInv
BY DEF IRInit, ReportInv, ReportOK

LEMMA ReportInvStep ==
  ASSUME IRTypeOK, ReportInv, [IRNext]_irVars
  PROVE  ReportInv'
<1> USE DEF IRTypeOK, ReportInv, ReportOK, ReportSlot
<1>1. ASSUME NEW i \in Invocations, ReturnEarly(i) PROVE ReportInv'
  BY <1>1 DEF ReturnEarly, callVars
<1>2. ASSUME NEW i \in Invocations, NEW k \in Kinds, NEW n \in Insts,
             NEW v \in Values, BadValue(i, k, n, v)
      PROVE  ReportInv'
  <2>1. k # "none"
    BY IRConstants DEF IRConstants, AllKinds
  <2>2. CASE shader_abort /\ k # "NanInf"
    BY <1>2, <2>2 DEF BadValue, callVars
  <2>3. CASE ~ (shader_abort /\ k # "NanInf")
    <3>1. /\ pc'[i] = IF k = "AssumeTrue" THEN "cookie" ELSE "claim"
          /\ kind'[i] = k /\ inst'[i] = n /\ value'[i] = v
          /\ slot'[i] = SlotOf(Hash[n])
          /\ UNCHANGED <<should_report, pending>>
          /\ should_report[i] /\ pc[i] = "run"
      BY <1>2, <2>3 DEF BadValue, WillReport
    <3>2. \A j \in Invocations \ {i} :
            /\ pc'[j] = pc[j] /\ kind'[j] = kind[j] /\ inst'[j] = inst[j]
            /\ value'[j] = value[j] /\ slot'[j] = slot[j]
      BY <1>2, <2>3 DEF BadValue
    <3>3. ReportOK(i)'
      BY <2>1, <3>1
    <3>4. ASSUME NEW j \in Invocations \ {i} PROVE ReportOK(j)'
      BY <3>1, <3>2
    <3> QED BY <3>3, <3>4
  <2> QED BY <2>2, <2>3
<1>3. ASSUME NEW i \in Invocations, LoadDispatchCookie(i) PROVE ReportInv'
  <2>1. /\ pc[i] = "cookie" /\ pc'[i] = "claim" /\ kind[i] = "AssumeTrue"
        /\ value'[i] = dispatch_cookie
        /\ slot'[i] = SlotOf(CookieHash[<<inst[i], value'[i]>>])
        /\ UNCHANGED <<should_report, pending, kind, inst>>
    BY <1>3 DEF LoadDispatchCookie
  <2>2. \A j \in Invocations \ {i} :
          pc'[j] = pc[j] /\ value'[j] = value[j] /\ slot'[j] = slot[j]
    BY <1>3 DEF LoadDispatchCookie
  <2>3. ReportOK(i)'
    BY <2>1
  <2>4. ASSUME NEW j \in Invocations \ {i} PROVE ReportOK(j)'
    BY <2>1, <2>2
  <2> QED BY <2>3, <2>4
<1>4. ASSUME NEW i \in Invocations, Claim(i) PROVE ReportInv'
  <2>1. /\ pc[i] = "claim" /\ pc'[i] \in {"write", "run"}
        /\ pc'[i] = "run" => pending'[i] = pending[i]
        /\ UNCHANGED <<kind, inst, value, slot>>
    BY <1>4 DEF Claim, callVars
  <2>2. \A j \in Invocations \ {i} :
          /\ pc'[j] = pc[j] /\ pending'[j] = pending[j]
          /\ should_report'[j] = should_report[j]
    BY <1>4 DEF Claim
  <2> QED BY <2>1, <2>2
<1>5. ASSUME NEW i \in Invocations, NEW f \in Components, StoreComponent(i, f)
      PROVE  ReportInv'
  BY <1>5 DEF StoreComponent, callVars
<1>6. ASSUME NEW i \in Invocations, PublishPayload(i) PROVE ReportInv'
  BY <1>6 DEF PublishPayload, Barrier, callVars
<1>7. CASE HostNextDispatch
  BY <1>7 DEF HostNextDispatch, callVars
<1>8. CASE UNCHANGED irVars
  BY <1>8 DEF irVars, callVars
<1> QED
  BY <1>1, <1>2, <1>3, <1>4, <1>5, <1>6, <1>7, <1>8 DEF IRNext, ReportStep

-----------------------------------------------------------------------------
(* Claims.                                                                 *)

LEMMA ClaimInit == IRInit => ClaimInv
<1> SUFFICES ASSUME IRInit PROVE ClaimInv
  OBVIOUS
<1>1. \A s \in Slots : control[ControlWord(s)] = {}
  BY ControlBits DEF IRInit
<1> QED BY <1>1 DEF IRInit, ClaimInv, Claimed, Published

\* What the two atomics do to the bits of every slot: the first claims its
\* slot, the second publishes it, and neither touches another slot's bits.
LEMMA ClaimBits ==
  ASSUME IRTypeOK, NEW i \in Invocations, Claim(i)
  PROVE  \A s \in Slots : /\ Claimed(s)' <=> Claimed(s) \/ s = slot[i]
                          /\ Published(s)' <=> Published(s)
BY ControlBits DEF IRTypeOK, Claim, Claimed, Published

LEMMA PublishBits ==
  ASSUME IRTypeOK, NEW i \in Invocations, PublishPayload(i)
  PROVE  \A s \in Slots : /\ Claimed(s)' <=> Claimed(s)
                          /\ Published(s)' <=> Published(s) \/ s = slot[i]
BY ControlBits DEF IRTypeOK, PublishPayload, Claimed, Published

\* A step that leaves the control words alone leaves the bits alone.
LEMMA SameBits ==
  ASSUME UNCHANGED control
  PROVE  \A s \in Slots : (Claimed(s)' <=> Claimed(s)) /\ (Published(s)' <=> Published(s))
BY DEF Claimed, Published

LEMMA ClaimInvStep ==
  ASSUME IRTypeOK, ReportInv, ClaimInv, [IRNext]_irVars
  PROVE  ClaimInv'
<1> USE DEF IRTypeOK, ClaimInv
<1>1. ASSUME NEW i \in Invocations, ReturnEarly(i) PROVE ClaimInv'
  BY <1>1, SameBits DEF ReturnEarly, callVars
<1>2. ASSUME NEW i \in Invocations, NEW k \in Kinds, NEW n \in Insts,
             NEW v \in Values, BadValue(i, k, n, v)
      PROVE  ClaimInv'
  <2>1. UNCHANGED control
    BY <1>2 DEF BadValue
  <2>2. CASE shader_abort /\ k # "NanInf"
    BY <1>2, <2>1, <2>2, SameBits DEF BadValue, callVars
  <2>3. CASE ~ (shader_abort /\ k # "NanInf")
    BY <1>2, <2>1, <2>3, SameBits DEF BadValue, WillReport
  <2> QED BY <2>2, <2>3
<1>3. ASSUME NEW i \in Invocations, LoadDispatchCookie(i) PROVE ClaimInv'
  BY <1>3, SameBits DEF LoadDispatchCookie, ReportInv, ReportOK
<1>4. ASSUME NEW i \in Invocations, Claim(i) PROVE ClaimInv'
  <2>1. /\ pc[i] = "claim" /\ should_report[i] /\ kind[i] # "none"
        /\ ~ should_report'[i]
        /\ UNCHANGED <<kind, slot>>
    BY <1>4 DEF Claim, callVars, ReportInv, ReportOK
  <2>2. \A j \in Invocations \ {i} :
          pc'[j] = pc[j] /\ should_report'[j] = should_report[j]
    BY <1>4 DEF Claim
  <2>3. \A s \in Slots : i \notin claimers[s]
    BY <2>1
  <2>4. CASE NeedWrite(slot[i])
    <3>1. pc'[i] = "write" /\ claimers[slot[i]] = {} /\ ~ Published(slot[i])
      BY <1>4, <2>4 DEF Claim, NeedWrite
    <3>2. claimers'[slot[i]] = {i}
      BY <1>4, <2>4, <3>1 DEF Claim
    <3>3. \A s \in Slots \ {slot[i]} : claimers'[s] = claimers[s]
      BY <1>4, <2>4 DEF Claim
    <3>4. ASSUME NEW s \in Slots PROVE Claimed(s)' <=> claimers'[s] # {}
      BY <1>4, <3>2, <3>3, ClaimBits
    <3>5. ASSUME NEW s \in Slots, NEW j \in claimers'[s]
          PROVE  /\ slot'[j] = s /\ kind'[j] # "none" /\ ~ should_report'[j]
                 /\ Published(s)' <=> pc'[j] # "write"
      <4>1. CASE s = slot[i]
        BY <1>4, <2>1, <3>1, <3>2, <4>1, ClaimBits
      <4>2. CASE s # slot[i]
        BY <1>4, <2>1, <2>2, <2>3, <3>3, <4>2, ClaimBits
      <4> QED BY <4>1, <4>2
    <3>6. ASSUME NEW s \in Slots, Published(s)' PROVE claimers'[s] # {}
      BY <1>4, <3>2, <3>3, <3>6, ClaimBits
    <3>7. ASSUME NEW j \in Invocations, pc'[j] = "write"
          PROVE  j \in claimers'[slot'[j]]
      <4>1. CASE j = i
        BY <2>1, <3>2, <4>1
      <4>2. CASE j # i
        BY <2>1, <2>2, <3>1, <3>3, <3>7, <4>2
      <4> QED BY <4>1, <4>2
    <3>8. \A s \in Slots : \A j, k \in claimers'[s] : j = k
      BY <3>2, <3>3
    <3> QED BY <3>4, <3>5, <3>6, <3>7, <3>8
  <2>5. CASE ~ NeedWrite(slot[i])
    <3>1. pc'[i] = "run" /\ claimers' = claimers /\ claimers[slot[i]] # {}
      BY <1>4, <2>5 DEF Claim, NeedWrite
    <3>2. \A s \in Slots : Claimed(s)' <=> claimers'[s] # {}
      BY <1>4, <3>1, ClaimBits
    <3>3. \A s \in Slots : Published(s)' <=> Published(s)
      BY <1>4, ClaimBits
    <3>4. ASSUME NEW s \in Slots, NEW j \in claimers'[s]
          PROVE  /\ slot'[j] = s /\ kind'[j] # "none" /\ ~ should_report'[j]
                 /\ Published(s)' <=> pc'[j] # "write"
      BY <2>1, <2>2, <2>3, <3>1, <3>3
    <3> QED BY <2>1, <2>2, <3>1, <3>2, <3>3, <3>4
  <2> QED BY <2>4, <2>5
<1>5. ASSUME NEW i \in Invocations, NEW f \in Components, StoreComponent(i, f)
      PROVE  ClaimInv'
  BY <1>5, SameBits DEF StoreComponent, callVars
<1>6. ASSUME NEW i \in Invocations, PublishPayload(i) PROVE ClaimInv'
  <2>1. /\ pc[i] = "write" /\ pc'[i] = "run" /\ i \in claimers[slot[i]]
        /\ UNCHANGED <<kind, slot, should_report, claimers>>
    BY <1>6 DEF PublishPayload, callVars
  <2>2. \A j \in Invocations \ {i} : pc'[j] = pc[j]
    BY <1>6 DEF PublishPayload
  <2>3. \A s \in Slots : /\ Claimed(s)' <=> Claimed(s)
                         /\ Published(s)' <=> Published(s) \/ s = slot[i]
    BY <1>6, PublishBits
  <2>4. ASSUME NEW s \in Slots, NEW j \in claimers[s]
        PROVE  Published(s)' <=> pc'[j] # "write"
    <3>1. CASE j = i
      BY <2>1, <2>3, <3>1
    <3>2. CASE j # i
      BY <2>1, <2>2, <2>3, <3>2
    <3> QED BY <3>1, <3>2
  <2> QED BY <2>1, <2>2, <2>3, <2>4
<1>7. CASE HostNextDispatch
  BY <1>7, SameBits DEF HostNextDispatch, callVars
<1>8. CASE UNCHANGED irVars
  BY <1>8, SameBits DEF irVars, callVars
<1> QED
  BY <1>1, <1>2, <1>3, <1>4, <1>5, <1>6, <1>7, <1>8 DEF IRNext, ReportStep

-----------------------------------------------------------------------------
(* Payloads.                                                               *)

\* The payload of a report is what its invocation has loaded.
LEMMA PayloadFrame ==
  ASSUME NEW j, inst'[j] = inst[j], value'[j] = value[j]
  PROVE  PayloadOf(j)' = PayloadOf(j)
BY DEF PayloadOf

LEMMA PayloadInit == IRInit => PayloadInv
<1> SUFFICES ASSUME IRInit PROVE PayloadInv
  OBVIOUS
<1>1. \A s \in Slots : claimers[s] = {} /\ payload[s] = ZeroPayload
  BY DEF IRInit
<1> QED BY <1>1 DEF PayloadInv, ZeroPayload

\* Only StoreComponent writes a payload: every other step leaves what the
\* claimers of before still claim, and the claimer it adds has all its
\* components pending.
LEMMA PayloadKept ==
  ASSUME PayloadInv, UNCHANGED payload,
         \A s \in Slots : \A j \in claimers'[s] :
           \/ /\ j \in claimers[s] /\ pending'[j] = pending[j]
              /\ inst'[j] = inst[j] /\ value'[j] = value[j]
           \/ pending'[j] = Components
  PROVE  PayloadInv'
<1> SUFFICES ASSUME NEW s \in Slots, NEW j \in claimers'[s],
                    NEW f \in Components \ pending'[j]
             PROVE  payload'[s][f] = PayloadOf(j)'[f]
  BY DEF PayloadInv
<1>1. j \in claimers[s] /\ pending'[j] = pending[j] /\ PayloadOf(j)' = PayloadOf(j)
  BY PayloadFrame
<1>2. payload[s][f] = PayloadOf(j)[f]
  BY <1>1, ZenonT(30) DEF PayloadInv
<1> QED BY <1>1, <1>2

LEMMA PayloadInvStep ==
  ASSUME IRTypeOK, ReportInv, ClaimInv, PayloadInv, [IRNext]_irVars
  PROVE  PayloadInv'
<1> USE DEF IRTypeOK
<1>a. \A s \in Slots : \A j \in claimers[s] : j \in Invocations /\ ~ should_report[j]
  BY DEF ClaimInv
<1>1. ASSUME NEW i \in Invocations, ReturnEarly(i) PROVE PayloadInv'
  BY <1>1, PayloadKept DEF ReturnEarly, callVars
<1>2. ASSUME NEW i \in Invocations, NEW k \in Kinds, NEW n \in Insts,
             NEW v \in Values, BadValue(i, k, n, v)
      PROVE  PayloadInv'
  <2>1. UNCHANGED <<payload, pending, claimers>>
    BY <1>2 DEF BadValue
  <2>2. \A j \in Invocations : ~ should_report[j] =>
          inst'[j] = inst[j] /\ value'[j] = value[j]
    BY <1>2 DEF BadValue, WillReport, callVars
  <2> QED BY <1>a, <2>1, <2>2, PayloadKept
<1>3. ASSUME NEW i \in Invocations, LoadDispatchCookie(i) PROVE PayloadInv'
  <2>1. UNCHANGED <<payload, pending, claimers, inst>> /\ should_report[i]
    BY <1>3 DEF LoadDispatchCookie, ReportInv, ReportOK
  <2>2. \A j \in Invocations : j # i => value'[j] = value[j]
    BY <1>3 DEF LoadDispatchCookie
  <2> QED BY <1>a, <2>1, <2>2, PayloadKept
<1>4. ASSUME NEW i \in Invocations, Claim(i) PROVE PayloadInv'
  <2>1. UNCHANGED <<payload, inst, value>> /\ should_report[i]
    BY <1>4 DEF Claim, callVars, ReportInv, ReportOK
  <2>2. \A j \in Invocations : j # i => pending'[j] = pending[j]
    BY <1>4 DEF Claim
  <2>3. \A s \in Slots : \A j \in claimers'[s] :
          j \in claimers[s] \/ (j = i /\ pending'[j] = Components)
    BY <1>4 DEF Claim
  <2> QED BY <1>a, <2>1, <2>2, <2>3, PayloadKept
<1>5. ASSUME NEW i \in Invocations, NEW f \in Components, StoreComponent(i, f)
      PROVE  PayloadInv'
  <2>1. /\ pc[i] = "write" /\ i \in claimers[slot[i]] /\ slot[i] \in Slots
        /\ UNCHANGED <<inst, value, claimers>>
    BY <1>5 DEF StoreComponent, callVars, ReportInv, ReportOK, ClaimInv
  <2>2. /\ pending'[i] = pending[i] \ {f}
        /\ \A j \in Invocations : j # i => pending'[j] = pending[j]
    BY <1>5 DEF StoreComponent
  <2>3. /\ payload' = [payload EXCEPT ![slot[i]][f] = PayloadOf(i)[f]]
        /\ \A s \in Slots : payload[s] = [g \in Components |-> payload[s][g]]
    BY <1>5 DEF StoreComponent, PayloadInv
  <2>4. \A s \in Slots : payload'[s] = [g \in Components |-> payload'[s][g]]
    BY <2>3
  <2>5. /\ payload'[slot[i]][f] = PayloadOf(i)[f]
        /\ \A g \in Components : g # f => payload'[slot[i]][g] = payload[slot[i]][g]
        /\ \A s \in Slots : s # slot[i] => payload'[s] = payload[s]
    BY <2>1, <2>3
  <2>6. ASSUME NEW s \in Slots, NEW j \in claimers'[s], NEW g \in Components \ pending'[j]
        PROVE  payload'[s][g] = PayloadOf(j)'[g]
    <3>1. j \in claimers[s] /\ PayloadOf(j)' = PayloadOf(j) /\ slot[j] = s
      BY <2>1, PayloadFrame DEF ClaimInv
    <3>2. CASE s = slot[i]
      <4>1. j = i
        BY <2>1, <3>1, <3>2 DEF ClaimInv
      <4> QED BY <2>1, <2>2, <2>5, <3>1, <3>2, <4>1, SMTT(30) DEF PayloadInv
    <3>3. CASE s # slot[i]
      <4>1. j # i /\ payload'[s] = payload[s] /\ pending'[j] = pending[j]
        BY <2>2, <2>5, <3>1, <3>3
      <4>2. payload[s][g] = PayloadOf(j)[g]
        BY <3>1, <4>1 DEF PayloadInv
      <4> QED BY <3>1, <4>1, <4>2
    <3> QED BY <3>2, <3>3
  <2> QED BY <2>4, <2>6 DEF PayloadInv
<1>6. ASSUME NEW i \in Invocations, PublishPayload(i) PROVE PayloadInv'
  BY <1>6, PayloadKept DEF PublishPayload, callVars
<1>7. CASE HostNextDispatch
  BY <1>7, PayloadKept DEF HostNextDispatch, callVars
<1>8. CASE UNCHANGED irVars
  BY <1>8, PayloadKept DEF irVars, callVars
<1> QED
  BY <1>1, <1>2, <1>3, <1>4, <1>5, <1>6, <1>7, <1>8 DEF IRNext, ReportStep

-----------------------------------------------------------------------------
(* The theorems.                                                           *)

LEMMA IRInvInit == IRInit => IRInv
BY IRTypeInit, ReportInit, ClaimInit, PayloadInit DEF IRInv

LEMMA IRInvStep == IRInv /\ [IRNext]_irVars => IRInv'
BY IRTypeStep, ReportInvStep, ClaimInvStep, PayloadInvStep DEF IRInv

\* A claimer without pending components has its whole payload in memory.
LEMMA WholePayload ==
  ASSUME PayloadInv, NEW s \in Slots, NEW i \in claimers[s], pending[i] = {}
  PROVE  payload[s] = PayloadOf(i)
<1>1. \A f \in Components : payload[s][f] = PayloadOf(i)[f]
  BY DEF PayloadInv
<1>2. payload[s] = [f \in Components |-> payload[s][f]]
  BY DEF PayloadInv
<1>3. PayloadOf(i) \in [Components -> {i, inst[i], value[i]}]
  BY DEF PayloadOf, Components
<1>4. PayloadOf(i) = [f \in Components |-> PayloadOf(i)[f]]
  BY <1>3
<1> QED BY <1>1, <1>2, <1>4, Zenon

\* The claimer of a published slot is done.
LEMMA PublishedSlot ==
  ASSUME IRInv, NEW s \in Slots, NEW i \in claimers[s], Published(s)
  PROVE  payload[s] = PayloadOf(i) /\ ReportSlot(i) = s
<1>1. i \in Invocations /\ slot[i] = s /\ kind[i] # "none" /\ pc[i] \notin {"write", "cookie"}
  BY DEF IRInv, IRTypeOK, ClaimInv, ReportInv, ReportOK
<1>2. pending[i] = {} /\ ReportSlot(i) = s
  BY <1>1 DEF IRInv, ReportInv, ReportOK
<1> QED BY <1>2, WholePayload DEF IRInv

\* A set without two different elements has at most one.
LEMMA AtMostOne ==
  ASSUME NEW S, \A x, y \in S : x = y
  PROVE  Cardinality(S) <= 1
<1>1. CASE S = {}
  BY <1>1, FS_EmptySet
<1>2. CASE S # {}
  <2>1. PICK x : S = {x}
    BY <1>2
  <2> QED BY <2>1, FS_Singleton
<1> QED BY <1>1, <1>2

LEMMA IRInvSound == IRInv => ReportsSound
<1> SUFFICES ASSUME IRInv PROVE ReportsSound
  OBVIOUS
<1>1. PublishedIsComplete
  BY PublishedSlot DEF PublishedIsComplete, IRInv, ClaimInv
<1>2. OneWriterPerSlot
  BY AtMostOne DEF OneWriterPerSlot, IRInv, ClaimInv
<1>3. OneSlotPerInvocation
  <2> SUFFICES ASSUME NEW i \in Invocations
               PROVE  Cardinality({s \in Slots : i \in claimers[s]}) <= 1
    BY DEF OneSlotPerInvocation
  <2>1. \A s, t \in {s \in Slots : i \in claimers[s]} : s = t
    BY DEF IRInv, ClaimInv
  <2> QED BY <2>1, AtMostOne
<1>4. AbortLeavesNoHalfReport
  BY DEF AbortLeavesNoHalfReport, IRInv, ClaimInv
<1> QED BY <1>1, <1>2, <1>3, <1>4 DEF ReportsSound, IRInv

\* The safety of the report buffers: what the host finds published is one
\* invocation's complete report in the slot its instruction hashes to, and no
\* invocation takes a second slot or leaves one claimed and unpublished when
\* it aborts.
THEOREM IRReportsSound == IRSpec => []ReportsSound
<1>1. IRInit => IRInv
  BY IRInvInit
<1>2. IRInv /\ [IRNext]_irVars => IRInv'
  BY IRInvStep
<1>3. IRInv => ReportsSound
  BY IRInvSound
<1> QED BY <1>1, <1>2, <1>3, PTL DEF IRSpec

\* A step shows the host one more complete payload, or nothing new.
LEMMA IRStepRefines ==
  ASSUME IRInv, IRInv', [IRNext]_irVars
  PROVE  [Store!FSNext]_PublishedPayload
<1> USE DEF IRInv
<1>1. ASSUME UNCHANGED <<control, payload>> PROVE UNCHANGED PublishedPayload
  BY <1>1, SameBits DEF PublishedPayload
<1>2. ASSUME NEW i \in Invocations, Claim(i) PROVE UNCHANGED PublishedPayload
  <2>1. UNCHANGED payload /\ \A s \in Slots : Published(s)' <=> Published(s)
    BY <1>2, ClaimBits DEF Claim
  <2> QED BY <2>1 DEF PublishedPayload
<1>3. ASSUME NEW i \in Invocations, NEW f \in Components, StoreComponent(i, f)
      PROVE  UNCHANGED PublishedPayload
  <2>1. /\ slot[i] \in Slots /\ ~ Published(slot[i])
        /\ \A s \in Slots : Published(s)' <=> Published(s)
    BY <1>3, SameBits DEF StoreComponent, IRTypeOK, ReportInv, ReportOK, ClaimInv
  <2>2. \A s \in Slots : s # slot[i] => payload'[s] = payload[s]
    BY <1>3 DEF StoreComponent, IRTypeOK
  <2> QED BY <2>1, <2>2 DEF PublishedPayload
<1>4. ASSUME NEW i \in Invocations, PublishPayload(i) PROVE Store!FSNext
  <2>1. /\ slot[i] \in Slots /\ ~ Published(slot[i]) /\ i \in claimers[slot[i]]
        /\ UNCHANGED <<payload, claimers, slot, inst, value>>
    BY <1>4 DEF PublishPayload, callVars, IRTypeOK, ClaimInv
  <2>2. \A s \in Slots : Published(s)' <=> Published(s) \/ s = slot[i]
    BY <1>4, PublishBits
  <2>3. payload[slot[i]] \in CompletePayloads
    <3>1. payload[slot[i]] = PayloadOf(i)
      BY <1>4, <2>1, WholePayload DEF PublishPayload, Barrier
    <3>2. inst[i] \in Insts /\ value[i] \in Values \cup Cookies
      BY <2>1 DEF ClaimInv, ReportInv, ReportOK
    <3>3. PayloadOf(i) \in CompletePayloads
      BY <3>2 DEF PayloadOf, CompletePayloads, Components
    <3> QED BY <3>1, <3>3
  <2>4. /\ PublishedPayload[slot[i]] = NoPayload
        /\ PublishedPayload'[slot[i]] = payload[slot[i]]
        /\ PublishedPayload' = [PublishedPayload EXCEPT ![slot[i]] = payload[slot[i]]]
    BY <2>1, <2>2 DEF PublishedPayload
  <2>5. Store!Publish(slot[i])
    BY <2>3, <2>4 DEF Store!Publish
  <2> QED BY <2>1, <2>5 DEF Store!FSNext
<1>5. ASSUME NEW i \in Invocations, NEW k \in Kinds, NEW n \in Insts,
             NEW v \in Values, BadValue(i, k, n, v)
      PROVE  UNCHANGED <<control, payload>>
  BY <1>5 DEF BadValue
<1>6. ASSUME NEW i \in Invocations, ReturnEarly(i) \/ LoadDispatchCookie(i)
      PROVE  UNCHANGED <<control, payload>>
  BY <1>6 DEF ReturnEarly, LoadDispatchCookie
<1>7. CASE HostNextDispatch \/ UNCHANGED irVars
  BY <1>1, <1>7 DEF HostNextDispatch, irVars
<1> QED
  BY <1>1, <1>2, <1>3, <1>4, <1>5, <1>6, <1>7 DEF IRNext, ReportStep

\* The two atomics around a payload store implement a write-once cell per
\* payload entry.
THEOREM IRImplementsFaultSlots == IRSpec => ImplementsFaultSlots
<1>1. IRInit => IRInv
  BY IRInvInit
<1>2. IRInv /\ [IRNext]_irVars => IRInv'
  BY IRInvStep
<1>3. IRInit => Store!FSInit
  BY ClaimInit DEF IRInit, Store!FSInit, PublishedPayload, ClaimInv
<1>4. IRInv /\ IRInv' /\ [IRNext]_irVars => [Store!FSNext]_PublishedPayload
  BY IRStepRefines
<1> QED BY <1>1, <1>2, <1>3, <1>4, PTL DEF IRSpec, ImplementsFaultSlots, Store!FSSpec

=============================================================================
