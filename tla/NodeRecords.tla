---------------------------- MODULE NodeRecords ----------------------------
(***************************************************************************)
(* The helper functions a work graph node calls to produce output:         *)
(* AllocateThreadNodeRecords and its waterfall, AllocateGroupNodeRecords,  *)
(* IncrementThreadNodeCount, IncrementGroupNodeCount and                   *)
(* FinishCrossGroupSharing (build_* of spirv_module.cpp, called by         *)
(* opcodes/dxil/dxil_workgraph.cpp).  All workgroups of a dispatch share a *)
(* block of counters in memory: bytes of payload, entries of the fused     *)
(* list, records per node, and the list itself, one pair of words per      *)
(* allocation.                                                             *)
(*                                                                         *)
(* Two kinds of actors: the lanes of a wave that allocate per thread run   *)
(* in lockstep, one atomic at a time; the threads of a workgroup that      *)
(* allocate as a group run freely between barriers.  An action is one      *)
(* atomic, one store, one load or one barrier.                             *)
(***************************************************************************)
EXTENDS Integers, Sequences, FiniteSets, FiniteSetsExt

CONSTANTS
  Waves,        \* waves that allocate per thread
  Groups,       \* workgroups that allocate as a group
  Threads,      \* threads of a workgroup, 0 .. Threads - 1
  WaveWidth,    \* lanes of a wave
  Nodes,        \* node metadata indices, naturals
  MaxCount,     \* records a lane or group asks for at most
  Scenarios,    \* what waves and groups may ask for together
  CountRange,   \* 2^8: the count field of a list entry
  Alignment,    \* 16: payloads are aligned
  RecordSize    \* stride of a record

ASSUME NodeRecordsAssumption ==
  /\ {Threads, WaveWidth, MaxCount, CountRange, Alignment, RecordSize} \subseteq Nat \ {0}
  /\ Nodes \subseteq Nat
  /\ WaveWidth * MaxCount <= CountRange
  /\ IsFiniteSet(Waves) /\ IsFiniteSet(Groups) /\ Waves \cap Groups = {} /\ Groups # {}

VARIABLES
  mem,       \* payloadCount, fusedCount, perNodeTotal, the list, the sharing cookie
  want,      \* what each wave's lanes, and each group's calls, ask for
  wave,      \* state of each wave
  thread,    \* state of each thread of each group
  shared,    \* AllocateGroupNodeRecordsShared and ...SharingBroadcast
  got        \* the records each lane and thread was given

nvars == <<mem, want, wave, thread, shared, got>>

WaveLane == 0 .. WaveWidth - 1
Thread == 0 .. Threads - 1
Align(n) == ((n + Alignment - 1) \div Alignment) * Alignment

\* A list entry: node index and record count - 1 in one word, then the payload.
\* A count fits its field, so that the bitwise or of the two is their sum.
Header(node, count) == (node * CountRange) + (count - 1)
HeaderNode(h) == h \div CountRange
HeaderCount(h) == (h % CountRange) + 1

----------------------------------------------------------------------------
(* The elected lane's body, shared by both functions: who holds the local  *)
(* values of one allocation [node, count, offset, slot].                   *)

Unset == -1
Nothing == [node |-> 0, count |-> 0, offset |-> Unset, slot |-> Unset]
BlankEntry == [header |-> 0, payload |-> Unset]

AddPayload(a) ==
  [memory |-> [mem EXCEPT !.payload = @ + Align(a.count * RecordSize)],
   alloc |-> [a EXCEPT !.offset = mem.payload]]
\* The list has room; it is modelled as far as entries of it have been taken.
IncrementFused(a) ==
  [memory |-> [mem EXCEPT !.fused = @ + 1,
                          !.list = [i \in 0 .. mem.fused |->
                                      IF i < mem.fused THEN @[i] ELSE BlankEntry]],
   alloc |-> [a EXCEPT !.slot = mem.fused]]
AddNodeTotal(a) ==
  [memory |-> [mem EXCEPT !.total[a.node] = @ + a.count], alloc |-> a]
StoreHeader(a) ==
  [memory |-> [mem EXCEPT !.list = [@ EXCEPT ![a.slot].header = Header(a.node, a.count)]], alloc |-> a]
StorePayload(a) ==
  [memory |-> [mem EXCEPT !.list = [@ EXCEPT ![a.slot].payload = a.offset]], alloc |-> a]

\* The body's instructions in program order.
BodyPcs == {"payload", "fused", "total", "header", "store"}
AfterStep == [payload |-> "fused", fused |-> "total", total |-> "header",
              header |-> "store", store |-> "merge"]
Execute(i, a) ==
  CASE i = "payload" -> AddPayload(a)
    [] i = "fused" -> IncrementFused(a)
    [] i = "total" -> AddNodeTotal(a)
    [] i = "header" -> StoreHeader(a)
    [] i = "store" -> StorePayload(a)

----------------------------------------------------------------------------
(* Calls per thread: the waterfall loop, AllocateThreadNodeRecords and     *)
(* IncrementThreadNodeCount.                                               *)

Lane(w) == want.waves[w]     \* [active lane -> [node, count]]

\* The lanes that agree with the first lane of the loop call the inner function.
AgreeingAndAsking(w) ==
  LET first == Min(wave[w].looping)
  IN  {l \in wave[w].looping : Lane(w)[l].node = Lane(w)[first].node /\ Lane(w)[l].count > 0}

Agreeing(w) ==
  LET first == Min(wave[w].looping)
  IN  {l \in wave[w].looping : Lane(w)[l].node = Lane(w)[first].node}

\* OpGroupNonUniformIAdd, reduced over the lanes of a call, or scanned.
SumOver(f, S) == MapThenSumSet(LAMBDA x : f[x], S)
LaneCounts(w) == [l \in DOMAIN Lane(w) |-> Lane(w)[l].count]
Total(w, lanes) == SumOver(LaneCounts(w), lanes)
Scan(w, lanes, l) == Total(w, {k \in lanes : k < l})

\* A call for no records returns at once.
Entered(w, lanes) ==
  IF Total(w, lanes) = 0 THEN [wave[w] EXCEPT !.looping = @ \ lanes]
  ELSE [wave[w] EXCEPT !.call = lanes, !.pc = "payload",
                       !.alloc = [Nothing EXCEPT !.node = Lane(w)[Min(lanes)].node,
                                                 !.count = Total(w, lanes)]]

EnterCall(w) ==
  /\ want.kind[w] = "allocate" /\ wave[w].pc = "loop" /\ wave[w].looping # {}
  /\ wave' = [wave EXCEPT ![w] = Entered(w, Agreeing(w))]
  /\ UNCHANGED <<mem, want, thread, shared, got>>

WaveBody(w) ==
  /\ wave[w].pc \in BodyPcs
  /\ \E r \in {Execute(wave[w].pc, wave[w].alloc)} :
       /\ mem' = r.memory
       /\ wave' = [wave EXCEPT ![w].alloc = r.alloc, ![w].pc = AfterStep[@]]
  /\ UNCHANGED <<want, thread, shared, got>>

\* The elected lane's offset is broadcast; a lane adds what lanes before it take.
LaneOffsetUnscanned(w, l) == wave[w].alloc.offset + l * RecordSize
LaneOffset(w, l) == wave[w].alloc.offset + Scan(w, wave[w].call, l) * RecordSize

WaveReturn(w) ==
  /\ wave[w].pc = "merge"
  /\ got' = got \cup {[who |-> <<w, l>>, node |-> Lane(w)[l].node, count |-> Lane(w)[l].count,
                       offset |-> LaneOffset(w, l)] : l \in wave[w].call}
  /\ wave' = [wave EXCEPT ![w].pc = "loop", ![w].looping = @ \ wave[w].call,
                          ![w].call = {}, ![w].alloc = Nothing]
  /\ UNCHANGED <<mem, want, thread, shared>>

\* IncrementThreadNodeCount: one atomic per lane, in any order.
IncrementThread(w, l) ==
  /\ want.kind[w] = "increment" /\ l \in wave[w].looping
  /\ mem' = [mem EXCEPT !.total[Lane(w)[l].node] = @ + Lane(w)[l].count]
  /\ wave' = [wave EXCEPT ![w].looping = @ \ {l}]
  /\ UNCHANGED <<want, thread, shared, got>>

----------------------------------------------------------------------------
(* Calls as a group, in uniform control flow: every thread of a group      *)
(* makes the same calls.                                                   *)

Calls(g) == want.groups[g]     \* sequence of [kind, node, count]
Current(g, t) == Calls(g)[thread[g][t].call]
HasCall(g, t) == thread[g][t].call <= Len(Calls(g))

\* A thread arrives at a barrier and leaves it when all threads have arrived.
Arrive(th, pc) == [th EXCEPT !.pc = pc, !.arrived = @ + 1]
AllArrived(g, t) == \A o \in Thread : thread[g][o].arrived >= thread[g][t].arrived
NextCall(th) == [th EXCEPT !.pc = "enter", !.call = @ + 1, !.alloc = Nothing]

\* An allocation of no records returns at once.
Empty(g, t) == Current(g, t).count = 0

Started(g, t) ==
  IF Empty(g, t) THEN NextCall(thread[g][t])
  ELSE IF t = 0
  THEN [thread[g][t] EXCEPT !.pc = "payload", !.alloc = [Nothing EXCEPT !.node = Current(g, t).node,
                                                                       !.count = Current(g, t).count]]
  ELSE Arrive(thread[g][t], "wait")

StartAllocate(g, t) ==
  /\ thread[g][t].pc = "enter" /\ HasCall(g, t) /\ Current(g, t).kind = "allocate"
  /\ thread' = [thread EXCEPT ![g][t] = Started(g, t)]
  /\ UNCHANGED <<mem, want, wave, shared, got>>

LeaderBody(g) ==
  /\ thread[g][0].pc \in BodyPcs
  /\ \E r \in {Execute(thread[g][0].pc, thread[g][0].alloc)} :
       /\ mem' = r.memory
       /\ thread' = [thread EXCEPT ![g][0].alloc = r.alloc, ![g][0].pc = AfterStep[@]]
  /\ UNCHANGED <<want, wave, shared, got>>

LeaderShares(g) ==
  /\ thread[g][0].pc = "merge"
  /\ shared' = [shared EXCEPT ![g].offset = thread[g][0].alloc.offset]
  /\ thread' = [thread EXCEPT ![g][0] = Arrive(@, "wait")]
  /\ UNCHANGED <<mem, want, wave, got>>

\* After the second barrier ("Avoid WAR hazard") the shared word may be reused.
ReturnAfterBarrier(th) == Arrive(th, "leave")

ReadShared(g, t) ==
  /\ thread[g][t].pc = "wait" /\ AllArrived(g, t)
  /\ got' = got \cup {[who |-> <<g, thread[g][t].call>>, node |-> Current(g, t).node,
                       count |-> Current(g, t).count, offset |-> shared[g].offset]}
  /\ thread' = [thread EXCEPT ![g][t] = ReturnAfterBarrier(@)]
  /\ UNCHANGED <<mem, want, wave, shared>>

LeaveAllocate(g, t) ==
  /\ thread[g][t].pc = "leave" /\ AllArrived(g, t)
  /\ thread' = [thread EXCEPT ![g][t] = NextCall(@)]
  /\ UNCHANGED <<mem, want, wave, shared, got>>

\* IncrementGroupNodeCount: the first thread counts for the group.
IncrementGroup(g, t) ==
  /\ thread[g][t].pc = "enter" /\ HasCall(g, t) /\ Current(g, t).kind = "increment"
  /\ mem' = IF t = 0 THEN [mem EXCEPT !.total[Current(g, t).node] = @ + Current(g, t).count] ELSE mem
  /\ thread' = [thread EXCEPT ![g][t] = NextCall(@)]
  /\ UNCHANGED <<want, wave, shared, got>>

----------------------------------------------------------------------------
(* FinishCrossGroupSharing, once per group after its other calls.          *)

\* The cookie counts the groups that have not finished.
IsLast(before) == before = 1

StartFinish(g, t) ==
  /\ thread[g][t].pc = "enter" /\ ~HasCall(g, t) /\ want.finish
  /\ IF t = 0
     THEN /\ mem' = [mem EXCEPT !.cookie = @ - 1]
          /\ thread' = [thread EXCEPT ![g][0].pc = "publish", ![g][0].last = IsLast(mem.cookie)]
     ELSE /\ thread' = [thread EXCEPT ![g][t] = Arrive(@, "finish")]
          /\ UNCHANGED mem
  /\ UNCHANGED <<want, wave, shared, got>>

PublishLast(g) ==
  /\ thread[g][0].pc = "publish"
  /\ shared' = [shared EXCEPT ![g].last = thread[g][0].last]
  /\ thread' = [thread EXCEPT ![g][0] = Arrive(@, "finish")]
  /\ UNCHANGED <<mem, want, wave, got>>

ReadLast(g, t) ==
  /\ thread[g][t].pc = "finish" /\ AllArrived(g, t)
  /\ thread' = [thread EXCEPT ![g][t].pc = "done", ![g][t].last = shared[g].last]
  /\ UNCHANGED <<mem, want, wave, shared, got>>

----------------------------------------------------------------------------
(* What is asked for.                                                      *)

\* Some lanes of each wave allocate, or count, records of a node each; each group
\* makes a sequence of calls and may finish the sharing of its input record.
Ask == [node : Nodes, count : 0 .. MaxCount]
LaneAsks == UNION {[L -> Ask] : L \in SUBSET WaveLane}
GroupAsk == [kind : {"allocate", "increment"}, node : Nodes, count : 0 .. MaxCount]
Requests == [waves : [Waves -> LaneAsks], kind : [Waves -> {"allocate", "increment"}],
             groups : [Groups -> Seq(GroupAsk)], finish : BOOLEAN]

ASSUME ScenariosAssumption == Scenarios \subseteq Requests

NRInit ==
  /\ want \in Scenarios
  /\ mem = [payload |-> 0, fused |-> 0, total |-> [n \in Nodes |-> 0],
            list |-> [i \in 0 .. -1 |-> BlankEntry],
            cookie |-> Cardinality(Groups)]
  /\ wave = [w \in Waves |-> [pc |-> "loop", looping |-> DOMAIN want.waves[w],
                              call |-> {}, alloc |-> Nothing]]
  /\ thread = [g \in Groups |-> [t \in Thread |->
                [pc |-> "enter", call |-> 1, alloc |-> Nothing, arrived |-> 0, last |-> FALSE]]]
  /\ shared = [g \in Groups |-> [offset |-> Unset, last |-> FALSE]]
  /\ got = {}

WaveStep(w) == EnterCall(w) \/ WaveBody(w) \/ WaveReturn(w) \/ \E l \in WaveLane : IncrementThread(w, l)
ThreadStep(g, t) ==
  \/ StartAllocate(g, t) \/ ReadShared(g, t) \/ LeaveAllocate(g, t) \/ IncrementGroup(g, t)
  \/ StartFinish(g, t) \/ ReadLast(g, t)
  \/ t = 0 /\ (LeaderBody(g) \/ LeaderShares(g) \/ PublishLast(g))

NRNext == (\E w \in Waves : WaveStep(w)) \/ (\E g \in Groups, t \in Thread : ThreadStep(g, t))

\* Every wave and every thread of a resident workgroup makes progress.
NRSpec ==
  /\ NRInit /\ [][NRNext]_nvars
  /\ \A w \in Waves : WF_nvars(WaveStep(w))
  /\ \A g \in Groups : \A t \in Thread : WF_nvars(ThreadStep(g, t))

----------------------------------------------------------------------------
ThreadDone(g, t) ==
  ~HasCall(g, t) /\ thread[g][t].pc = (IF want.finish THEN "done" ELSE "enter")
Quiet == /\ \A w \in Waves : wave[w].looping = {} /\ wave[w].pc = "loop"
         /\ \A g \in Groups : \A t \in Thread : ThreadDone(g, t)

RecordEnd(r) == r.offset + r.count * RecordSize

\* No two allocations share payload memory, whatever waves and groups allocate
\* at the same time: lanes of one wave, lanes that took different turns of the
\* waterfall, and successive calls of one group.  All threads of a group get
\* the records its first thread allocated, never those of the group's next
\* call.
RecordsDisjoint ==
  /\ \A r \in got : r.offset >= 0 /\ RecordEnd(r) <= mem.payload
  /\ \A r, q \in got : IF r.who = q.who THEN r = q
                        ELSE RecordEnd(r) <= q.offset \/ RecordEnd(q) <= r.offset \/ r.count = 0 \/ q.count = 0

\* The records a caller got are on the fused list under the caller's node, and
\* when nothing is running the node totals are what all callers asked for.
Listed(r) ==
  \E i \in 0 .. mem.fused - 1 :
    LET e == mem.list[i]
    IN  /\ e.payload # Unset /\ e.payload % Alignment = 0
        /\ HeaderNode(e.header) = r.node
        /\ e.payload <= r.offset /\ RecordEnd(r) <= e.payload + HeaderCount(e.header) * RecordSize

AskedOf(n) ==
  LET Counts(asks) == [x \in DOMAIN asks |-> IF asks[x].node = n THEN asks[x].count ELSE 0]
      All(asks) == SumOver(Counts(asks), DOMAIN asks)
  IN  SumOver([w \in Waves |-> All(Lane(w))], Waves) + SumOver([g \in Groups |-> All(Calls(g))], Groups)

ListIsComplete ==
  /\ \A r \in got : r.count > 0 => Listed(r)
  /\ Quiet => \A n \in Nodes : mem.total[n] = AskedOf(n)

\* Exactly one group learns that it is the last to finish with a shared input
\* record, and all its threads learn it.
OneGroupIsLast ==
  want.finish /\ Quiet =>
    \E g \in Groups : \A h \in Groups : \A t \in Thread : thread[h][t].last <=> h = g

\* Output records are allocated as they are counted: no two allocations share memory,
\* all of them are on the list that the next nodes are launched from, and one group
\* learns that it is the last (build_allocate_node_records,
\* build_finish_cross_group_sharing).
RecordsSound == RecordsDisjoint /\ ListIsComplete /\ OneGroupIsLast

\* Every call returns: the waterfall lets every lane through, and no thread
\* waits at a barrier that the others do not reach.
CallsReturn == <>Quiet
=============================================================================
