----------------------------- MODULE MC_Device ------------------------------
(* Code the compiler emits that lanes, waves and groups run together, side *)
(* by side: a behaviour runs the dispatcher of a node, the allocation of   *)
(* records or a wave operation.                                            *)
EXTENDS WorkGraph, NodeRecords, WaveOps

CONSTANT GroupCalls  \* allocations a group makes back to back

VARIABLE running

(* What waves and groups ask for: waves against each other, a wave against a     *)
(* group, and groups that finish.                                                *)
Alone == [l \in {} |-> 0]
AnyWave == CHOOSE w \in Waves : TRUE
AnyGroup == CHOOSE g \in Groups : TRUE

DeviceScenarios ==
  [waves : [Waves -> LaneAsks \ {Alone}],
   kind : {[w \in Waves |-> IF w = AnyWave THEN "allocate" ELSE k] : k \in {"allocate", "increment"}},
   groups : {[g \in Groups |-> << >>]}, finish : {FALSE}]
  \cup
  [waves : {[w \in Waves |-> IF w = AnyWave THEN a ELSE Alone] : a \in [{0} -> Ask]},
   kind : {[w \in Waves |-> "allocate"]},
   groups : {[g \in Groups |-> IF g = AnyGroup THEN c ELSE << >>] :
               c \in UNION {[1 .. k -> GroupAsk] : k \in 0 .. GroupCalls}},
   finish : {FALSE}]
  \cup
  [waves : {[w \in Waves |-> Alone]}, kind : {[w \in Waves |-> "allocate"]},
   groups : [Groups -> {<< >>} \cup {<<[kind |-> "allocate", node |-> Min(Nodes), count |-> c]>> :
                                      c \in 0 .. MaxCount}],
   finish : {TRUE}]

WGIdle == job = << >> /\ unit = << >> /\ ran = {}
NRIdle == /\ mem = << >> /\ want = [finish |-> FALSE] /\ thread = << >> /\ shared = << >> /\ got = {}
          /\ wave = [w \in Waves |-> [pc |-> "idle", looping |-> {}]]
WVIdle == call = << >> /\ looping = << >> /\ result = << >> /\ step = << >>

DeviceInit ==
  \/ running = "graph"   /\ WGInit /\ NRIdle /\ WVIdle
  \/ running = "records" /\ WGIdle /\ NRInit /\ WVIdle
  \/ running = "wave"    /\ WGIdle /\ NRIdle /\ WVInit

GraphStep == running = "graph" /\ WGNext /\ UNCHANGED <<running, nvars, wvars>>
RecordsStep(A) == running = "records" /\ A /\ UNCHANGED <<running, gvars, wvars>>
WaveOpStep == running = "wave" /\ WVNext /\ UNCHANGED <<running, gvars, nvars>>

DeviceNext == GraphStep \/ RecordsStep(NRNext) \/ WaveOpStep

deviceVars == <<running, gvars, nvars, wvars>>

\* Workgroups, waves and the threads of a workgroup keep executing.
DeviceSpec ==
  /\ DeviceInit /\ [][DeviceNext]_deviceVars
  /\ WF_deviceVars(GraphStep) /\ WF_deviceVars(WaveOpStep)
  /\ \A w \in Waves : WF_deviceVars(RecordsStep(WaveStep(w)))
  /\ \A g \in Groups : \A t \in Thread : WF_deviceVars(RecordsStep(ThreadStep(g, t)))

-----------------------------------------------------------------------------
\* A wave operation gives each lane the result over the lanes that take part in
\* it: helper lanes stay out where they must and follow where they may not
\* diverge, lanes are read by the name the shader gave them, and the partitions of
\* multi-prefix operations are what WaveMatch returned (dxil_waveops.cpp).
WavesSound ==
  running = "wave" =>
    ResultsExcludeHelpers /\ HelpersStayUniform /\ LaneReadsAsNamed /\ PartitionsAreValid

\* Every record is processed for every workgroup of its grid.
AllDispatched == <>[](running = "graph" => AllRan)

\* Every allocation returns: the waterfall lets every lane through, and no thread
\* waits at a barrier that the others do not reach.
AllocationsReturn == <>(running = "records" => Quiet)

\* The loop over the distinct values of a wave ends, also for values that do not
\* equal themselves (emit_wave_multi_prefix_op, build_wave_match).
WaterfallsEnd == <>(running = "wave" => step \in {"done", "invalid"})
=============================================================================
