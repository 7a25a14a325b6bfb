------------------------------- MODULE RayObjects -------------------------------
(***************************************************************************)
(* Hit objects and ray queries: opaque DXIL values that SPIR-V can only    *)
(* keep in variables (opcodes/dxil/dxil_ray_tracing.cpp).                  *)
(*                                                                         *)
(* A hit object that flows through a phi shares the variable of the phi    *)
(* that consumes it.  Ray queries are one variable each, an array, or a    *)
(* single variable, as the handles of the TraceRayInline calls allow.  In  *)
(* the last two cases a handle is a number, and the code that uses a query *)
(* has to find the variable for it; an object made from a query does not.  *)
(*                                                                         *)
(* The function: an entry block defines h, a loop header H may merge       *)
(* objects by a phi p, the two sides A and B of a branch may define        *)
(* objects, and the merge block M may join them by a phi q and loops or    *)
(* leaves.  The same blocks trace and read ray queries.                    *)
(***************************************************************************)
EXTENDS Integers, FiniteSets

CONSTANTS
    MaxRounds,     \* iterations of the loop
    CarriedFresh,  \* the loop may carry a merge of two objects of one iteration
    Concurrent,    \* an older query may be read through a shared handle
    DynamicReads,  \* a handle that varies may name queries no such handle traces
    HeapSources    \* an object may be made from a query that a number names

VARIABLES
    incoming,  \* the phis' incoming values, "undef" where there is none
    traced,    \* handles of the TraceRayInline sites, by block
    newer,     \* the queries that AllocateRayQuery2 allocates
    handle,    \* the query a dynamic handle names in this iteration
    consumer,  \* payload_to_consuming_phi and payload_mapping.consuming_phi
    rejected,  \* analyze_phi_hitobject has failed
    where,     \* "write", "analyse", or the block that runs
    from,      \* the block it was entered from
    rounds,    \* iterations run
    ssa,       \* the hit objects as SSA values
    held,      \* the contents of the hit object variables
    ticks,     \* objects made and queries traced
    newest,    \* the object made last
    queries,   \* per DXIL query, its last trace
    heap,      \* per SPIR-V ray query variable, its last trace
    last,      \* the query traced last
    recorded   \* the trace an object was last made from: in DXIL, and as emitted

objectVars == <<incoming, traced, newer, handle, consumer, rejected, where, from, rounds, ssa,
                held, ticks, newest, queries, heap, last, recorded>>

Values == {"h", "a", "b", "p", "q"}
Phis == {"p", "q"}
Queries == {"q1", "q2"}
Handles == Queries \union {"dynamic"}
TraceBlocks == {"A", "B"}
NoQuery == 0

-----------------------------------------------------------------------------
(* The shader.                                                             *)

WriteFunction ==
    /\ where = "write"
    /\ \E pe \in {"h", "undef"}, pm \in {"h", "p", "q", "undef"},
          qa \in {"h", "p", "a", "undef"}, qb \in {"h", "p", "b", "undef"},
          t \in [TraceBlocks -> Handles \union {"none"}], n \in SUBSET Queries :
         /\ "p" \in {pm, qa, qb} => {pe, pm} # {"undef"}
         /\ pm = "q" => {qa, qb} # {"undef"}
         /\ CarriedFresh \/ (pm = "q" => "p" \in {qa, qb})
         /\ incoming' = [p |-> [E |-> pe, M |-> pm], q |-> [A |-> qa, B |-> qb]]
         /\ traced' = t /\ newer' = n
    /\ where' = "analyse"
    /\ UNCHANGED <<handle, consumer, rejected, from, rounds, ssa, held, ticks, newest,
                   queries, heap, last, recorded>>

-----------------------------------------------------------------------------
(* Analysis.                                                               *)

In(phi) == {incoming[phi][e] : e \in DOMAIN incoming[phi]} \ {"undef"}

\* analyze_phi_hitobject: each incoming value is consumed by this phi, whose own
\* mapping starts empty.
Consumed(c, phi) ==
    [v \in Values |-> IF v = phi THEN "none" ELSE IF v \in In(phi) THEN phi ELSE c[v]]
Clashes(c, phi) == \E v \in In(phi) : c[v] \notin {"none", phi}

\* The phis are visited in the order of their blocks.
AnalyzePhis ==
    /\ where = "analyse"
    /\ LET phis == {x \in Phis : In(x) # {}}
           c1 == IF "p" \in phis THEN Consumed(consumer, "p") ELSE consumer
           c2 == IF "q" \in phis THEN Consumed(c1, "q") ELSE c1
       IN  /\ rejected' = ("q" \in phis /\ Clashes(c1, "q"))
           /\ consumer' = c2
    /\ where' = IF rejected' THEN "rejected" ELSE "E"
    /\ UNCHANGED <<incoming, traced, newer, handle, from, rounds, ssa, held, ticks, newest,
                   queries, heap, last, recorded>>

\* build_hit_object and emit_hitobject_phi: follow the consuming phis to the last.
VariableOneLevel(v) == IF consumer[v] = "none" THEN v ELSE consumer[v]
VariableOf(v) ==
    IF consumer[v] = "none" THEN v
    ELSE IF consumer[consumer[v]] = "none" THEN consumer[v] ELSE consumer[consumer[v]]

UsedHandles == {traced[b] : b \in TraceBlocks} \ {"none"}
\* A handle is direct when AllocateRayQuery itself is its value.  Only the handles of
\* the traces are looked at.
UsesNonDirectIndexing == "dynamic" \in UsedHandles \/ UsedHandles \cap newer # {}
UsesDivergentHandles == Cardinality(UsedHandles) > 1

\* emit_allocate_ray_query and build_ray_query_object: the variable of a query.
QueryVariable(x) ==
    IF UsesNonDirectIndexing /\ ~UsesDivergentHandles THEN "q1" ELSE x

-----------------------------------------------------------------------------
(* Execution of the DXIL function beside the emitted one.                  *)

Object(v) == IF v = "undef" THEN 0 ELSE ssa[v]

\* An object is defined: a trace, a miss or a nop.
Define(v) ==
    /\ ssa' = [ssa EXCEPT ![v] = ticks + 1]
    /\ held' = [held EXCEPT ![VariableOf(v)] = ticks + 1]
    /\ newest' = ticks + 1

Query(x) == IF x = "dynamic" THEN handle ELSE x

\* emit_ray_query_trace_ray_inline_instruction.
Trace(x) ==
    /\ queries' = [queries EXCEPT ![Query(x)] = ticks + 1]
    /\ heap' = [heap EXCEPT ![QueryVariable(Query(x))] = ticks + 1]
    /\ last' = Query(x)

\* emit_hit_object_from_ray_query_instruction: the operand is taken as it is.  That is
\* the variable of the query, or its number where the queries are in the heap, and a
\* choice between variables for a handle that varies.
FromRayQuery(v, x) ==
    /\ Define(v)
    /\ recorded' =
         [from |-> x, meant |-> queries'[Query(x)],
          taken |-> IF UsesNonDirectIndexing \/ x = "dynamic" THEN NoQuery ELSE heap'[x]]

RunEntry ==
    /\ where = "E" /\ Define("h")
    /\ where' = "H" /\ from' = "E" /\ ticks' = ticks + 1
    /\ UNCHANGED <<incoming, traced, newer, handle, consumer, rejected, rounds, queries, heap,
                   last, recorded>>

\* The loop header: the phi takes its value; a dynamic handle names some query.
RunHeader ==
    /\ where = "H" /\ rounds < MaxRounds
    /\ ssa' = [ssa EXCEPT !["p"] = Object(incoming["p"][from])]
    /\ handle' \in Queries
    /\ where' \in TraceBlocks /\ from' = "H" /\ rounds' = rounds + 1
    /\ UNCHANGED <<incoming, traced, newer, consumer, rejected, held, ticks, newest, queries,
                   heap, last, recorded>>

\* A side of the branch traces, and defines its object where q takes it, from a query
\* or without one.
RunSide ==
    /\ where \in TraceBlocks
    /\ IF traced[where] # "none" THEN Trace(traced[where]) ELSE UNCHANGED <<queries, heap, last>>
    /\ \E own \in {IF where = "A" THEN "a" ELSE "b"} :
         IF incoming["q"][where] = own
         THEN \/ \E x \in Handles : FromRayQuery(own, x)
              \/ Define(own) /\ UNCHANGED recorded
         ELSE UNCHANGED <<ssa, held, newest, recorded>>
    /\ ticks' = ticks + 1
    /\ where' = "M" /\ from' = where
    /\ UNCHANGED <<incoming, traced, newer, handle, consumer, rejected, rounds>>

RunMerge ==
    /\ where = "M"
    /\ ssa' = [ssa EXCEPT !["q"] = Object(incoming["q"][from])]
    /\ where' \in {"H", "X"} /\ from' = "M"
    /\ UNCHANGED <<incoming, traced, newer, handle, consumer, rejected, rounds, held, ticks,
                   newest, queries, heap, last, recorded>>

ROInit ==
    /\ incoming = [p |-> [E |-> "undef", M |-> "undef"], q |-> [A |-> "undef", B |-> "undef"]]
    /\ traced = [b \in TraceBlocks |-> "none"] /\ newer = {} /\ handle = "q1"
    /\ consumer = [v \in Values |-> "none"] /\ rejected = FALSE
    /\ where = "write" /\ from = "E" /\ rounds = 0
    /\ ssa = [v \in Values |-> 0] /\ held = [v \in Values |-> 0]
    /\ ticks = 0 /\ newest = 0
    /\ queries = [x \in Queries |-> 0] /\ heap = queries /\ last = "q1"
    /\ recorded = [from |-> "q1", meant |-> 0, taken |-> 0]

RONext == WriteFunction \/ AnalyzePhis \/ RunEntry \/ RunHeader \/ RunSide \/ RunMerge
ROSpec == ROInit /\ [][RONext]_objectVars

\* An instruction on an object reads the variable of its operand.
ReadObject(v) == held[VariableOf(v)]

\* So does an instruction on a query, which finds the variable by the number of the
\* query, or has it as its operand.
ReadQuery(x) ==
    IF UsesNonDirectIndexing THEN heap[QueryVariable(Query(x))]
    ELSE IF x = "dynamic" THEN NoQuery ELSE heap[x]

-----------------------------------------------------------------------------
\* After a phi has taken a value, the variable it reads holds that object,
\* whichever way the loop and the branch went, as long as the shader still
\* means the newest object (build_hit_object, emit_hitobject_phi,
\* analyze_phi_hitobject).
ObjectsFollowPhis ==
    /\ where \in TraceBlocks /\ ssa["p"] # 0 /\ ssa["p"] = newest =>
           ReadObject("p") = ssa["p"]
    /\ where \in {"H", "X"} /\ from = "M" /\ ssa["q"] # 0 /\ ssa["q"] = newest =>
           ReadObject("q") = ssa["q"]

\* Every query the shader has traced is found again through any of its handles.
\* Where all traces use one handle value and the queries share one variable,
\* that holds for the query traced last; where no trace has a handle that varies,
\* for the handles that do not (RayQuery_TraceRayInline, emit_ray_query_globals,
\* build_ray_query_object).
QueriesKept ==
    \A x \in Handles :
        /\ queries[Query(x)] # 0
        /\ Concurrent \/ UsesDivergentHandles \/ Query(x) = last
        /\ DynamicReads \/ UsesNonDirectIndexing \/ x # "dynamic"
        => ReadQuery(x) = queries[Query(x)]

\* An object made from a query records the last trace of that query, as long as the
\* operand is the variable of the query (emit_hit_object_from_ray_query_instruction).
SourcesKept ==
    /\ recorded.meant # 0
    /\ HeapSources \/ (~ UsesNonDirectIndexing /\ recorded.from # "dynamic")
    => recorded.taken = recorded.meant

\* Hit objects follow the phis of the shader, ray queries their handles, and objects
\* the queries they are made from (analyze_phi_hitobject, build_ray_query_object,
\* emit_hit_object_from_ray_query_instruction).
RayObjectsSound == ObjectsFollowPhis /\ QueriesKept /\ SourcesKept
=============================================================================
