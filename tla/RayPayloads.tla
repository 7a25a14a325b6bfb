------------------------------ MODULE RayPayloads ------------------------------
(***************************************************************************)
(* The variables a ray tracing shader hands to other shaders: payloads,    *)
(* callable data and hit object attributes.                                *)
(*                                                                         *)
(* SPIR-V wants each in a storage class of its own, a DXIL shader uses one *)
(* alloca for any of them, or a pointer that is no alloca at all.  The     *)
(* analysis (update_storage_class, mark_alloca_variable) chooses a class   *)
(* per alloca, and the emitters of dxil_ray_tracing.cpp and dxil_nvapi.cpp *)
(* copy a variable through a temporary where it has the wrong one.         *)
(*                                                                         *)
(* The called shader is external: it reads the variable and writes a value *)
(* that names the call.                                                    *)
(***************************************************************************)
EXTENDS Integers, Sequences

CONSTANTS
    Allocas,     \* variables that are the result of an alloca
    Pointers,    \* other pointers: members, incoming payloads
    MaxRayCalls, \* calls a shader makes
    Private      \* calls that use an alloca of their own

ASSUME RPVariables == Allocas \cap Pointers = {}

VARIABLES
    rayCalls,  \* the calls: [kind, var]
    rayPhase,  \* "write", "analyse", "run"
    rayAt,     \* the call a pass is at
    storage,   \* handle_to_storage_class of the allocas
    copied,    \* needs_temp_storage_copy
    source,    \* the variables as the DXIL shader has them
    memory,    \* the variables as the SPIR-V shader has them
    scratch,   \* temp_payloads, one per storage class
    misplaced, \* an operation was given a variable of the wrong class
    misread    \* a called shader read something else than the DXIL shader holds

rayVars == <<rayCalls, rayPhase, rayAt, storage, copied, source, memory, scratch,
             misplaced, misread>>

Vars == Allocas \union Pointers
Classes == {"RayPayload", "CallableData", "Attribute"}

\* The class of an operation's variable, whether its emitter goes through a
\* temporary, whether it copies the temporary back, and whether the called
\* shader writes the variable.
Operation(class, copies, resolves, writes) ==
    [class |-> class, copies |-> copies, resolves |-> resolves, writes |-> writes]
EmitTraceRay == Operation("RayPayload", TRUE, TRUE, TRUE)
EmitHitObjectTraceRay == Operation("RayPayload", TRUE, TRUE, TRUE)
EmitHitObjectInvoke == Operation("RayPayload", TRUE, FALSE, TRUE)
CallShaderKeepingTemp == Operation("CallableData", TRUE, FALSE, TRUE)
EmitCallShader == Operation("CallableData", TRUE, TRUE, TRUE)
EmitHitObjectAttributes == Operation("Attribute", FALSE, FALSE, TRUE)
EmitFromRayQueryWithAttrs == Operation("Attribute", FALSE, FALSE, FALSE)
EmitNvapiTraceRay == Operation("RayPayload", TRUE, TRUE, TRUE)
EmitNvapiInvoke == Operation("RayPayload", TRUE, TRUE, TRUE)
EmitNvapiMakeHit == Operation("Attribute", TRUE, FALSE, FALSE)
EmitNvapiAttributes == Operation("Attribute", TRUE, TRUE, TRUE)
Emitted ==
    [TraceRay |-> EmitTraceRay, HitTraceRay |-> EmitHitObjectTraceRay,
     Invoke |-> EmitHitObjectInvoke, CallShader |-> EmitCallShader,
     Attributes |-> EmitHitObjectAttributes, FromQuery |-> EmitFromRayQueryWithAttrs,
     NvTrace |-> EmitNvapiTraceRay, NvInvoke |-> EmitNvapiInvoke,
     NvMakeHit |-> EmitNvapiMakeHit, NvAttributes |-> EmitNvapiAttributes]
Kinds == DOMAIN Emitted

-----------------------------------------------------------------------------
\* The shader makes a call.
WriteRayCall ==
    /\ rayPhase = "write" /\ Len(rayCalls) < MaxRayCalls
    /\ \E kind \in Kinds, v \in Vars :
         /\ kind \in Private => v \in Allocas
         /\ \A i \in 1..Len(rayCalls) :
              rayCalls[i].var = v /\ {kind, rayCalls[i].kind} \cap Private # {}
                  => Emitted[kind].class = Emitted[rayCalls[i].kind].class
         /\ rayCalls' = Append(rayCalls, [kind |-> kind, var |-> v])
    /\ UNCHANGED <<rayPhase, rayAt, storage, copied, source, memory, scratch, misplaced, misread>>

RayCall == rayCalls[rayAt]
Wanted == Emitted[RayCall.kind].class

\* The alloca already has the class of another use.
Conflict == storage[RayCall.var] # "Function" /\ storage[RayCall.var] # Wanted

\* update_storage_class and mark_alloca_variable.
UpdateStorageClass ==
    /\ rayPhase = "analyse" /\ rayAt <= Len(rayCalls)
    /\ IF RayCall.var \notin Allocas THEN UNCHANGED <<storage, copied>>
       ELSE IF Conflict
       THEN /\ storage' = [storage EXCEPT ![RayCall.var] = "Function"]
            /\ copied' = copied \union {RayCall.var}
       ELSE /\ storage' = IF RayCall.var \in copied THEN storage
                          ELSE [storage EXCEPT ![RayCall.var] = Wanted]
            /\ UNCHANGED copied
    /\ rayAt' = rayAt + 1
    /\ UNCHANGED <<rayCalls, rayPhase, source, memory, scratch, misplaced, misread>>

\* get_needs_temp_storage_copy.
NeedsTempStorageCopy(v) == v \notin Allocas \/ v \in copied

\* emit_temp_storage_copy before the operation, the called shader, and
\* emit_temp_storage_resolve after it.
RunCall ==
    /\ rayPhase = "run" /\ rayAt <= Len(rayCalls)
    /\ LET op == Emitted[RayCall.kind]
           v == RayCall.var
           temp == op.copies /\ NeedsTempStorageCopy(v)
           after == IF op.writes THEN rayAt ELSE memory[v]
       IN  /\ misplaced' = (misplaced \/ (~temp /\ (v \in Pointers \/ storage[v] # op.class)))
           /\ misread' = (misread \/ memory[v] # source[v])
           /\ source' = [source EXCEPT ![v] = IF op.writes THEN rayAt ELSE @]
           /\ scratch' = IF temp THEN [scratch EXCEPT ![op.class] = after] ELSE scratch
           /\ memory' = IF ~temp \/ op.resolves THEN [memory EXCEPT ![v] = after] ELSE memory
    /\ rayAt' = rayAt + 1
    /\ UNCHANGED <<rayCalls, rayPhase, storage, copied>>

NextRayPhase ==
    /\ \/ rayPhase = "write" /\ rayCalls # <<>> /\ rayPhase' = "analyse"
       \/ rayPhase = "analyse" /\ rayAt > Len(rayCalls) /\ rayPhase' = "run"
    /\ rayAt' = 1
    /\ UNCHANGED <<rayCalls, storage, copied, source, memory, scratch, misplaced, misread>>

RPInit ==
    /\ rayCalls = <<>> /\ rayPhase = "write" /\ rayAt = 1
    /\ storage = [v \in Allocas |-> "Function"] /\ copied = {}
    /\ source = [v \in Vars |-> 0] /\ memory = source
    /\ scratch = [c \in Classes |-> 0] /\ misplaced = FALSE /\ misread = FALSE

RPNext == WriteRayCall \/ UpdateStorageClass \/ RunCall \/ NextRayPhase
RPSpec == RPInit /\ [][RPNext]_rayVars

-----------------------------------------------------------------------------
\* Whatever mixture of calls uses a variable, and whichever of them the analysis
\* met first, every operation is given a variable of the class it needs, the
\* called shader reads what the DXIL shader put there, and what it writes is
\* in the variable after the call (emit_temp_storage_copy, _resolve).
PayloadsKept == ~misplaced /\ ~misread /\ memory = source
=============================================================================
