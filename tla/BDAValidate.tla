---------------------------- MODULE BDAValidate ----------------------------
(***************************************************************************)
(* The buffer synchronization validation that dxil-spirv emits into a      *)
(* shader (spirv_module_instrumentation.cpp): ValidateBDALoadStore, called *)
(* before every access to a buffer, and AllocateInvocationID.              *)
(*                                                                         *)
(* An access is recorded in a bloom filter: its 16-byte window hashes to   *)
(* several cells, and in each of them an atomic or marks, for the bytes    *)
(* and words it touches, the operations that are a hazard from now on.     *)
(* What every cell had marked before tells whether the access races with   *)
(* an earlier one.  An invocation that was the first to touch its bytes    *)
(* leaves a lock derived from its id, by which it recognises its own       *)
(* marks later.                                                            *)
(*                                                                         *)
(* The atomics are relaxed: those of one call reach memory in any order,   *)
(* except that the lock atomics depend on the outcome of the first ones.   *)
(***************************************************************************)
EXTENDS Integers, FiniteSets

CONSTANTS
  Accessors,
  Accesses,      \* the accesses shaders may make: see AccessType
  Windows,       \* 16-byte windows of the address space
  WindowBytes,   \* 16
  WordBytes,     \* 4
  NumHashes,     \* 16
  NumLockHashes, \* 8
  AddrHash,      \* AddrHash[<<w, h>>]: the h-th hash of a window
  BufferLen,     \* length of BloomBuffer in 64-bit cells
  UintRange,     \* number of values of a 32-bit word
  IdStep,        \* 1103633207: distance of successive invocation ids
  MaxAccesses    \* bound: accesses of an invocation

Ops    == {"Load", "Store", "AtomicRMW", "IndirectRead"}
Hashes == 0 .. NumHashes - 1
LockHashes == 0 .. NumLockHashes - 1
Bytes  == 0 .. WindowBytes - 1
WindowWords  == 0 .. (WindowBytes \div WordBytes) - 1

AccessType ==
  [window : Windows, first : Bytes, len : 1 .. WindowBytes, op : Ops,
   in_bounds : BOOLEAN]

ASSUME BDAConstants ==
  /\ WindowBytes \in Nat \ {0} /\ WordBytes \in Nat \ {0}
  /\ WindowBytes % WordBytes = 0
  /\ NumHashes \in Nat \ {0} /\ NumLockHashes \in 1 .. NumHashes
  /\ Accesses \subseteq AccessType /\ Accesses # {}
  /\ AddrHash \in [Windows \X Hashes -> Nat]
  /\ UintRange \in Nat \ {0} /\ BufferLen \in 3 .. UintRange /\ IdStep \in Nat
  /\ MaxAccesses \in Nat

VARIABLES
  cells,       \* BloomBuffer without its last cell
  id_counter,  \* the last word of the buffer
  id,          \* per invocation: its id, or NoId
  point, acc,     \* per invocation: the current or last access
  todo,        \* per invocation: hashes whose atomic is still to come
  prev_hazard,        \* per invocation: the marks that every cell had (prev_hazard)
  exclusive,   \* per invocation: has_exclusive_access
  self_lock,   \* per invocation: has_complete_self_lock
  verdict,     \* per invocation: the value returned
  count,       \* per invocation: accesses begun
  begun,       \* history: <<invocation, access>> begun
  finished,    \* history: <<invocation, access>> returned
  owners,      \* history: <<invocation, window>> that had exclusive access
  past         \* history, per invocation: finished and owners at the call

accessVars == <<point, acc, todo, prev_hazard, exclusive, self_lock, verdict>>
histVars == <<count, begun, finished, owners, past>>
bdaVars == <<cells, id_counter, id, accessVars, histVars>>

NoId == -1

-----------------------------------------------------------------------------
(* The cells of a window.                                                  *)

\* GLSLstd450FindUMsb.
FindUMsb(n) == CHOOSE k \in 0 .. n : 2 ^ k <= n /\ n < 2 ^ (k + 1)

\* build_hash_mask, as the number of values it lets through.
HashRange == 2 ^ FindUMsb(BufferLen)

\* The host's side of the layout (external): the buffer is longer than the power
\* of two that is hashed over.  build_hash_offset counts on it when it takes 1
\* for the cell at the end.
ASSUME BDABuffer == HashRange \in 1 .. BufferLen /\ BufferLen % HashRange # 0

\* build_hash_offset: the bits below the top one, minus 1, modulo 2^32.
HashOffset == ((BufferLen % HashRange) - 1) % UintRange

Cell(w, h) == ((AddrHash[<<w, h>>] % HashRange) + HashOffset) % UintRange

\* The last cell holds the dispatch cookie and the invocation counter.
Cells == 0 .. BufferLen - 2

-----------------------------------------------------------------------------
(* Masks.                                                                  *)

\* build_byte_mask: bytes past the window are dropped.
ByteMask(a) == {b \in Bytes : a.first <= b /\ b < a.first + a.len}

\* build_word_mask.
WordMask(a) ==
  LET base == a.first \div WordBytes
      n    == ((a.first % WordBytes) + a.len + WordBytes - 1) \div WordBytes
  IN  {w \in WindowWords : base <= w /\ w < base + n}

\* Loads and stores are marked by byte, the other two by word.
MarkRange(o) == IF o \in {"Load", "Store"} THEN Bytes ELSE WindowWords

NoMarks  == [o \in Ops |-> {}]
AllMarks == [o \in Ops |-> MarkRange(o)]

\* Mutant: a load forgets to invalidate atomics.
LoadInvalidatesStores ==
  [Load |-> {"Store"}, Store |-> Ops,
   AtomicRMW |-> {"Load", "Store", "IndirectRead"}, IndirectRead |-> {"Store"}]

\* invalidation_masks: the operations that are a hazard after an operation.
Invalidates ==
  [Load         |-> {"Store", "AtomicRMW"},
   Store        |-> Ops,
   AtomicRMW    |-> {"Load", "Store", "IndirectRead"},
   IndirectRead |-> {"Store", "AtomicRMW"}]

MarkOf(a, o) == IF o \in {"Load", "Store"} THEN ByteMask(a) ELSE WordMask(a)

\* build_get_invalidation_mask.
InvalidationMask(a) ==
  [o \in Ops |-> IF o \in Invalidates[a.op] THEN MarkOf(a, o) ELSE {}]

\* The three 3-bit fields of the invocation id that select the lock bits of a
\* lock hash.
BaseBit(h) ==
  LET Least(m, n) == IF m <= n THEN m ELSE n
  IN  IF h < 4 THEN Least(9 * h, 23) ELSE Least(8 * (h % 4) + 1, 22)

LockMask(n, h) == {<<j, (n \div 2 ^ (BaseBit(h) + 3 * j)) % 8>> : j \in 0 .. 2}

-----------------------------------------------------------------------------
(* AllocateInvocationID and ValidateBDALoadStore.                          *)

AllocateInvocationID(i) ==
  /\ id[i] = NoId
  /\ id' = [id EXCEPT ![i] = id_counter]
  /\ id_counter' = (id_counter + IdStep) % UintRange
  /\ UNCHANGED <<cells, accessVars, histVars>>

\* An access that is out of bounds returns true at once.
BeginAccess(i, a) ==
  /\ id[i] # NoId
  /\ point[i] = "run"
  /\ count[i] < MaxAccesses
  /\ count' = [count EXCEPT ![i] = @ + 1]
  /\ acc' = [acc EXCEPT ![i] = a]
  /\ IF a.in_bounds
       THEN /\ point' = [point EXCEPT ![i] = "mark"]
            /\ todo' = [todo EXCEPT ![i] = Hashes]
            /\ prev_hazard' = [prev_hazard EXCEPT ![i] = AllMarks]
            /\ verdict' = [verdict EXCEPT ![i] = "none"]
            /\ begun' = begun \cup {<<i, a>>}
            /\ past' = [past EXCEPT ![i] = [finished |-> finished, owners |-> owners]]
       ELSE /\ verdict' = [verdict EXCEPT ![i] = "pass"]
            /\ UNCHANGED <<point, todo, prev_hazard, begun, past>>
  /\ UNCHANGED <<cells, id_counter, id, exclusive, self_lock, finished, owners>>

\* One of the 64-bit atomic ors; its result is anded into prev_hazard.
MarkCell(i, h) ==
  /\ point[i] = "mark"
  /\ h \in todo[i]
  /\ LET c == Cell(acc[i].window, h)
     IN  /\ prev_hazard' = [prev_hazard EXCEPT ![i] = [o \in Ops |-> @[o] \cap cells[c].marks[o]]]
         /\ cells' = [cells EXCEPT ![c].marks =
                        [o \in Ops |-> @[o] \cup InvalidationMask(acc[i])[o]]]
  /\ todo' = [todo EXCEPT ![i] = @ \ {h}]
  /\ UNCHANGED <<id_counter, id, point, acc, exclusive, self_lock, verdict, histVars>>

\* build_takes_exclusive_ownership.
TakesExclusiveOwnership(i) == prev_hazard[i]["Store"] \cap ByteMask(acc[i]) = {}

EndMarking(i) ==
  /\ point[i] = "mark"
  /\ todo[i] = {}
  /\ exclusive' = [exclusive EXCEPT ![i] = TakesExclusiveOwnership(i)]
  /\ self_lock' = [self_lock EXCEPT ![i] = TRUE]
  /\ todo' = [todo EXCEPT ![i] = LockHashes]
  /\ point' = [point EXCEPT ![i] = "lock"]
  /\ owners' = IF TakesExclusiveOwnership(i)
                 THEN owners \cup {<<i, acc[i].window>>} ELSE owners
  /\ UNCHANGED <<cells, id_counter, id, acc, prev_hazard, verdict, count, begun,
                 finished, past>>

\* Mutant: the lock is never left behind.
NoLock(i, h) == {}

\* The bits a lock atomic sets: none without exclusive access.
LockBits(i, h) == IF exclusive[i] THEN LockMask(id[i], h) ELSE {}

\* One of the lock atomics.
LockCell(i, h) ==
  /\ point[i] = "lock"
  /\ h \in todo[i]
  /\ LET c == Cell(acc[i].window, h)
     IN  /\ self_lock' = [self_lock EXCEPT
                            ![i] = @ /\ LockMask(id[i], h) \subseteq cells[c].lock]
         /\ cells' = [cells EXCEPT ![c].lock = @ \cup LockBits(i, h)]
  /\ todo' = [todo EXCEPT ![i] = @ \ {h}]
  /\ UNCHANGED <<id_counter, id, point, acc, prev_hazard, exclusive, verdict, histVars>>

\* The switch on the type of the access.
Hazard(i) ==
  LET a == acc[i] IN prev_hazard[i][a.op] \cap MarkOf(a, a.op) # {}

\* The returned value is the operand of an AssumeTrue: FALSE is a report.
Return(i) ==
  /\ point[i] = "lock"
  /\ todo[i] = {}
  /\ verdict' = [verdict EXCEPT
                   ![i] = IF ~ Hazard(i) \/ self_lock[i] THEN "pass" ELSE "report"]
  /\ point' = [point EXCEPT ![i] = "run"]
  /\ finished' = finished \cup {<<i, acc[i]>>}
  /\ UNCHANGED <<cells, id_counter, id, acc, todo, prev_hazard, exclusive, self_lock,
                 count, begun, owners, past>>

-----------------------------------------------------------------------------

BDAInit ==
  /\ cells = [c \in Cells |-> [marks |-> NoMarks, lock |-> {}]]
  /\ id_counter = 0
  /\ id = [i \in Accessors |-> NoId]
  /\ point = [i \in Accessors |-> "run"]
  /\ acc \in [Accessors -> {CHOOSE a \in Accesses : TRUE}]
  /\ todo = [i \in Accessors |-> {}]
  /\ prev_hazard = [i \in Accessors |-> NoMarks]
  /\ exclusive = [i \in Accessors |-> FALSE]
  /\ self_lock = [i \in Accessors |-> FALSE]
  /\ verdict = [i \in Accessors |-> "none"]
  /\ count = [i \in Accessors |-> 0]
  /\ begun = {}
  /\ finished = {}
  /\ owners = {}
  /\ past = [i \in Accessors |-> [finished |-> {}, owners |-> {}]]

BDANext ==
  \E i \in Accessors :
    \/ AllocateInvocationID(i)
    \/ \E a \in Accesses : BeginAccess(i, a)
    \/ \E h \in Hashes : MarkCell(i, h)
    \/ EndMarking(i)
    \/ \E h \in LockHashes : LockCell(i, h)
    \/ Return(i)

BDASpec == BDAInit /\ [][BDANext]_bdaVars

-----------------------------------------------------------------------------
(* Properties.                                                             *)

\* The type of every variable; in particular every atomic of the filter hits a
\* cell of the buffer, and never the one with the invocation counter.
BDATypeOK ==
  /\ \A w \in Windows, h \in Hashes : Cell(w, h) \in Cells
  /\ cells \in [Cells -> [marks : [Ops -> SUBSET (Bytes \cup WindowWords)],
                          lock : SUBSET ((0 .. 2) \X (0 .. 7))]]
  /\ id_counter \in 0 .. UintRange - 1
  /\ id \in [Accessors -> {NoId} \cup (0 .. UintRange - 1)]
  /\ point \in [Accessors -> {"run", "mark", "lock"}]
  /\ acc \in [Accessors -> Accesses]
  /\ todo \in [Accessors -> SUBSET Hashes]
  /\ prev_hazard \in [Accessors -> [Ops -> SUBSET (Bytes \cup WindowWords)]]
  /\ exclusive \in [Accessors -> BOOLEAN] /\ self_lock \in [Accessors -> BOOLEAN]
  /\ verdict \in [Accessors -> {"none", "pass", "report"}]
  /\ count \in [Accessors -> 0 .. MaxAccesses]
  /\ begun \subseteq Accessors \X Accesses /\ finished \subseteq begun
  /\ owners \subseteq Accessors \X Windows
  /\ past \in [Accessors -> [finished : SUBSET (Accessors \X Accesses),
                             owners : SUBSET (Accessors \X Windows)]]

\* The reference: which pairs of operations are a race on common memory.
OpsConflict(o, p) ==
  ~ \/ {o, p} \subseteq {"Load", "IndirectRead"}
    \/ o = "AtomicRMW" /\ p = "AtomicRMW"

Overlap(a, b) == a.window = b.window /\ ByteMask(a) \cap ByteMask(b) # {}

\* A report is never made up: another invocation has accessed the window, and
\* some access to the window is a race with the reported one.  An invocation
\* alone, invocations that only read and invocations that only do atomics are
\* never reported.
ReportHasCause ==
  \A i \in Accessors : verdict[i] = "report" =>
    \E x, y \in begun :
      /\ x[1] # i /\ x[2].window = acc[i].window
      /\ y[2].window = acc[i].window /\ OpsConflict(y[2].op, acc[i].op)

\* The filter writes no cell but its own (build_hash_offset keeps it off the
\* dispatch cookie and the invocation counter), and no report is made up.
FilterSound == BDATypeOK /\ ReportHasCause

\* Lock cell h of the window of invocation i's access cannot show i's lock: i
\* left no lock in that cell before, and the locks of the others do not add up
\* to it.
LockIsAbsent(i, h) ==
  /\ \A w \in Windows, g \in LockHashes :
       <<i, w>> \in past[i].owners => Cell(w, g) # Cell(acc[i].window, h)
  /\ ~ LockMask(id[i], h) \subseteq
         UNION {LockMask(id[p[1]], p[2]) :
                  p \in {j \in Accessors \ {i} : id[j] # NoId} \X LockHashes}

\* An access that returned before i's began is a race with it.
RacesWithPast(i) ==
  \E x \in past[i].finished :
    x[1] # i /\ Overlap(x[2], acc[i]) /\ OpsConflict(x[2].op, acc[i].op)

\* A race with an access that returned before this one began is reported,
\* unless this invocation had exclusive access in the window before.
EarlierRaceIsReported ==
  \A i \in Accessors :
    /\ point[i] = "run" /\ verdict[i] # "none" /\ acc[i].in_bounds
    /\ \E h \in LockHashes : LockIsAbsent(i, h)
    /\ RacesWithPast(i)
    => verdict[i] = "report"

\* The comment on has_exclusive_access: ownership of a byte region means that
\* there is no overlap, so no two invocations own a byte at the same time.
ExclusiveIsExclusive ==
  \A i, j \in Accessors :
    /\ i # j /\ point[i] = "lock" /\ point[j] = "lock" /\ exclusive[i] /\ exclusive[j]
    => ~ Overlap(acc[i], acc[j])

=============================================================================
