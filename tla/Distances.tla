----------------------------- MODULE Distances -----------------------------
(***************************************************************************)
(* How a distance is computed: the dispatchers of                          *)
(* include/flatnav/distances/{L2,IP}DistanceDispatcher.h, the detection of *)
(* the machine in util/Macros.h, and the SIMD kernels of                   *)
(* util/{SquaredL2,InnerProduct}SimdExtensions.h with the registers of     *)
(* util/SimdUtils.h.                                                       *)
(*                                                                         *)
(* Threads compute one distance each, on vectors of the same index.  The   *)
(* first of them find out what the machine supports and cache it in        *)
(* atomics.  A kernel is a chain of loops that read blocks of coordinates. *)
(*                                                                         *)
(* The numbers are abstracted to what is summed: coordinate c contributes  *)
(* a term, (x[c]-y[c])^2 or x[c]*y[c], and a sum says how often it holds   *)
(* each term.  Rounding is left out, and so is the order of a sum.         *)
(*                                                                         *)
(* A definition marked "Faulty" stands before the one it distorts and is   *)
(* used nowhere else.                                                      *)
(***************************************************************************)
EXTENDS Integers, Sequences

CONSTANTS
    Threads,     \* threads that compute a distance
    Dimensions   \* the dimensions an index may have

ASSUME DimensionsAssumption == Dimensions \subseteq Nat

Builds  == {"plain", "sse", "avx", "avx512"}   \* the widest of USE_SSE, USE_AVX, USE_AVX512
\* Whether AVX works, and what the processor has beyond it.
Machines ==
    {m \in [avx : BOOLEAN, avx512f : BOOLEAN, avx512bw : BOOLEAN] : m.avx512bw => m.avx512f}
Metrics == {"L2", "IP"}
Types   == {"float32", "int8", "uint8"}

VARIABLES
    build, machine,              \* what was compiled in, what the machine supports
    metric, type, dimension,     \* of the index
    avxSupport, avx512Support,   \* avx_support_cache, avx_512_support_cache
    avxReady, avx512Ready,       \* avx_initialized, avx_512_initialized
    pc,                          \* where each thread stands
    level,                       \* the branch of the dispatcher it is in
    probed,                      \* avx512Support of initializePlatformSupport
    kernel, stage,               \* the kernel chosen and the loop it is in
    at,                          \* coordinates read so far (pointer_x - x)
    acc,                         \* sum: what each lane of the register holds
    total                        \* the sum outside the register

setup == <<build, machine, metric, type, dimension>>
cache == <<avxSupport, avx512Support, avxReady, avx512Ready>>
work  == <<kernel, stage, at, acc, total>>
vars  == <<setup, cache, pc, level, probed, work>>

Coords == 0 .. dimension - 1

Goto(t, label) == pc' = [pc EXCEPT ![t] = label]

-----------------------------------------------------------------------------
(* Kernels. *)

\* A loop reads blocks of step coordinates up to the last multiple of align and
\* adds them to so many lanes: while (pointer_x != end_x), for (i < dimension).
Blocks(step, align, lanes) == [step |-> step, align |-> align, lanes |-> lanes]

Scalar == Blocks(1, 1, 1)

\* The kernels: the loops of each function.  Those with a residual call another.
computeL2_Avx512       == <<Blocks(16, 16, 16)>>
computeL2_Avx512_Uint8 == <<Blocks(64, 1, 16)>>
computeL2_Avx2         == <<Blocks(16, 8, 8)>>
computeL2_Sse          == <<Blocks(16, 16, 4)>>
computeL2_Sse4Aligned  == <<Blocks(4, 4, 4)>>
computeL2_SseWithResidual_16 == <<computeL2_Sse[1], Scalar>>
computeL2_SseWithResidual_4  == <<computeL2_Sse4Aligned[1], Scalar>>

computeIP_Avx512       == <<Blocks(16, 16, 16)>>
computeIP_Avx          == <<Blocks(16, 16, 8)>>
computeIP_Avx_4aligned == <<Blocks(8, 16, 8), Blocks(4, 4, 4)>>
computeIP_Sse          == <<Blocks(16, 16, 4)>>
computeIP_Sse_4aligned == <<Blocks(16, 16, 4), Blocks(4, 4, 4)>>
computeIP_SseWithResidual_16 == <<computeIP_Sse[1], Scalar>>
computeIP_SseWithResidual_4  == <<computeIP_Sse_4aligned[1], computeIP_Sse_4aligned[2], Scalar>>

\* defaultSquaredL2 and defaultInnerProduct are one loop over all coordinates.
Loops(k) ==
    CASE k = "computeL2_Avx512"             -> computeL2_Avx512
      [] k = "computeL2_Avx512_Uint8"       -> computeL2_Avx512_Uint8
      [] k = "computeL2_Avx2"               -> computeL2_Avx2
      [] k = "computeL2_Sse"                -> computeL2_Sse
      [] k = "computeL2_Sse4Aligned"        -> computeL2_Sse4Aligned
      [] k = "computeL2_SseWithResidual_16" -> computeL2_SseWithResidual_16
      [] k = "computeL2_SseWithResidual_4"  -> computeL2_SseWithResidual_4
      [] k = "computeIP_Avx512"             -> computeIP_Avx512
      [] k = "computeIP_Avx"                -> computeIP_Avx
      [] k = "computeIP_Avx_4aligned"       -> computeIP_Avx_4aligned
      [] k = "computeIP_Sse"                -> computeIP_Sse
      [] k = "computeIP_Sse_4aligned"       -> computeIP_Sse_4aligned
      [] k = "computeIP_SseWithResidual_16" -> computeIP_SseWithResidual_16
      [] k = "computeIP_SseWithResidual_4"  -> computeIP_SseWithResidual_4
      [] OTHER                              -> <<Scalar>>

\* end_x - x: dimension >> s << s.
LoopEnd(loop) == (dimension \div loop.align) * loop.align

\* The blocks of the loop end where it looks for its end.  Otherwise the last
\* one goes past the vectors, and a loop that compares with != goes on.
Fits(loop, p) == p <= LoopEnd(loop) /\ (LoopEnd(loop) - p) % loop.step = 0

\* The lane the i-th coordinate of a block goes to.  The bytes of the uint8
\* kernel are unpacked within each 128 bits and added in pairs.
Lane(loop, i) ==
    IF loop.step = 64 THEN (i \div 16) * 4 + (i % 8) \div 2 ELSE i % loop.lanes

-----------------------------------------------------------------------------
(* Sums of terms: a lane maps each coordinate to how often it was added, and *)
(* a result has a constant part besides.                                     *)

Zero == [c \in Coords |-> 0]
Plus(f, g) == [c \in Coords |-> f[c] + g[c]]

\* Faulty: one lane short.
RegisterShort(lanes) == [l \in 0 .. lanes - 2 |-> Zero]

Register(lanes) == [l \in 0 .. lanes - 1 |-> Zero]

\* _mm256_hadd_ps and _mm_hadd_ps add neighbors within each 128 bits.
Hadd(r) == [l \in DOMAIN r |->
    LET first == (l \div 4) * 4 + 2 * (l % 2) IN Plus(r[first], r[first + 1])]

\* The lower half plus the upper half: get_low() + get_high(),
\* _mm512_extracti64x4_epi64.
Fold(r, half) == [l \in 0 .. half - 1 |-> Plus(r[l], r[l + half])]

\* reduce_add: two horizontal additions leave the sum of each 128 bits in
\* their first lane.
ReduceAdd(lanes, r) ==
    CASE lanes = 1  -> r[0]
      [] lanes = 4  -> Hadd(Hadd(r))[0]
      [] lanes = 8  -> Plus(Hadd(Hadd(r))[0], Hadd(Hadd(r))[4])
      [] lanes = 16 -> LET h == Hadd(Hadd(Fold(r, 8))) IN Plus(h[0], h[4])

Form(k, f) == [one |-> k, coef |-> f]
MinusOne(f) == [f EXCEPT !.one = @ - 1]
TimesMinusOne(f) == Form(-f.one, [c \in Coords |-> -f.coef[c]])

\* What a kernel returns of its sum: an inner product is subtracted from 1.
Returned(f) ==
    IF metric = "L2" THEN f ELSE Form(1 - f.one, [c \in Coords |-> -f.coef[c]])

\* Faulty: the 1 of the kernel that was called stays in the sum.
TakenBackHalf(f) == IF metric = "L2" THEN f ELSE TimesMinusOne(f)

\* The kernels with a residual take that back from what they call.
TakenBack(f) == IF metric = "L2" THEN f ELSE TimesMinusOne(MinusOne(f))

-----------------------------------------------------------------------------
(* Dispatch. *)

\* The comparisons every level of computeDistance<float> makes.
Pick(k16, k4, r16, r4) ==
    IF dimension % 16 = 0 THEN k16
    ELSE IF dimension % 4 = 0 THEN k4
    ELSE IF dimension > 16 THEN r16
    ELSE IF dimension > 4 THEN r4
    ELSE "none"

SquaredL2Float(l) ==
    Pick(CASE l = "avx512" -> "computeL2_Avx512"
           [] l = "avx"    -> "computeL2_Avx2"
           [] OTHER        -> "computeL2_Sse",
         "computeL2_Sse4Aligned", "computeL2_SseWithResidual_16", "computeL2_SseWithResidual_4")

InnerProductFloat(l) ==
    Pick(CASE l = "avx512" -> "computeIP_Avx512"
           [] l = "avx"    -> "computeIP_Avx"
           [] OTHER        -> "computeIP_Sse",
         IF l = "sse" THEN "computeIP_Sse_4aligned" ELSE "computeIP_Avx_4aligned",
         "computeIP_SseWithResidual_16", "computeIP_SseWithResidual_4")

\* Faulty: any dimension is taken.
SquaredL2AnyUint8(l) == IF l = "avx512" THEN "computeL2_Avx512_Uint8" ELSE "none"

SquaredL2Uint8(l) ==
    IF l = "avx512" /\ dimension % 64 = 0 THEN "computeL2_Avx512_Uint8" ELSE "none"

\* The specializations of computeDistance.  That of L2 for int8_t asks for
\* USE_SSE_4_1, where Macros.h defines USE_SSE4_1.
Kernel(l) ==
    CASE type = "float32" /\ metric = "L2" -> SquaredL2Float(l)
      [] type = "float32" /\ metric = "IP" -> InnerProductFloat(l)
      [] type = "uint8" /\ metric = "L2"   -> SquaredL2Uint8(l)
      [] OTHER                             -> "none"

\* The level the preprocessor leaves a type to start with.
FirstLevel ==
    IF type = "float32" \/ (type = "uint8" /\ metric = "L2" /\ build = "avx512")
    THEN build ELSE "plain"

NextLevel(l) ==
    CASE l = "avx512" /\ type = "float32" -> "avx"
      [] l = "avx" -> "sse"
      [] OTHER -> "plain"

Init ==
    /\ build \in Builds
    /\ machine \in Machines
    /\ metric \in Metrics /\ type \in Types /\ dimension \in Dimensions
    /\ avxSupport = FALSE /\ avx512Support = FALSE
    /\ avxReady = FALSE /\ avx512Ready = FALSE
    /\ pc = [t \in Threads |-> "dispatch"]
    /\ level = [t \in Threads |-> FirstLevel]
    /\ probed = [t \in Threads |-> FALSE]
    /\ kernel = [t \in Threads |-> "none"]
    /\ stage = [t \in Threads |-> 1]
    /\ at = [t \in Threads |-> 0]
    /\ acc = [t \in Threads |-> <<>>]
    /\ total = [t \in Threads |-> Form(0, Zero)]

Enter(t, k) ==
    /\ kernel' = [kernel EXCEPT ![t] = k]
    /\ acc' = [acc EXCEPT ![t] = Register(Loops(k)[1].lanes)]
    /\ Goto(t, "loop")

\* The levels that need the machine ask for it first: platformSupportsAvx512,
\* platformSupportsAvx.
Ask(t) ==
    /\ pc[t] = "dispatch"
    /\ level[t] \in {"avx512", "avx"}
    /\ Goto(t, IF (level[t] = "avx512" /\ avx512Ready) \/ (level[t] = "avx" /\ avxReady)
               THEN "read" ELSE "initAvx")
    /\ UNCHANGED <<setup, cache, level, probed, work>>

\* The value of the cache, and the kernel of the level or the next level.
ReadSupport(t) ==
    /\ pc[t] = "read"
    /\ LET supported == IF level[t] = "avx512" THEN avx512Support ELSE avxSupport
       IN  IF supported /\ Kernel(level[t]) # "none"
           THEN Enter(t, Kernel(level[t])) /\ UNCHANGED level
           ELSE /\ level' = [level EXCEPT ![t] = NextLevel(@)]
                /\ Goto(t, "dispatch")
                /\ UNCHANGED <<kernel, acc>>
    /\ UNCHANGED <<setup, cache, probed, stage, at, total>>

\* The level nobody is asked about.
DispatchSse(t) ==
    /\ pc[t] = "dispatch"
    /\ level[t] = "sse"
    /\ IF Kernel("sse") # "none"
       THEN Enter(t, Kernel("sse")) /\ UNCHANGED level
       ELSE level' = [level EXCEPT ![t] = "plain"] /\ UNCHANGED <<pc, kernel, acc>>
    /\ UNCHANGED <<setup, cache, probed, stage, at, total>>

\* Control reaches the end of SquaredL2Impl<float>::computeDistance, whose
\* return of defaultSquaredL2 is compiled only without USE_SSE.
FallsOff(t) == metric = "L2" /\ type = "float32" /\ build # "plain"

DispatchDefault(t) ==
    /\ pc[t] = "dispatch"
    /\ level[t] = "plain"
    /\ IF FallsOff(t)
       THEN Goto(t, "fell") /\ UNCHANGED <<kernel, acc>>
       ELSE Enter(t, "default")
    /\ UNCHANGED <<setup, cache, level, probed, stage, at, total>>

-----------------------------------------------------------------------------
(* initializePlatformSupport: one step per access to an atomic. *)

InitAvx(t) ==
    /\ pc[t] = "initAvx"
    /\ Goto(t, IF avxReady THEN "init512" ELSE "storeAvx")
    /\ UNCHANGED <<setup, cache, level, probed, work>>

\* Faulty: the flag is raised before the value is in the cache.
StoreAvxLate(t) ==
    /\ pc[t] = "storeAvx"
    /\ IF avxReady
       THEN avxSupport' = machine.avx /\ Goto(t, "readyAvx") /\ UNCHANGED avxReady
       ELSE avxReady' = TRUE /\ UNCHANGED <<avxSupport, pc>>
    /\ UNCHANGED <<setup, avx512Support, avx512Ready, level, probed, work>>

\* avx_support_cache.store, with what cpuid and xgetbv say.
StoreAvx(t) ==
    /\ pc[t] = "storeAvx"
    /\ avxSupport' = machine.avx
    /\ Goto(t, "readyAvx")
    /\ UNCHANGED <<setup, avx512Support, avxReady, avx512Ready, level, probed, work>>

\* avx_initialized.store
ReadyAvx(t) ==
    /\ pc[t] = "readyAvx"
    /\ avxReady' = TRUE
    /\ Goto(t, "init512")
    /\ UNCHANGED <<setup, avxSupport, avx512Support, avx512Ready, level, probed, work>>

Init512(t) ==
    /\ pc[t] = "init512"
    /\ Goto(t, IF avx512Ready THEN "read" ELSE "probe512")
    /\ UNCHANGED <<setup, cache, level, probed, work>>

\* AVX512 counts only where avx_support_cache says AVX works.  Bit 16 of leaf 7
\* is AVX512F; nobody asks for AVX512BW.
Probe512(t) ==
    /\ pc[t] = "probe512"
    /\ probed' = [probed EXCEPT ![t] = avxSupport /\ machine.avx512f]
    /\ Goto(t, "store512")
    /\ UNCHANGED <<setup, cache, level, work>>

Store512(t) ==
    /\ pc[t] = "store512"
    /\ avx512Support' = probed[t]
    /\ Goto(t, "ready512")
    /\ UNCHANGED <<setup, avxSupport, avxReady, avx512Ready, level, probed, work>>

\* avx_512_initialized.store
Ready512(t) ==
    /\ pc[t] = "ready512"
    /\ avx512Ready' = TRUE
    /\ Goto(t, "read")
    /\ UNCHANGED <<setup, avxSupport, avx512Support, avxReady, level, probed, work>>

-----------------------------------------------------------------------------
(* Inside a kernel: one step for a loop.  The vectors do not change, so no    *)
(* thread could see another in the middle of one.                            *)

Loop(t) == Loops(kernel[t])[stage[t]]

\* The register after the loop: the block of a coordinate begins at a multiple
\* of step after the pointer.
Added(r, loop, p) == [l \in DOMAIN r |-> [c \in Coords |->
    IF p <= c /\ c < LoopEnd(loop) /\ Lane(loop, (c - p) % loop.step) = l
    THEN r[l][c] + 1 ELSE r[l][c]]]

\* What the instructions of a kernel need of the machine.
Needs(k) ==
    CASE k \in {"computeL2_Avx2", "computeIP_Avx", "computeIP_Avx_4aligned"} -> {"avx"}
      [] k \in {"computeL2_Avx512", "computeIP_Avx512"} -> {"avx", "avx512f"}
      [] k = "computeL2_Avx512_Uint8" -> {"avx", "avx512f", "avx512bw"}
      [] OTHER -> {}

\* A loop that has a block to read runs its instructions.
CanRun(t) ==
    at[t] < LoopEnd(Loop(t)) => \A feature \in Needs(kernel[t]) : machine[feature]

\* The machine stops the process at an instruction it does not have.
Stop(t) ==
    /\ pc[t] = "loop" /\ ~CanRun(t)
    /\ Goto(t, "stopped")
    /\ UNCHANGED <<setup, cache, level, probed, work>>

RunLoop(t) ==
    /\ pc[t] = "loop" /\ CanRun(t)
    /\ IF Fits(Loop(t), at[t])
       THEN /\ acc' = [acc EXCEPT ![t] = Added(@, Loop(t), at[t])]
            /\ at' = [at EXCEPT ![t] = LoopEnd(Loop(t))]
            /\ Goto(t, "looped")
       ELSE Goto(t, "overread") /\ UNCHANGED <<at, acc>>
    /\ UNCHANGED <<setup, cache, level, probed, kernel, stage, total>>

\* From one loop to the next: a narrower register takes the folded sum, and a
\* residual loop starts after the body has returned.
NextLoop(t) ==
    /\ pc[t] = "looped"
    /\ stage[t] < Len(Loops(kernel[t]))
    /\ LET next == Loops(kernel[t])[stage[t] + 1]
       IN  IF next.lanes = 1
           THEN /\ total' = [total EXCEPT ![t] = TakenBack(Returned(Form(0, ReduceAdd(Loop(t).lanes, acc[t]))))]
                /\ acc' = [acc EXCEPT ![t] = Register(1)]
           ELSE /\ acc' = [acc EXCEPT ![t] = IF next.lanes < Loop(t).lanes THEN Fold(@, next.lanes) ELSE @]
                /\ UNCHANGED total
    /\ stage' = [stage EXCEPT ![t] = @ + 1]
    /\ Goto(t, "loop")
    /\ UNCHANGED <<setup, cache, level, probed, kernel, at>>

\* The return: what was summed before, and the register of the last loop.
Return(t) ==
    /\ pc[t] = "looped"
    /\ stage[t] = Len(Loops(kernel[t]))
    /\ total' = [total EXCEPT ![t] =
                    Returned(Form(@.one, Plus(@.coef, ReduceAdd(Loop(t).lanes, acc[t]))))]
    /\ acc' = [acc EXCEPT ![t] = <<>>]
    /\ Goto(t, "done")
    /\ UNCHANGED <<setup, cache, level, probed, kernel, stage, at>>

Step(t) ==
    \/ Ask(t) \/ ReadSupport(t) \/ DispatchSse(t) \/ DispatchDefault(t)
    \/ InitAvx(t) \/ StoreAvx(t) \/ ReadyAvx(t)
    \/ Init512(t) \/ Probe512(t) \/ Store512(t) \/ Ready512(t)
    \/ Stop(t) \/ RunLoop(t) \/ NextLoop(t) \/ Return(t)

Next == \E t \in Threads : Step(t)

Spec == Init /\ [][Next]_vars

-----------------------------------------------------------------------------
(* Properties. *)

Labels == {"dispatch", "read", "initAvx", "storeAvx", "readyAvx", "init512", "probe512",
           "store512", "ready512", "loop", "looped", "done", "fell", "overread", "stopped"}

KernelNames ==
    {"none", "default", "computeL2_Avx512", "computeL2_Avx512_Uint8", "computeL2_Avx2",
     "computeL2_Sse", "computeL2_Sse4Aligned", "computeL2_SseWithResidual_16",
     "computeL2_SseWithResidual_4", "computeIP_Avx512", "computeIP_Avx", "computeIP_Avx_4aligned",
     "computeIP_Sse", "computeIP_Sse_4aligned", "computeIP_SseWithResidual_16",
     "computeIP_SseWithResidual_4"}

\* The lanes of a thread's register; outside a kernel it has none.
RegisterLanes(t) == IF pc[t] \in {"loop", "looped", "overread", "stopped"} THEN 0 .. Loop(t).lanes - 1 ELSE {}

\* The loop a thread is in is one of its kernel's, and its register has the
\* width of that loop.
TypeOK ==
    /\ build \in Builds /\ machine \in Machines
    /\ metric \in Metrics /\ type \in Types /\ dimension \in Dimensions
    /\ avxSupport \in BOOLEAN /\ avx512Support \in BOOLEAN
    /\ avxReady \in BOOLEAN /\ avx512Ready \in BOOLEAN
    /\ pc \in [Threads -> Labels]
    /\ level \in [Threads -> Builds]
    /\ probed \in [Threads -> BOOLEAN]
    /\ kernel \in [Threads -> KernelNames]
    /\ stage \in [Threads -> Nat] /\ \A t \in Threads : stage[t] \in 1 .. Len(Loops(kernel[t]))
    /\ at \in [Threads -> Nat]
    /\ \A t \in Threads : acc[t] \in [RegisterLanes(t) -> [Coords -> Nat]]
    /\ total \in [Threads -> [one : Int, coef : [Coords -> Int]]]

\* Whatever kernel the build, the machine and the dimension lead to, it counts
\* every coordinate exactly once, in whatever lane, as the loops of
\* defaultSquaredL2 and defaultInnerProduct do, and an inner product is
\* subtracted from 1 exactly once.
DistanceIsDefault ==
    \A t \in Threads : pc[t] = "done" =>
        total[t] = Returned(Form(0, [c \in Coords |-> 1]))

\* Nothing is read past the end of a vector, though several kernels assume a
\* dimension they do not test, and every dispatch finds a kernel, except that of
\* L2 between float vectors of one to three dimensions in a build with SSE.
UndefinedOnlyForTinyL2 ==
    \A t \in Threads :
        /\ pc[t] # "overread"
        /\ pc[t] = "fell" => metric = "L2" /\ type = "float32" /\ dimension \in 1 .. 3

Width(l) == CASE l = "avx512" -> 3 [] l = "avx" -> 2 [] l = "sse" -> 1 [] OTHER -> 0

\* The levels the build has and the machine is asked for: one may know AVX512
\* under a system that does not save the AVX registers.
Usable(l) ==
    /\ l # "plain" /\ Kernel(l) # "none"
    /\ Width(l) <= Width(FirstLevel)
    /\ l \in {"avx", "avx512"} => machine.avx
    /\ l = "avx512" => machine.avx512f

IsKernelOfTheMachine(k) ==
    \/ k = "default" /\ \A l \in Builds : ~Usable(l)
    \/ \E l \in Builds : /\ k = Kernel(l) /\ Usable(l)
                         /\ \A wider \in Builds : Usable(wider) => Width(wider) <= Width(l)

\* Every thread enters the kernel of the widest level that the machine is found
\* to support and that has one for the dimension, however the first questions
\* about the machine interleave; with another, equal vectors could get distances
\* that differ in their last bits.  And no instruction stops the process but one
\* of computeL2_Avx512_Uint8, which needs AVX512BW where AVX512F was asked for.
KernelOfTheMachine ==
    \A t \in Threads :
        /\ kernel[t] # "none" => IsKernelOfTheMachine(kernel[t])
        /\ pc[t] = "stopped" => type = "uint8" /\ machine.avx512f /\ ~machine.avx512bw

=============================================================================
