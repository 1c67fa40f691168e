-------------------------- MODULE DistancesProofs --------------------------
(***************************************************************************)
(* Every call of a distance enters the widest kernel the machine supports, *)
(* no kernel reads past a vector, and each returns the sum the plain loop  *)
(* would, for any number of threads and any dimension.                     *)
(*                                                                         *)
(* The caches hold nothing or what the machine supports; a thread that     *)
(* reads them knows that they hold the latter, from a flag or because it   *)
(* has stored it.  A thread gives a level up only if no kernel of that     *)
(* level can be used.  The dimension that led to a kernel makes the blocks *)
(* of each of its loops end where the loop does.                           *)
(*                                                                         *)
(* For the sum: the lanes of a register together hold each coordinate read *)
(* so far exactly once, a residual loop counts on from where the body      *)
(* stopped, and folding and horizontal addition lose nothing.              *)
(***************************************************************************)
EXTENDS Distances, TLAPS

Both == machine.avx /\ machine.avx512f

WellTyped ==
    /\ build \in Builds /\ metric \in Metrics /\ type \in Types /\ dimension \in Nat
    /\ machine \in Machines
    /\ avxSupport \in BOOLEAN /\ avx512Support \in BOOLEAN
    /\ avxReady \in BOOLEAN /\ avx512Ready \in BOOLEAN
    /\ pc \in [Threads -> Labels] /\ level \in [Threads -> Builds]
    /\ probed \in [Threads -> BOOLEAN] /\ kernel = [t \in Threads |-> kernel[t]]
    /\ stage \in [Threads -> Nat] /\ at \in [Threads -> Nat]

\* What the flags say of the caches.
CacheInv ==
    /\ avxReady \/ avx512Ready => avxSupport = machine.avx
    /\ avx512Ready => avx512Support = Both

\* What a thread knows of the caches when it comes to read them.
ProbeInv(t) ==
    /\ pc[t] \in {"read", "readyAvx", "init512", "probe512", "store512", "ready512"} =>
           avxSupport = machine.avx
    /\ pc[t] = "store512" => probed[t] = Both
    /\ pc[t] = "ready512" \/ (pc[t] = "read" /\ level[t] = "avx512") => avx512Support = Both

Asking == {"dispatch", "read", "initAvx", "storeAvx", "readyAvx", "init512", "probe512",
           "store512", "ready512"}

\* The levels wider than l are of no use.
NoneWiderThan(l) == \A m \in Builds : Usable(m) => Width(m) <= Width(l)

\* A thread that looks for a kernel has left no level it could have used.
LevelInv(t) ==
    pc[t] \in Asking =>
        /\ kernel[t] = "none" /\ stage[t] = 1 /\ at[t] = 0
        /\ pc[t] # "dispatch" => level[t] \in {"avx", "avx512"}
        /\ Width(level[t]) <= Width(FirstLevel)
        /\ NoneWiderThan(level[t])

\* Where a loop starts: at the end of the one before.
Start(k, s) == IF s = 1 THEN 0 ELSE LoopEnd(Loops(k)[s - 1])

LoopInv(t) ==
    /\ pc[t] \notin Asking \cup {"fell"} =>
           IsKernelOfTheMachine(kernel[t]) /\ stage[t] \in 1 .. Len(Loops(kernel[t]))
    /\ pc[t] = "loop" => at[t] = Start(kernel[t], stage[t])
    /\ pc[t] = "looped" => at[t] = LoopEnd(Loops(kernel[t])[stage[t]])
    /\ pc[t] = "fell" => kernel[t] = "none" /\ metric = "L2" /\ type = "float32" /\ dimension \in 1 .. 3
    /\ pc[t] = "stopped" => type = "uint8" /\ machine.avx512f /\ ~machine.avx512bw
    /\ pc[t] # "overread"

IInv ==
    /\ WellTyped
    /\ CacheInv
    /\ \A t \in Threads : ProbeInv(t) /\ LevelInv(t) /\ LoopInv(t)

-----------------------------------------------------------------------------
(* Facts about one setup. *)

Kernels16 == {"computeL2_Avx512", "computeL2_Avx2", "computeL2_Sse",
              "computeIP_Avx512", "computeIP_Avx", "computeIP_Sse"}
Kernels4  == {"computeL2_Sse4Aligned", "computeIP_Avx_4aligned", "computeIP_Sse_4aligned"}
Residuals == {"computeL2_SseWithResidual_16", "computeL2_SseWithResidual_4",
              "computeIP_SseWithResidual_16", "computeIP_SseWithResidual_4"}

\* The dimensions that lead to each kernel.
LEMMA KernelDimensions ==
    ASSUME WellTyped, NEW k, IsKernelOfTheMachine(k)
    PROVE  \/ k = "default"
           \/ k \in Kernels16 /\ dimension % 16 = 0
           \/ k \in Kernels4 /\ dimension % 4 = 0
           \/ k \in Residuals
           \/ k = "computeL2_Avx512_Uint8" /\ dimension % 64 = 0
<1>1. CASE k = "default"
  BY <1>1
<1>2. ASSUME NEW l \in Builds, k = Kernel(l), Usable(l)
      PROVE  \/ k \in Kernels16 /\ dimension % 16 = 0
             \/ k \in Kernels4 /\ dimension % 4 = 0
             \/ k \in Residuals
             \/ k = "computeL2_Avx512_Uint8" /\ dimension % 64 = 0
  <2>1. CASE type = "float32" /\ metric = "L2"
    BY <1>2, <2>1 DEF Kernel, Usable, SquaredL2Float, Pick, Kernels16, Kernels4, Residuals
  <2>2. CASE type = "float32" /\ metric = "IP"
    BY <1>2, <2>2 DEF Kernel, Usable, InnerProductFloat, Pick, Kernels16, Kernels4, Residuals
  <2>3. CASE type # "float32"
    BY <1>2, <2>3 DEF Kernel, Usable, SquaredL2Uint8
  <2> QED
    BY <2>1, <2>2, <2>3 DEF WellTyped, Metrics
<1> QED
  BY <1>1, <1>2 DEF IsKernelOfTheMachine

\* The shapes a kernel can have: one loop, one and a residual, two, or two and a
\* residual.
LEMMA Shapes ==
    ASSUME WellTyped, NEW k, IsKernelOfTheMachine(k)
    PROVE  \/ \E n \in {4, 8, 16} : Loops(k) = <<Blocks(16, 16, n)>> /\ dimension % 16 = 0
           \/ Loops(k) = <<Blocks(16, 8, 8)>> /\ dimension % 16 = 0
           \/ Loops(k) = <<Blocks(64, 1, 16)>> /\ dimension % 64 = 0
           \/ Loops(k) = <<Blocks(4, 4, 4)>> /\ dimension % 4 = 0
           \/ Loops(k) = <<Scalar>>
           \/ \E l \in {16, 4} : Loops(k) = <<Blocks(l, l, 4), Scalar>>
           \/ \E l \in {16, 8}, n \in {4, 8} : Loops(k) = <<Blocks(l, 16, n), Blocks(4, 4, 4)>> /\ dimension % 4 = 0
           \/ Loops(k) = <<Blocks(16, 16, 4), Blocks(4, 4, 4), Scalar>>
<1>1. CASE k = "default"
  BY <1>1 DEF Loops
<1>2. CASE k \in Kernels16 /\ dimension % 16 = 0
  BY <1>2 DEF Kernels16, Loops, computeL2_Avx512, computeL2_Avx2,
              computeL2_Sse, computeIP_Avx512, computeIP_Avx, computeIP_Sse
<1>3. CASE k \in Kernels4 /\ dimension % 4 = 0
  BY <1>3 DEF Kernels4, Loops, computeL2_Sse4Aligned, computeIP_Avx_4aligned, computeIP_Sse_4aligned
<1>4. CASE k \in Residuals
  BY <1>4 DEF Residuals, Loops, computeL2_Sse, computeL2_Sse4Aligned,
              computeIP_Sse, computeIP_Sse_4aligned, computeL2_SseWithResidual_16,
              computeL2_SseWithResidual_4, computeIP_SseWithResidual_16, computeIP_SseWithResidual_4
<1>5. CASE k = "computeL2_Avx512_Uint8" /\ dimension % 64 = 0
  BY <1>5 DEF Loops, computeL2_Avx512_Uint8
<1> QED
  BY <1>1, <1>2, <1>3, <1>4, <1>5, KernelDimensions

\* Each loop of the kernel, started where the one before has ended, reads whole
\* blocks.
LEMMA LoopsFit ==
    ASSUME WellTyped, NEW k, IsKernelOfTheMachine(k), NEW s \in 1 .. Len(Loops(k))
    PROVE  Fits(Loops(k)[s], Start(k, s)) /\ LoopEnd(Loops(k)[s]) \in Nat
<1> dimension \in Nat
  BY DEF WellTyped
<1>1. CASE \E n \in {4, 8, 16} : Loops(k) = <<Blocks(16, 16, n)>> /\ dimension % 16 = 0
  BY <1>1 DEF Blocks, Fits, Start, LoopEnd
<1>2. CASE Loops(k) = <<Blocks(16, 8, 8)>> /\ dimension % 16 = 0
  BY <1>2 DEF Blocks, Fits, Start, LoopEnd
<1>3. CASE Loops(k) = <<Blocks(64, 1, 16)>> /\ dimension % 64 = 0
  BY <1>3 DEF Blocks, Fits, Start, LoopEnd
<1>4. CASE Loops(k) = <<Blocks(4, 4, 4)>> /\ dimension % 4 = 0
  BY <1>4 DEF Blocks, Fits, Start, LoopEnd
<1>5. CASE Loops(k) = <<Scalar>>
  BY <1>5 DEF Scalar, Blocks, Fits, Start, LoopEnd
<1>6. CASE \E l \in {16, 4} : Loops(k) = <<Blocks(l, l, 4), Scalar>>
  BY <1>6 DEF Scalar, Blocks, Fits, Start, LoopEnd
<1>7. CASE \E l \in {16, 8}, n \in {4, 8} : Loops(k) = <<Blocks(l, 16, n), Blocks(4, 4, 4)>> /\ dimension % 4 = 0
  BY <1>7 DEF Blocks, Fits, Start, LoopEnd
<1>8. CASE Loops(k) = <<Blocks(16, 16, 4), Blocks(4, 4, 4), Scalar>>
  BY <1>8 DEF Scalar, Blocks, Fits, Start, LoopEnd
<1> QED
  BY <1>1, <1>2, <1>3, <1>4, <1>5, <1>6, <1>7, <1>8, Shapes

\* If the level is of no use either, none wider than the next one is.
LEMMA NextLevelIsNext ==
    ASSUME WellTyped, NEW l \in Builds, NoneWiderThan(l), ~Usable(l), Width(l) <= Width(FirstLevel)
    PROVE  /\ NextLevel(l) \in Builds
           /\ NoneWiderThan(NextLevel(l))
           /\ Width(NextLevel(l)) <= Width(FirstLevel)
<1>1. NextLevel(l) \in Builds /\ Width(NextLevel(l)) <= Width(l)
  BY DEF Builds, NextLevel, Width
<1>4. Width(NextLevel(l)) <= Width(FirstLevel)
  BY <1>1 DEF Width
<1>2. CASE type = "float32" \/ l # "avx512"
  BY <1>1, <1>2, <1>4 DEF NoneWiderThan, Builds, Width, NextLevel
<1>3. CASE type # "float32" /\ l = "avx512"
  <2>1. ~Usable("avx") /\ ~Usable("sse")
    BY <1>3 DEF Usable, Kernel, SquaredL2Uint8
  <2>2. ~Usable("plain") /\ ~Usable("avx512")
    BY <1>3 DEF Usable
  <2>3. ASSUME NEW m \in Builds PROVE ~Usable(m)
    BY <2>1, <2>2 DEF Builds
  <2> QED
    BY <1>1, <1>4, <2>3 DEF NoneWiderThan
<1> QED
  BY <1>2, <1>3

\* The kernel of a level nothing wider than which is of use.
LEMMA UsableIsOfTheMachine ==
    ASSUME WellTyped, NEW l \in Builds, NoneWiderThan(l), Usable(l)
    PROVE  Kernel(l) # "none" /\ IsKernelOfTheMachine(Kernel(l))
  BY DEF Usable, NoneWiderThan, IsKernelOfTheMachine

\* When no level is left, the default loop is right, and L2 of float vectors has
\* no kernel only below four dimensions.
LEMMA NothingLeft ==
    ASSUME WellTyped, NoneWiderThan("plain")
    PROVE  /\ IsKernelOfTheMachine("default")
           /\ metric = "L2" /\ type = "float32" /\ build # "plain" => dimension \in 1 .. 3
<1>1. \A m \in Builds : ~Usable(m)
  BY DEF NoneWiderThan, Builds, Width, Usable
<1>2. ASSUME metric = "L2", type = "float32", build # "plain" PROVE dimension \in 1 .. 3
  <2>1. Width("sse") <= Width(FirstLevel)
    BY <1>2 DEF WellTyped, Builds, Width, FirstLevel
  <2>2. Kernel("sse") = "none"
    BY <1>1, <2>1 DEF Usable, Builds
  <2> QED
    BY <1>2, <2>2 DEF Kernel, SquaredL2Float, Pick, WellTyped
<1> QED
  BY <1>1, <1>2 DEF IsKernelOfTheMachine

-----------------------------------------------------------------------------
(* The invariant. *)

\* Every kernel has a loop.
LEMMA HasALoop ==
    ASSUME WellTyped, NEW k, IsKernelOfTheMachine(k)
    PROVE  Len(Loops(k)) \in Nat \ {0}
  BY Shapes

\* No thread has asked anything at first.
LEMMA InitInv == Init => IInv
<1> SUFFICES ASSUME Init PROVE IInv
  OBVIOUS
<1>1. FirstLevel \in Builds
  BY DEF Init, FirstLevel, Builds
<1>2. WellTyped
  <2>1. pc \in [Threads -> Labels] /\ level \in [Threads -> Builds]
    BY <1>1 DEF Init, Labels
  <2>4. kernel = [t \in Threads |-> kernel[t]]
    BY DEF Init
  <2>2. probed \in [Threads -> BOOLEAN] /\ stage \in [Threads -> Nat] /\ at \in [Threads -> Nat]
    BY DEF Init
  <2>3. dimension \in Nat
    BY DimensionsAssumption DEF Init
  <2> QED
    BY <2>1, <2>2, <2>3, <2>4 DEF Init, WellTyped
<1>3. \A l \in Builds : Usable(l) => Width(l) <= Width(FirstLevel)
  BY DEF Usable
<1>4. Width(FirstLevel) <= Width(FirstLevel)
  BY <1>1 DEF Width
<1>5. CacheInv
  BY DEF Init, CacheInv
<1>6. ASSUME NEW t \in Threads PROVE ProbeInv(t) /\ LevelInv(t) /\ LoopInv(t)
  <2>1. pc[t] = "dispatch" /\ level[t] = FirstLevel /\ kernel[t] = "none" /\ stage[t] = 1 /\ at[t] = 0
    BY DEF Init
  <2> QED
    BY <1>3, <1>4, <2>1 DEF ProbeInv, LevelInv, LoopInv, Asking, NoneWiderThan
<1> QED
  BY <1>2, <1>5, <1>6 DEF IInv

\* A step leaves the setup alone, and with it what was said of kernels.
LEMMA SetupStays ==
    ASSUME setup' = setup
    PROVE  /\ \A k : IsKernelOfTheMachine(k)' = IsKernelOfTheMachine(k)
           /\ \A l : NoneWiderThan(l)' = NoneWiderThan(l)
           /\ FirstLevel' = FirstLevel
           /\ Both' = Both
           /\ \A k, s : Start(k, s)' = Start(k, s)
           /\ \A loop : LoopEnd(loop)' = LoopEnd(loop)
<1> USE DEF setup
<1>1. FirstLevel' = FirstLevel
  BY DEF FirstLevel
<1>2. \A l : Kernel(l)' = Kernel(l)
  BY DEF Kernel, SquaredL2Float, InnerProductFloat, SquaredL2Uint8, Pick
<1>3. \A l : Usable(l)' = Usable(l)
  BY <1>1, <1>2 DEF Usable, Width
<1>4. \A k : IsKernelOfTheMachine(k)' = IsKernelOfTheMachine(k)
  BY <1>2, <1>3 DEF IsKernelOfTheMachine, Width
<1>5. \A l : NoneWiderThan(l)' = NoneWiderThan(l)
  BY <1>3 DEF NoneWiderThan, Width
<1>6. \A loop : LoopEnd(loop)' = LoopEnd(loop)
  BY DEF LoopEnd
<1>7. \A k, s : Start(k, s)' = Start(k, s)
  BY <1>6 DEF Start, Loops
<1>8. Both' = Both
  BY DEF Both
<1> QED
  BY <1>1, <1>4, <1>5, <1>6, <1>7, <1>8

\* What a step of u has to show for each of the other threads.
LEMMA OthersKeep ==
    ASSUME WellTyped, setup' = setup, NEW t \in Threads,
           ProbeInv(t), LevelInv(t), LoopInv(t),
           pc'[t] = pc[t], level'[t] = level[t], probed'[t] = probed[t],
           kernel'[t] = kernel[t], stage'[t] = stage[t], at'[t] = at[t],
           avxSupport = machine.avx => avxSupport' = machine.avx,
           avx512Support = Both => avx512Support' = Both
    PROVE  ProbeInv(t)' /\ LevelInv(t)' /\ LoopInv(t)'
<1>1. ProbeInv(t)'
  BY SetupStays DEF ProbeInv, setup
<1>2. LevelInv(t)'
  BY SetupStays DEF LevelInv, Width
<1>3. LoopInv(t)'
  BY SetupStays DEF LoopInv, Loops, setup
<1> QED
  BY <1>1, <1>2, <1>3


\* What a step of u has to give.
Shown(u) ==
    /\ setup' = setup /\ WellTyped' /\ CacheInv'
    /\ avxSupport = machine.avx => avxSupport' = machine.avx
    /\ avx512Support = Both => avx512Support' = Both
    /\ \A t \in Threads \ {u} :
           /\ pc'[t] = pc[t] /\ level'[t] = level[t] /\ probed'[t] = probed[t]
           /\ kernel'[t] = kernel[t] /\ stage'[t] = stage[t] /\ at'[t] = at[t]
    /\ ProbeInv(u)' /\ LevelInv(u)' /\ LoopInv(u)'

\* A call that begins knows nothing yet.
LEMMA AskInv == ASSUME IInv, NEW u \in Threads, Ask(u) PROVE Shown(u)
<1> USE DEF Ask, Goto, setup, cache, work
<1>1. setup' = setup
  OBVIOUS
<1>2. WellTyped'
  BY DEF IInv, WellTyped, Labels, Builds
<1>3. /\ CacheInv'
      /\ avxSupport = machine.avx => avxSupport' = machine.avx
      /\ avx512Support = Both => avx512Support' = Both
  BY DEF IInv, WellTyped, CacheInv, ProbeInv, Both
<1>4. \A t \in Threads \ {u} :
          /\ pc'[t] = pc[t] /\ level'[t] = level[t] /\ probed'[t] = probed[t]
          /\ kernel'[t] = kernel[t] /\ stage'[t] = stage[t] /\ at'[t] = at[t]
  BY DEF IInv, WellTyped
<1>5. ProbeInv(u)'
  BY <1>1, SetupStays DEF IInv, WellTyped, CacheInv, ProbeInv, LevelInv, Asking, Both
<1>6. LevelInv(u)'
  BY <1>1, SetupStays DEF IInv, WellTyped, LevelInv, Asking, Width
<1>7. LoopInv(u)'
  BY <1>1, SetupStays DEF IInv, WellTyped, LevelInv, LoopInv, Asking, Loops
<1> QED
  BY <1>1, <1>2, <1>3, <1>4, <1>5, <1>6, <1>7 DEF Shown

\* What a thread reads of the caches is the machine's answer.
LEMMA ReadSupportInv == ASSUME IInv, NEW u \in Threads, ReadSupport(u) PROVE Shown(u)
<1> USE DEF ReadSupport, Enter, Goto, setup, cache, work
<1>1. setup' = setup
  OBVIOUS
<1>2. WellTyped'
  <2>1. NextLevel(level[u]) \in Builds
    BY DEF NextLevel, Builds
  <2> QED
    BY <2>1 DEF IInv, WellTyped, Labels
<1>3. /\ CacheInv'
      /\ avxSupport = machine.avx => avxSupport' = machine.avx
      /\ avx512Support = Both => avx512Support' = Both
  BY DEF IInv, WellTyped, CacheInv, ProbeInv, Both
<1>4. \A t \in Threads \ {u} :
          /\ pc'[t] = pc[t] /\ level'[t] = level[t] /\ probed'[t] = probed[t]
          /\ kernel'[t] = kernel[t] /\ stage'[t] = stage[t] /\ at'[t] = at[t]
  BY DEF IInv, WellTyped
<1>5. ProbeInv(u)'
  BY <1>1, SetupStays DEF IInv, WellTyped, CacheInv, ProbeInv, LevelInv, Asking, Both
<1>a. /\ level[u] \in Builds /\ NoneWiderThan(level[u]) /\ Width(level[u]) <= Width(FirstLevel)
      /\ level[u] \in {"avx", "avx512"} /\ kernel[u] = "none" /\ stage[u] = 1 /\ at[u] = 0
  BY DEF IInv, WellTyped, LevelInv, Asking
<1>b. (IF level[u] = "avx512" THEN avx512Support ELSE avxSupport) =
          (machine.avx /\ (level[u] = "avx512" => machine.avx512f))
  BY <1>a DEF IInv, WellTyped, ProbeInv, Both
<1>c. ASSUME Usable(level[u]) PROVE LevelInv(u)' /\ LoopInv(u)'
  <2>1. pc'[u] = "loop" /\ kernel'[u] = Kernel(level[u]) /\ stage'[u] = 1 /\ at'[u] = 0
    BY <1>a, <1>b, <1>c DEF Usable, IInv, WellTyped
  <2>2. Kernel(level[u]) # "none" /\ IsKernelOfTheMachine(Kernel(level[u]))
    BY <1>a, <1>c, UsableIsOfTheMachine DEF IInv
  <2>3. Len(Loops(Kernel(level[u]))) \in Nat \ {0}
    BY <2>2, HasALoop DEF IInv
  <2>4. LevelInv(u)'
    BY <2>1 DEF LevelInv, Asking
  <2>5. IsKernelOfTheMachine(kernel[u])'
    BY <1>1, <2>1, <2>2, SetupStays
  <2>6. LoopInv(u)'
    BY <2>1, <2>3, <2>5 DEF LoopInv, Asking, Start, Loops
  <2> QED
    BY <2>4, <2>6
<1>d. ASSUME ~Usable(level[u]) PROVE LevelInv(u)' /\ LoopInv(u)'
  <2>1. pc'[u] = "dispatch" /\ level'[u] = NextLevel(level[u]) /\ kernel'[u] = "none"
        /\ stage'[u] = 1 /\ at'[u] = 0
    BY <1>a, <1>b, <1>d DEF Usable, IInv, WellTyped
  <2>2. NoneWiderThan(NextLevel(level[u])) /\ Width(NextLevel(level[u])) <= Width(FirstLevel)
    BY <1>a, <1>d, NextLevelIsNext DEF IInv
  <2>3. LevelInv(u)'
    BY <1>1, <2>1, <2>2, SetupStays DEF LevelInv, Asking, Width
  <2>4. LoopInv(u)'
    BY <2>1 DEF LoopInv, Asking
  <2> QED
    BY <2>3, <2>4
<1>6. LevelInv(u)'
  BY <1>c, <1>d
<1>7. LoopInv(u)'
  BY <1>c, <1>d
<1> QED
  BY <1>1, <1>2, <1>3, <1>4, <1>5, <1>6, <1>7 DEF Shown

\* Without AVX a dispatcher goes on to SSE, if the build has it.
LEMMA DispatchSseInv == ASSUME IInv, NEW u \in Threads, DispatchSse(u) PROVE Shown(u)
<1> USE DEF DispatchSse, Enter, Goto, setup, cache, work
<1>1. setup' = setup
  OBVIOUS
<1>2. WellTyped'
  BY DEF IInv, WellTyped, Labels, Builds
<1>3. /\ CacheInv'
      /\ avxSupport = machine.avx => avxSupport' = machine.avx
      /\ avx512Support = Both => avx512Support' = Both
  BY DEF IInv, WellTyped, CacheInv, ProbeInv, Both
<1>4. \A t \in Threads \ {u} :
          /\ pc'[t] = pc[t] /\ level'[t] = level[t] /\ probed'[t] = probed[t]
          /\ kernel'[t] = kernel[t] /\ stage'[t] = stage[t] /\ at'[t] = at[t]
  BY DEF IInv, WellTyped
<1>5. ProbeInv(u)'
  BY <1>1, SetupStays DEF IInv, WellTyped, CacheInv, ProbeInv, LevelInv, Asking, Both
<1>a. /\ level[u] = "sse" /\ NoneWiderThan("sse") /\ Width("sse") <= Width(FirstLevel)
      /\ kernel[u] = "none" /\ stage[u] = 1 /\ at[u] = 0
  BY DEF IInv, WellTyped, LevelInv, Asking
<1>b. Usable("sse") = (Kernel("sse") # "none")
  BY <1>a DEF Usable
<1>c. ASSUME Usable("sse") PROVE LevelInv(u)' /\ LoopInv(u)'
  <2>1. pc'[u] = "loop" /\ kernel'[u] = Kernel("sse") /\ stage'[u] = 1 /\ at'[u] = 0
    BY <1>a, <1>b, <1>c DEF IInv, WellTyped
  <2>2. Kernel("sse") # "none" /\ IsKernelOfTheMachine(Kernel("sse"))
    BY <1>a, <1>c, UsableIsOfTheMachine DEF IInv, Builds
  <2>3. Len(Loops(Kernel("sse"))) \in Nat \ {0}
    BY <2>2, HasALoop DEF IInv
  <2>4. LevelInv(u)'
    BY <2>1 DEF LevelInv, Asking
  <2>5. IsKernelOfTheMachine(kernel[u])'
    BY <1>1, <2>1, <2>2, SetupStays
  <2>6. LoopInv(u)'
    BY <2>1, <2>3, <2>5 DEF LoopInv, Asking, Start, Loops
  <2> QED
    BY <2>4, <2>6
<1>d. ASSUME ~Usable("sse") PROVE LevelInv(u)' /\ LoopInv(u)'
  <2>1. pc'[u] = "dispatch" /\ level'[u] = "plain" /\ kernel'[u] = "none" /\ stage'[u] = 1 /\ at'[u] = 0
    BY <1>a, <1>b, <1>d DEF IInv, WellTyped
  <2>2. NextLevel("sse") = "plain"
    BY DEF NextLevel
  <2>3. NoneWiderThan("plain") /\ Width("plain") <= Width(FirstLevel)
    BY <1>a, <1>d, <2>2, NextLevelIsNext DEF IInv, Builds
  <2>4. LevelInv(u)'
    BY <1>1, <2>1, <2>3, SetupStays DEF LevelInv, Asking, Width
  <2>5. LoopInv(u)'
    BY <2>1 DEF LoopInv, Asking
  <2> QED
    BY <2>4, <2>5
<1>6. LevelInv(u)'
  BY <1>c, <1>d
<1>7. LoopInv(u)'
  BY <1>c, <1>d
<1> QED
  BY <1>1, <1>2, <1>3, <1>4, <1>5, <1>6, <1>7 DEF Shown

\* The plain loop is taken when no level is left.
LEMMA DispatchDefaultInv == ASSUME IInv, NEW u \in Threads, DispatchDefault(u) PROVE Shown(u)
<1> USE DEF DispatchDefault, Enter, Goto, setup, cache, work
<1>1. setup' = setup
  OBVIOUS
<1>2. WellTyped'
  BY DEF IInv, WellTyped, Labels, Builds
<1>3. /\ CacheInv'
      /\ avxSupport = machine.avx => avxSupport' = machine.avx
      /\ avx512Support = Both => avx512Support' = Both
  BY DEF IInv, WellTyped, CacheInv, ProbeInv, Both
<1>4. \A t \in Threads \ {u} :
          /\ pc'[t] = pc[t] /\ level'[t] = level[t] /\ probed'[t] = probed[t]
          /\ kernel'[t] = kernel[t] /\ stage'[t] = stage[t] /\ at'[t] = at[t]
  BY DEF IInv, WellTyped
<1>5. ProbeInv(u)'
  BY <1>1, SetupStays DEF IInv, WellTyped, CacheInv, ProbeInv, LevelInv, Asking, Both
<1>6. LevelInv(u)'
  BY <1>1, SetupStays DEF IInv, WellTyped, LevelInv, Asking, Width
<1>a. /\ IsKernelOfTheMachine("default")
      /\ metric = "L2" /\ type = "float32" /\ build # "plain" => dimension \in 1 .. 3
  BY NothingLeft DEF IInv, LevelInv, Asking
<1>b. ASSUME FallsOff(u) PROVE LoopInv(u)'
  BY <1>a, <1>b DEF FallsOff, IInv, WellTyped, LevelInv, LoopInv, Asking
<1>c. ASSUME ~FallsOff(u) PROVE LoopInv(u)'
  <2>1. pc'[u] = "loop" /\ kernel'[u] = "default" /\ stage'[u] = 1 /\ at'[u] = 0
    BY <1>c DEF IInv, WellTyped, LevelInv, Asking
  <2>2. Len(Loops("default")) \in Nat \ {0}
    BY <1>a, HasALoop DEF IInv
  <2>3. IsKernelOfTheMachine(kernel[u])'
    BY <1>1, <1>a, <2>1, SetupStays
  <2> QED
    BY <2>1, <2>2, <2>3 DEF LoopInv, Asking, Start, Loops
<1>7. LoopInv(u)'
  BY <1>b, <1>c
<1> QED
  BY <1>1, <1>2, <1>3, <1>4, <1>5, <1>6, <1>7 DEF Shown

\* The first access of initializePlatformSupport, to the flag of AVX.
LEMMA InitAvxInv == ASSUME IInv, NEW u \in Threads, InitAvx(u) PROVE Shown(u)
<1> USE DEF InitAvx, Goto, setup, cache, work
<1>1. setup' = setup
  OBVIOUS
<1>2. WellTyped'
  BY DEF IInv, WellTyped, Labels, Builds
<1>3. /\ CacheInv'
      /\ avxSupport = machine.avx => avxSupport' = machine.avx
      /\ avx512Support = Both => avx512Support' = Both
  BY DEF IInv, WellTyped, CacheInv, ProbeInv, Both
<1>4. \A t \in Threads \ {u} :
          /\ pc'[t] = pc[t] /\ level'[t] = level[t] /\ probed'[t] = probed[t]
          /\ kernel'[t] = kernel[t] /\ stage'[t] = stage[t] /\ at'[t] = at[t]
  BY DEF IInv, WellTyped
<1>5. ProbeInv(u)'
  BY <1>1, SetupStays DEF IInv, WellTyped, CacheInv, ProbeInv, LevelInv, Asking, Both
<1>6. LevelInv(u)'
  BY <1>1, SetupStays DEF IInv, WellTyped, LevelInv, Asking, Width
<1>7. LoopInv(u)'
  BY <1>1, SetupStays DEF IInv, WellTyped, LevelInv, LoopInv, Asking, Loops
<1> QED
  BY <1>1, <1>2, <1>3, <1>4, <1>5, <1>6, <1>7 DEF Shown

\* The answer about AVX is stored.
LEMMA StoreAvxInv == ASSUME IInv, NEW u \in Threads, StoreAvx(u) PROVE Shown(u)
<1> USE DEF StoreAvx, Goto, setup, cache, work
<1>1. setup' = setup
  OBVIOUS
<1>2. WellTyped'
  <2>1. machine.avx \in BOOLEAN
    BY DEF IInv, WellTyped, Machines
  <2> QED
    BY <2>1 DEF IInv, WellTyped, Labels, Builds
<1>3. /\ CacheInv'
      /\ avxSupport = machine.avx => avxSupport' = machine.avx
      /\ avx512Support = Both => avx512Support' = Both
  BY DEF IInv, WellTyped, CacheInv, ProbeInv, Both
<1>4. \A t \in Threads \ {u} :
          /\ pc'[t] = pc[t] /\ level'[t] = level[t] /\ probed'[t] = probed[t]
          /\ kernel'[t] = kernel[t] /\ stage'[t] = stage[t] /\ at'[t] = at[t]
  BY DEF IInv, WellTyped
<1>5. ProbeInv(u)'
  BY <1>1, SetupStays DEF IInv, WellTyped, CacheInv, ProbeInv, LevelInv, Asking, Both
<1>6. LevelInv(u)'
  BY <1>1, SetupStays DEF IInv, WellTyped, LevelInv, Asking, Width
<1>7. LoopInv(u)'
  BY <1>1, SetupStays DEF IInv, WellTyped, LevelInv, LoopInv, Asking, Loops
<1> QED
  BY <1>1, <1>2, <1>3, <1>4, <1>5, <1>6, <1>7 DEF Shown

\* The flag of AVX is raised after its answer is there.
LEMMA ReadyAvxInv == ASSUME IInv, NEW u \in Threads, ReadyAvx(u) PROVE Shown(u)
<1> USE DEF ReadyAvx, Goto, setup, cache, work
<1>1. setup' = setup
  OBVIOUS
<1>2. WellTyped'
  BY DEF IInv, WellTyped, Labels, Builds
<1>3. /\ CacheInv'
      /\ avxSupport = machine.avx => avxSupport' = machine.avx
      /\ avx512Support = Both => avx512Support' = Both
  BY DEF IInv, WellTyped, CacheInv, ProbeInv, Both
<1>4. \A t \in Threads \ {u} :
          /\ pc'[t] = pc[t] /\ level'[t] = level[t] /\ probed'[t] = probed[t]
          /\ kernel'[t] = kernel[t] /\ stage'[t] = stage[t] /\ at'[t] = at[t]
  BY DEF IInv, WellTyped
<1>5. ProbeInv(u)'
  BY <1>1, SetupStays DEF IInv, WellTyped, CacheInv, ProbeInv, LevelInv, Asking, Both
<1>6. LevelInv(u)'
  BY <1>1, SetupStays DEF IInv, WellTyped, LevelInv, Asking, Width
<1>7. LoopInv(u)'
  BY <1>1, SetupStays DEF IInv, WellTyped, LevelInv, LoopInv, Asking, Loops
<1> QED
  BY <1>1, <1>2, <1>3, <1>4, <1>5, <1>6, <1>7 DEF Shown

\* The access to the flag of AVX512.
LEMMA Init512Inv == ASSUME IInv, NEW u \in Threads, Init512(u) PROVE Shown(u)
<1> USE DEF Init512, Goto, setup, cache, work
<1>1. setup' = setup
  OBVIOUS
<1>2. WellTyped'
  BY DEF IInv, WellTyped, Labels, Builds
<1>3. /\ CacheInv'
      /\ avxSupport = machine.avx => avxSupport' = machine.avx
      /\ avx512Support = Both => avx512Support' = Both
  BY DEF IInv, WellTyped, CacheInv, ProbeInv, Both
<1>4. \A t \in Threads \ {u} :
          /\ pc'[t] = pc[t] /\ level'[t] = level[t] /\ probed'[t] = probed[t]
          /\ kernel'[t] = kernel[t] /\ stage'[t] = stage[t] /\ at'[t] = at[t]
  BY DEF IInv, WellTyped
<1>5. ProbeInv(u)'
  BY <1>1, SetupStays DEF IInv, WellTyped, CacheInv, ProbeInv, LevelInv, Asking, Both
<1>6. LevelInv(u)'
  BY <1>1, SetupStays DEF IInv, WellTyped, LevelInv, Asking, Width
<1>7. LoopInv(u)'
  BY <1>1, SetupStays DEF IInv, WellTyped, LevelInv, LoopInv, Asking, Loops
<1> QED
  BY <1>1, <1>2, <1>3, <1>4, <1>5, <1>6, <1>7 DEF Shown

\* The machine is asked about AVX512, with the cache of AVX already filled.
LEMMA Probe512Inv == ASSUME IInv, NEW u \in Threads, Probe512(u) PROVE Shown(u)
<1> USE DEF Probe512, Goto, setup, cache, work
<1>1. setup' = setup
  OBVIOUS
<1>2. WellTyped'
  BY DEF IInv, WellTyped, Labels, Builds
<1>3. /\ CacheInv'
      /\ avxSupport = machine.avx => avxSupport' = machine.avx
      /\ avx512Support = Both => avx512Support' = Both
  BY DEF IInv, WellTyped, CacheInv, ProbeInv, Both
<1>4. \A t \in Threads \ {u} :
          /\ pc'[t] = pc[t] /\ level'[t] = level[t] /\ probed'[t] = probed[t]
          /\ kernel'[t] = kernel[t] /\ stage'[t] = stage[t] /\ at'[t] = at[t]
  BY DEF IInv, WellTyped
<1>5. ProbeInv(u)'
  BY <1>1, SetupStays DEF IInv, WellTyped, CacheInv, ProbeInv, LevelInv, Asking, Both
<1>6. LevelInv(u)'
  BY <1>1, SetupStays DEF IInv, WellTyped, LevelInv, Asking, Width
<1>7. LoopInv(u)'
  BY <1>1, SetupStays DEF IInv, WellTyped, LevelInv, LoopInv, Asking, Loops
<1> QED
  BY <1>1, <1>2, <1>3, <1>4, <1>5, <1>6, <1>7 DEF Shown

\* The answer about AVX512 is stored.
LEMMA Store512Inv == ASSUME IInv, NEW u \in Threads, Store512(u) PROVE Shown(u)
<1> USE DEF Store512, Goto, setup, cache, work
<1>1. setup' = setup
  OBVIOUS
<1>2. WellTyped'
  BY DEF IInv, WellTyped, Labels, Builds
<1>3. /\ CacheInv'
      /\ avxSupport = machine.avx => avxSupport' = machine.avx
      /\ avx512Support = Both => avx512Support' = Both
  BY DEF IInv, WellTyped, CacheInv, ProbeInv, Both
<1>4. \A t \in Threads \ {u} :
          /\ pc'[t] = pc[t] /\ level'[t] = level[t] /\ probed'[t] = probed[t]
          /\ kernel'[t] = kernel[t] /\ stage'[t] = stage[t] /\ at'[t] = at[t]
  BY DEF IInv, WellTyped
<1>5. ProbeInv(u)'
  BY <1>1, SetupStays DEF IInv, WellTyped, CacheInv, ProbeInv, LevelInv, Asking, Both
<1>6. LevelInv(u)'
  BY <1>1, SetupStays DEF IInv, WellTyped, LevelInv, Asking, Width
<1>7. LoopInv(u)'
  BY <1>1, SetupStays DEF IInv, WellTyped, LevelInv, LoopInv, Asking, Loops
<1> QED
  BY <1>1, <1>2, <1>3, <1>4, <1>5, <1>6, <1>7 DEF Shown

\* The flag of AVX512 is raised after its answer is there.
LEMMA Ready512Inv == ASSUME IInv, NEW u \in Threads, Ready512(u) PROVE Shown(u)
<1> USE DEF Ready512, Goto, setup, cache, work
<1>1. setup' = setup
  OBVIOUS
<1>2. WellTyped'
  BY DEF IInv, WellTyped, Labels, Builds
<1>3. /\ CacheInv'
      /\ avxSupport = machine.avx => avxSupport' = machine.avx
      /\ avx512Support = Both => avx512Support' = Both
  BY DEF IInv, WellTyped, CacheInv, ProbeInv, Both
<1>4. \A t \in Threads \ {u} :
          /\ pc'[t] = pc[t] /\ level'[t] = level[t] /\ probed'[t] = probed[t]
          /\ kernel'[t] = kernel[t] /\ stage'[t] = stage[t] /\ at'[t] = at[t]
  BY DEF IInv, WellTyped
<1>5. ProbeInv(u)'
  BY <1>1, SetupStays DEF IInv, WellTyped, CacheInv, ProbeInv, LevelInv, Asking, Both
<1>6. LevelInv(u)'
  BY <1>1, SetupStays DEF IInv, WellTyped, LevelInv, Asking, Width
<1>7. LoopInv(u)'
  BY <1>1, SetupStays DEF IInv, WellTyped, LevelInv, LoopInv, Asking, Loops
<1> QED
  BY <1>1, <1>2, <1>3, <1>4, <1>5, <1>6, <1>7 DEF Shown

\* A kernel of the machine runs instructions the machine has, or is the one for
\* bytes.
LEMMA NeedsAreMet ==
    ASSUME WellTyped, NEW k, IsKernelOfTheMachine(k), NEW feature \in Needs(k), ~machine[feature]
    PROVE  type = "uint8" /\ machine.avx512f /\ ~machine.avx512bw
<1>1. PICK l \in Builds : k = Kernel(l) /\ Usable(l)
  BY DEF IsKernelOfTheMachine, Needs
<1>2. CASE type = "float32" /\ metric = "L2"
  BY <1>1, <1>2 DEF Kernel, Usable, SquaredL2Float, Pick, Needs, Builds, WellTyped, Machines
<1>3. CASE type = "float32" /\ metric = "IP"
  BY <1>1, <1>3 DEF Kernel, Usable, InnerProductFloat, Pick, Needs, Builds, WellTyped, Machines
<1>4. CASE type # "float32"
  BY <1>1, <1>4 DEF Kernel, Usable, SquaredL2Uint8, Needs, Builds, WellTyped, Machines, Types
<1> QED
  BY <1>2, <1>3, <1>4 DEF WellTyped, Metrics

\* A process that stops leaves the caches as they are.
LEMMA StopInv == ASSUME IInv, NEW u \in Threads, Stop(u) PROVE Shown(u)
<1> USE DEF Stop, Goto, setup, cache, work
<1>1. setup' = setup
  OBVIOUS
<1>2. WellTyped'
  BY DEF IInv, WellTyped, Labels, Builds
<1>3. /\ CacheInv'
      /\ avxSupport = machine.avx => avxSupport' = machine.avx
      /\ avx512Support = Both => avx512Support' = Both
  BY DEF IInv, WellTyped, CacheInv, ProbeInv, Both
<1>4. \A t \in Threads \ {u} :
          /\ pc'[t] = pc[t] /\ level'[t] = level[t] /\ probed'[t] = probed[t]
          /\ kernel'[t] = kernel[t] /\ stage'[t] = stage[t] /\ at'[t] = at[t]
  BY DEF IInv, WellTyped
<1>5. ProbeInv(u)'
  BY <1>1, SetupStays DEF IInv, WellTyped, CacheInv, ProbeInv, LevelInv, Asking, Both
<1>6. LevelInv(u)'
  BY <1>1, SetupStays DEF IInv, WellTyped, LevelInv, Asking, Width
<1>a. IsKernelOfTheMachine(kernel[u]) /\ stage[u] \in 1 .. Len(Loops(kernel[u]))
  BY DEF IInv, LoopInv, Asking
<1>b. type = "uint8" /\ machine.avx512f /\ ~machine.avx512bw
  BY <1>a, NeedsAreMet DEF IInv, CanRun
<1>c. pc'[u] = "stopped" /\ IsKernelOfTheMachine(kernel[u])'
  BY <1>1, <1>a, SetupStays DEF IInv, WellTyped
<1>7. LoopInv(u)'
  BY <1>1, <1>a, <1>b, <1>c, SetupStays DEF IInv, WellTyped, LoopInv, Asking, Loops
<1> QED
  BY <1>1, <1>2, <1>3, <1>4, <1>5, <1>6, <1>7 DEF Shown

\* A loop that runs does not change which kernel was chosen.
LEMMA RunLoopInv == ASSUME IInv, NEW u \in Threads, RunLoop(u) PROVE Shown(u)
<1> USE DEF RunLoop, Goto, setup, cache, work
<1>1. setup' = setup
  OBVIOUS
<1>a. /\ IsKernelOfTheMachine(kernel[u]) /\ stage[u] \in 1 .. Len(Loops(kernel[u]))
      /\ at[u] = Start(kernel[u], stage[u])
  BY DEF IInv, LoopInv, Asking
<1>b. Fits(Loop(u), at[u]) /\ LoopEnd(Loop(u)) \in Nat
  BY <1>a, LoopsFit DEF IInv, Loop
<1>c. pc' = [pc EXCEPT ![u] = "looped"] /\ at' = [at EXCEPT ![u] = LoopEnd(Loop(u))]
  BY <1>b
<1>2. WellTyped'
  BY <1>b, <1>c DEF IInv, WellTyped, Labels
<1>3. /\ CacheInv'
      /\ avxSupport = machine.avx => avxSupport' = machine.avx
      /\ avx512Support = Both => avx512Support' = Both
  BY DEF IInv, WellTyped, CacheInv, ProbeInv, Both
<1>4. \A t \in Threads \ {u} :
          /\ pc'[t] = pc[t] /\ level'[t] = level[t] /\ probed'[t] = probed[t]
          /\ kernel'[t] = kernel[t] /\ stage'[t] = stage[t] /\ at'[t] = at[t]
  BY DEF IInv, WellTyped
<1>5. ProbeInv(u)'
  BY <1>1, SetupStays DEF IInv, WellTyped, CacheInv, ProbeInv, LevelInv, Asking, Both
<1>6. LevelInv(u)'
  BY <1>1, SetupStays DEF IInv, WellTyped, LevelInv, Asking, Width
<1>d. IsKernelOfTheMachine(kernel[u])'
  BY <1>1, <1>a, SetupStays
<1>7. LoopInv(u)'
  BY <1>1, <1>a, <1>c, <1>d, SetupStays DEF IInv, WellTyped, LoopInv, Asking, Loops, Loop
<1> QED
  BY <1>1, <1>2, <1>3, <1>4, <1>5, <1>6, <1>7 DEF Shown

\* Neither does the next loop of a kernel.
LEMMA NextLoopInv == ASSUME IInv, NEW u \in Threads, NextLoop(u) PROVE Shown(u)
<1> USE DEF NextLoop, Goto, setup, cache, work
<1>1. setup' = setup
  OBVIOUS
<1>2. WellTyped'
  BY DEF IInv, WellTyped, Labels, Builds
<1>3. /\ CacheInv'
      /\ avxSupport = machine.avx => avxSupport' = machine.avx
      /\ avx512Support = Both => avx512Support' = Both
  BY DEF IInv, WellTyped, CacheInv, ProbeInv, Both
<1>4. \A t \in Threads \ {u} :
          /\ pc'[t] = pc[t] /\ level'[t] = level[t] /\ probed'[t] = probed[t]
          /\ kernel'[t] = kernel[t] /\ stage'[t] = stage[t] /\ at'[t] = at[t]
  BY DEF IInv, WellTyped
<1>5. ProbeInv(u)'
  BY <1>1, SetupStays DEF IInv, WellTyped, CacheInv, ProbeInv, LevelInv, Asking, Both
<1>6. LevelInv(u)'
  BY <1>1, SetupStays DEF IInv, WellTyped, LevelInv, Asking, Width
<1>a. /\ IsKernelOfTheMachine(kernel[u]) /\ stage[u] \in 1 .. Len(Loops(kernel[u]))
      /\ at[u] = LoopEnd(Loops(kernel[u])[stage[u]])
  BY DEF IInv, LoopInv, Asking
<1>b. Len(Loops(kernel[u])) \in Nat
  BY <1>a, HasALoop DEF IInv
<1>c. /\ pc'[u] = "loop" /\ kernel'[u] = kernel[u] /\ stage'[u] = stage[u] + 1 /\ at'[u] = at[u]
  BY DEF IInv, WellTyped
<1>d. stage[u] + 1 \in 1 .. Len(Loops(kernel[u])) /\ at[u] = Start(kernel[u], stage[u] + 1)
  BY <1>a, <1>b DEF Start
<1>e. IsKernelOfTheMachine(kernel[u])'
  BY <1>1, <1>a, <1>c, SetupStays
<1>7. LoopInv(u)'
  BY <1>1, <1>c, <1>d, <1>e, SetupStays, SMTT(60) DEF LoopInv, Asking, Loops
<1> QED
  BY <1>1, <1>2, <1>3, <1>4, <1>5, <1>6, <1>7 DEF Shown

\* A thread that returns leaves the caches as they are.
LEMMA ReturnInv == ASSUME IInv, NEW u \in Threads, Return(u) PROVE Shown(u)
<1> USE DEF Return, Goto, setup, cache, work
<1>1. setup' = setup
  OBVIOUS
<1>2. WellTyped'
  BY DEF IInv, WellTyped, Labels, Builds
<1>3. /\ CacheInv'
      /\ avxSupport = machine.avx => avxSupport' = machine.avx
      /\ avx512Support = Both => avx512Support' = Both
  BY DEF IInv, WellTyped, CacheInv, ProbeInv, Both
<1>4. \A t \in Threads \ {u} :
          /\ pc'[t] = pc[t] /\ level'[t] = level[t] /\ probed'[t] = probed[t]
          /\ kernel'[t] = kernel[t] /\ stage'[t] = stage[t] /\ at'[t] = at[t]
  BY DEF IInv, WellTyped
<1>5. ProbeInv(u)'
  BY <1>1, SetupStays DEF IInv, WellTyped, CacheInv, ProbeInv, LevelInv, Asking, Both
<1>6. LevelInv(u)'
  BY <1>1, SetupStays DEF IInv, WellTyped, LevelInv, Asking, Width
<1>7. LoopInv(u)'
  BY <1>1, SetupStays DEF IInv, WellTyped, LevelInv, LoopInv, Asking, Loops
<1> QED
  BY <1>1, <1>2, <1>3, <1>4, <1>5, <1>6, <1>7 DEF Shown


\* So no step of a thread breaks what is shown of it.
LEMMA StepShown == ASSUME IInv, NEW u \in Threads, Step(u) PROVE Shown(u)
  BY AskInv, ReadSupportInv, DispatchSseInv, DispatchDefaultInv, InitAvxInv, StoreAvxInv,
     ReadyAvxInv, Init512Inv, Probe512Inv, Store512Inv, Ready512Inv, StopInv, RunLoopInv,
     NextLoopInv, ReturnInv DEF Step

\* No step breaks the invariant.
LEMMA StepInv == IInv /\ [Next]_vars => IInv'
<1> SUFFICES ASSUME IInv, [Next]_vars PROVE IInv'
  OBVIOUS
<1>1. ASSUME NEW u \in Threads, Step(u) PROVE IInv'
  <2>1. Shown(u)
    BY <1>1, StepShown
  <2>2. ASSUME NEW t \in Threads, t # u PROVE ProbeInv(t)' /\ LevelInv(t)' /\ LoopInv(t)'
    BY <2>1, <2>2, OthersKeep DEF Shown, IInv
  <2> QED
    BY <2>1, <2>2 DEF Shown, IInv
<1>2. CASE UNCHANGED vars
  <2>1. setup' = setup
    BY <1>2 DEF vars
  <2>2. WellTyped' /\ CacheInv'
    BY <1>2 DEF vars, setup, cache, work, IInv, WellTyped, CacheInv, Both
  <2>3. ASSUME NEW t \in Threads PROVE ProbeInv(t)' /\ LevelInv(t)' /\ LoopInv(t)'
    BY <1>2, <2>1, OthersKeep DEF vars, setup, cache, work, IInv, WellTyped
  <2> QED
    BY <2>2, <2>3 DEF IInv
<1> QED
  BY <1>1, <1>2 DEF Next

\* The invariant holds throughout.
LEMMA Invariance == Spec => []IInv
  BY InitInv, StepInv, PTL DEF Spec

-----------------------------------------------------------------------------
(* The theorems. *)

\* For any number of threads, any dimension, build and machine: however the
\* threads' first questions about the machine interleave in
\* initializePlatformSupport, each enters the widest kernel of its type and
\* metric that the machine supports and the dimension allows; the process stops
\* at an instruction only for want of AVX512BW in the kernel for bytes.
THEOREM WidestKernelEverywhere == Spec => []KernelOfTheMachine
<1>1. IInv => KernelOfTheMachine
  BY DEF IInv, KernelOfTheMachine, LevelInv, LoopInv
<1> QED
  BY <1>1, Invariance, PTL

\* For any dimension: computeDistance reads nothing past the vectors and falls
\* off its end only for L2 of float vectors of one to three dimensions.
THEOREM DefinedFromFourDimensions == Spec => []UndefinedOnlyForTinyL2
<1>1. IInv => UndefinedOnlyForTinyL2
  BY DEF IInv, UndefinedOnlyForTinyL2, LoopInv
<1> QED
  BY <1>1, Invariance, PTL

-----------------------------------------------------------------------------
(* The sum. *)

Registers(n) == [0 .. n - 1 -> [Coords -> Int]]

\* Two horizontal additions leave the sum of the first four lanes in lane 0 and
\* that of the next four in lane 4.
LEMMA HaddFour ==
    ASSUME NEW n \in {4, 8}, NEW r \in Registers(n)
    PROVE  Hadd(Hadd(r))[0] = [c \in Coords |-> r[0][c] + r[1][c] + r[2][c] + r[3][c]]
<1>1. DOMAIN r = 0 .. n - 1 /\ DOMAIN Hadd(r) = 0 .. n - 1
  BY DEF Registers, Hadd
<1>2. Hadd(r)[0] = Plus(r[0], r[1])
  BY <1>1 DEF Hadd
<1>3. Hadd(r)[1] = Plus(r[2], r[3])
  BY <1>1 DEF Hadd
<1>4. Hadd(Hadd(r))[0] = Plus(Hadd(r)[0], Hadd(r)[1])
  BY <1>1 DEF Hadd
<1>5. \A c \in Coords : r[0][c] \in Int /\ r[1][c] \in Int /\ r[2][c] \in Int /\ r[3][c] \in Int
  BY DEF Registers
<1> QED
  BY <1>2, <1>3, <1>4, <1>5 DEF Plus

\* Two horizontal additions add the upper four lanes of eight.
LEMMA HaddNextFour ==
    ASSUME NEW r \in Registers(8)
    PROVE  Hadd(Hadd(r))[4] = [c \in Coords |-> r[4][c] + r[5][c] + r[6][c] + r[7][c]]
<1>1. DOMAIN r = 0 .. 7 /\ DOMAIN Hadd(r) = 0 .. 7
  BY DEF Registers, Hadd
<1>2. Hadd(r)[4] = Plus(r[4], r[5])
  BY <1>1 DEF Hadd
<1>3. Hadd(r)[5] = Plus(r[6], r[7])
  BY <1>1 DEF Hadd
<1>4. Hadd(Hadd(r))[4] = Plus(Hadd(r)[4], Hadd(r)[5])
  BY <1>1 DEF Hadd
<1>5. \A c \in Coords : r[4][c] \in Int /\ r[5][c] \in Int /\ r[6][c] \in Int /\ r[7][c] \in Int
  BY DEF Registers
<1> QED
  BY <1>2, <1>3, <1>4, <1>5 DEF Plus

\* The coordinates from b to before p are in one lane each, once, and no other is
\* in any.
Spread(r, n, b, p) ==
    \A c \in Coords :
        \/ b <= c /\ c < p /\ \E h \in 0 .. n - 1 : \A l \in 0 .. n - 1 : r[l][c] = IF l = h THEN 1 ELSE 0
        \/ ~(b <= c /\ c < p) /\ \A l \in 0 .. n - 1 : r[l][c] = 0

\* Halving a register keeps what it holds.
LEMMA FoldSpread ==
    ASSUME NEW n \in {4, 8}, NEW b \in Nat, NEW p \in Nat, NEW r \in Registers(2 * n),
           Spread(r, 2 * n, b, p)
    PROVE  Fold(r, n) \in Registers(n) /\ Spread(Fold(r, n), n, b, p)
<1>1. \A l \in 0 .. n - 1, c \in Coords :
          r[l][c] \in Int /\ r[l + n][c] \in Int /\ Fold(r, n)[l][c] = r[l][c] + r[l + n][c]
  BY DEF Fold, Plus, Registers
<1>2. Fold(r, n) \in Registers(n)
  BY <1>1 DEF Fold, Plus, Registers
<1>3. ASSUME NEW c \in Coords, b <= c, c < p
      PROVE  \E h \in 0 .. n - 1 : \A l \in 0 .. n - 1 : Fold(r, n)[l][c] = IF l = h THEN 1 ELSE 0
  <2>1. PICK h \in 0 .. 2 * n - 1 : \A l \in 0 .. 2 * n - 1 : r[l][c] = IF l = h THEN 1 ELSE 0
    BY <1>3 DEF Spread
  <2>2. CASE h < n
    <3>1. \A l \in 0 .. n - 1 : Fold(r, n)[l][c] = IF l = h THEN 1 ELSE 0
      BY <1>1, <2>1, <2>2
    <3> QED
      BY <2>2, <3>1
  <2>3. CASE h >= n
    <3>1. \A l \in 0 .. n - 1 : Fold(r, n)[l][c] = IF l = h - n THEN 1 ELSE 0
      BY <1>1, <2>1, <2>3
    <3>2. h - n \in 0 .. n - 1
      BY <2>3
    <3> QED
      BY <3>1, <3>2
  <2> QED
    BY <2>2, <2>3
<1>4. ASSUME NEW c \in Coords, ~(b <= c /\ c < p), NEW l \in 0 .. n - 1 PROVE Fold(r, n)[l][c] = 0
  BY <1>1, <1>4 DEF Spread
<1> QED
  BY <1>2, <1>3, <1>4 DEF Spread

\* The reduction of eight lanes holds each coordinate once.
LEMMA EightSpread ==
    ASSUME NEW b \in Nat, NEW p \in Nat, NEW q \in Registers(8), Spread(q, 8, b, p)
    PROVE  Plus(Hadd(Hadd(q))[0], Hadd(Hadd(q))[4]) = [c \in Coords |-> IF b <= c /\ c < p THEN 1 ELSE 0]
<1>1. \A c \in Coords : \A l \in 0 .. 7 : q[l][c] \in Int
  BY DEF Registers
<1>2. ASSUME NEW c \in Coords
      PROVE  (q[0][c] + q[1][c] + q[2][c] + q[3][c]) + (q[4][c] + q[5][c] + q[6][c] + q[7][c])
                 = IF b <= c /\ c < p THEN 1 ELSE 0
  <2>1. CASE b <= c /\ c < p
    <3>1. PICK h \in 0 .. 7 : \A l \in 0 .. 7 : q[l][c] = IF l = h THEN 1 ELSE 0
      BY <2>1 DEF Spread
    <3>2. /\ q[0][c] = (IF h = 0 THEN 1 ELSE 0) /\ q[1][c] = (IF h = 1 THEN 1 ELSE 0)
          /\ q[2][c] = (IF h = 2 THEN 1 ELSE 0) /\ q[3][c] = (IF h = 3 THEN 1 ELSE 0)
          /\ q[4][c] = (IF h = 4 THEN 1 ELSE 0) /\ q[5][c] = (IF h = 5 THEN 1 ELSE 0)
          /\ q[6][c] = (IF h = 6 THEN 1 ELSE 0) /\ q[7][c] = (IF h = 7 THEN 1 ELSE 0)
      BY <3>1
    <3> QED
      BY <2>1, <3>2
  <2>2. CASE ~(b <= c /\ c < p)
    <3>1. \A l \in 0 .. 7 : q[l][c] = 0
      BY <2>2 DEF Spread
    <3> QED
      BY <2>2, <3>1
  <2> QED
    BY <2>1, <2>2
<1>3. Hadd(Hadd(q))[0] = [c \in Coords |-> q[0][c] + q[1][c] + q[2][c] + q[3][c]]
  BY HaddFour
<1>4. Hadd(Hadd(q))[4] = [c \in Coords |-> q[4][c] + q[5][c] + q[6][c] + q[7][c]]
  BY HaddNextFour
<1>5. Plus(Hadd(Hadd(q))[0], Hadd(Hadd(q))[4]) =
          [c \in Coords |-> (q[0][c] + q[1][c] + q[2][c] + q[3][c]) + (q[4][c] + q[5][c] + q[6][c] + q[7][c])]
  BY <1>3, <1>4 DEF Plus
<1> QED
  BY <1>2, <1>5

\* The sum of a register is what it holds.
LEMMA ReduceAddSpread ==
    ASSUME WellTyped, NEW n \in {1, 4, 8, 16}, NEW b \in Nat, NEW p \in Nat, NEW r \in Registers(n),
           Spread(r, n, b, p)
    PROVE  ReduceAdd(n, r) = [c \in Coords |-> IF b <= c /\ c < p THEN 1 ELSE 0]
<1>2. CASE n = 1
  <2>1. \A c \in Coords : r[0][c] = IF b <= c /\ c < p THEN 1 ELSE 0
    BY <1>2 DEF Spread
  <2>2. r[0] \in [Coords -> Int]
    BY <1>2 DEF Registers
  <2> QED
    BY <1>2, <2>1, <2>2 DEF ReduceAdd
<1>3. CASE n = 4
  <2>1. \A c \in Coords : \A l \in 0 .. 3 : r[l][c] \in Int
    BY <1>3 DEF Registers
  <2>2. ASSUME NEW c \in Coords
        PROVE  r[0][c] + r[1][c] + r[2][c] + r[3][c] = IF b <= c /\ c < p THEN 1 ELSE 0
    <3>1. CASE b <= c /\ c < p
      <4>1. PICK h \in 0 .. 3 : \A l \in 0 .. 3 : r[l][c] = IF l = h THEN 1 ELSE 0
        BY <1>3, <3>1 DEF Spread
      <4> QED
        BY <3>1, <4>1
    <3>2. CASE ~(b <= c /\ c < p)
      BY <1>3, <3>2 DEF Spread
    <3> QED
      BY <3>1, <3>2
  <2> QED
    BY <1>3, <2>2, HaddFour DEF ReduceAdd
<1>4. CASE n = 8
  BY <1>4, EightSpread DEF ReduceAdd
<1>5. CASE n = 16
  <2>1. Fold(r, 8) \in Registers(8) /\ Spread(Fold(r, 8), 8, b, p)
    BY <1>5, FoldSpread
  <2> QED
    BY <1>5, <2>1, EightSpread DEF ReduceAdd
<1> QED
  BY <1>2, <1>3, <1>4, <1>5

\* Every coordinate of a loop has a lane.
LEMMA LaneInRegister ==
    ASSUME NEW st \in {1, 4, 8, 16, 64}, NEW al, NEW n \in {1, 4, 8, 16}, st = 64 => n = 16, NEW i \in Nat, i < st
    PROVE  Lane(Blocks(st, al, n), i) \in 0 .. n - 1
<1>1. CASE st = 64
  BY <1>1 DEF Lane, Blocks
<1>2. CASE st # 64
  BY <1>2 DEF Lane, Blocks
<1> QED
  BY <1>1, <1>2


\* A loop from p on adds the coordinates up to its end.
LEMMA AddedSpread ==
    ASSUME WellTyped, NEW st \in {1, 4, 8, 16, 64}, NEW al \in {1, 4, 8, 16}, NEW n \in {1, 4, 8, 16},
           st = 64 => n = 16, NEW b \in Nat, NEW p \in Nat, b <= p,
           NEW r \in Registers(n), Spread(r, n, b, p),
           LoopEnd(Blocks(st, al, n)) \in Nat, p <= LoopEnd(Blocks(st, al, n))
    PROVE  /\ Added(r, Blocks(st, al, n), p) \in Registers(n)
           /\ Spread(Added(r, Blocks(st, al, n), p), n, b, LoopEnd(Blocks(st, al, n)))
<1> DEFINE loop == Blocks(st, al, n)
           z == LoopEnd(loop)
           new == Added(r, loop, p)
<1>a. z \in Nat /\ p <= z /\ loop.step = st
  BY DEF Blocks
<1>b. Coords \subseteq Nat
  BY DEF WellTyped, Coords
<1>1. \A l \in 0 .. n - 1, c \in Coords :
          /\ r[l][c] \in Int
          /\ new[l][c] = IF p <= c /\ c < z /\ Lane(loop, (c - p) % st) = l THEN r[l][c] + 1 ELSE r[l][c]
  BY <1>a DEF Added, Registers
<1>2. new \in Registers(n)
  BY <1>1 DEF Added, Registers
<1>3. ASSUME NEW c \in Coords, p <= c, c < z
      PROVE  \E h \in 0 .. n - 1 : \A l \in 0 .. n - 1 : new[l][c] = IF l = h THEN 1 ELSE 0
  <2>1. (c - p) % st \in Nat /\ (c - p) % st < st
    BY <1>3, <1>b
  <2>2. Lane(loop, (c - p) % st) \in 0 .. n - 1
    BY <2>1, LaneInRegister
  <2>3. \A l \in 0 .. n - 1 : r[l][c] = 0
    BY <1>3, <1>b DEF Spread
  <2>4. \A l \in 0 .. n - 1 : new[l][c] = IF l = Lane(loop, (c - p) % st) THEN 1 ELSE 0
    BY <1>1, <1>3, <2>3
  <2> HIDE DEF new, loop
  <2> QED
    BY <2>2, <2>4
<1>4. ASSUME NEW c \in Coords, ~(p <= c /\ c < z), NEW l \in 0 .. n - 1 PROVE new[l][c] = r[l][c]
  BY <1>1, <1>4
<1> HIDE DEF new, z, loop
<1>5. ASSUME NEW c \in Coords, b <= c, c < z
      PROVE  \E h \in 0 .. n - 1 : \A l \in 0 .. n - 1 : new[l][c] = IF l = h THEN 1 ELSE 0
  <2>1. CASE p <= c
    BY <1>3, <1>5, <2>1
  <2>2. CASE ~(p <= c)
    <3>1. b <= c /\ c < p
      BY <1>5, <1>b, <2>2
    <3>2. PICK h \in 0 .. n - 1 : \A l \in 0 .. n - 1 : r[l][c] = IF l = h THEN 1 ELSE 0
      BY <3>1 DEF Spread
    <3> QED
      BY <1>4, <2>2, <3>2
  <2> QED
    BY <2>1, <2>2
<1>6. ASSUME NEW c \in Coords, ~(b <= c /\ c < z), NEW l \in 0 .. n - 1 PROVE new[l][c] = 0
  <2>1. ~(b <= c /\ c < p) /\ ~(p <= c /\ c < z)
    BY <1>a, <1>b, <1>6
  <2> QED
    BY <1>4, <2>1 DEF Spread
<1>7. new \in Registers(n) /\ Spread(new, n, b, z)
  BY <1>2, <1>5, <1>6 DEF Spread
<1> QED
  BY <1>7 DEF new, z, loop

AnyLoop == {Scalar, Blocks(4, 4, 4), Blocks(8, 16, 4), Blocks(8, 16, 8), Blocks(16, 8, 8), Blocks(16, 16, 4),
            Blocks(16, 16, 8), Blocks(16, 16, 16), Blocks(64, 1, 16)}

\* A loop of a kernel that is entered is one of those listed.
LEMMA LoopIsAny ==
    ASSUME WellTyped, NEW k, IsKernelOfTheMachine(k), NEW s \in 1 .. Len(Loops(k))
    PROVE  Loops(k)[s] \in AnyLoop
<1>1. CASE \E n \in {4, 8, 16} : Loops(k) = <<Blocks(16, 16, n)>> /\ dimension % 16 = 0
  BY <1>1 DEF AnyLoop
<1>2. CASE Loops(k) = <<Blocks(16, 8, 8)>> /\ dimension % 16 = 0
  BY <1>2 DEF AnyLoop
<1>3. CASE Loops(k) = <<Blocks(64, 1, 16)>> /\ dimension % 64 = 0
  BY <1>3 DEF AnyLoop
<1>4. CASE Loops(k) = <<Blocks(4, 4, 4)>> /\ dimension % 4 = 0
  BY <1>4 DEF AnyLoop
<1>5. CASE Loops(k) = <<Scalar>>
  BY <1>5 DEF AnyLoop
<1>6. CASE \E l \in {16, 4} : Loops(k) = <<Blocks(l, l, 4), Scalar>>
  BY <1>6 DEF AnyLoop
<1>7. CASE \E l \in {16, 8}, n \in {4, 8} : Loops(k) = <<Blocks(l, 16, n), Blocks(4, 4, 4)>> /\ dimension % 4 = 0
  BY <1>7 DEF AnyLoop
<1>8. CASE Loops(k) = <<Blocks(16, 16, 4), Blocks(4, 4, 4), Scalar>>
  BY <1>8 DEF AnyLoop
<1> QED
  BY <1>1, <1>2, <1>3, <1>4, <1>5, <1>6, <1>7, <1>8, Shapes

\* What the loops listed look like.
LEMMA LoopShape ==
    ASSUME NEW loop \in AnyLoop
    PROVE  \E st \in {1, 4, 8, 16, 64}, al \in {1, 4, 8, 16}, n \in {1, 4, 8, 16} :
               loop = Blocks(st, al, n) /\ loop.lanes = n /\ (st = 64 => n = 16)
<1>1. \A st, al, n : Blocks(st, al, n).lanes = n
  BY DEF Blocks
<1> QED
  BY <1>1 DEF AnyLoop, Scalar

\* The last loop ends with the vector.
LEMMA LastLoop ==
    ASSUME WellTyped, NEW k, IsKernelOfTheMachine(k)
    PROVE  LoopEnd(Loops(k)[Len(Loops(k))]) = dimension
<1> dimension \in Nat
  BY DEF WellTyped
<1>1. CASE \E n \in {4, 8, 16} : Loops(k) = <<Blocks(16, 16, n)>> /\ dimension % 16 = 0
  BY <1>1 DEF Blocks, Scalar, LoopEnd
<1>2. CASE Loops(k) = <<Blocks(16, 8, 8)>> /\ dimension % 16 = 0
  BY <1>2 DEF Blocks, Scalar, LoopEnd
<1>3. CASE Loops(k) = <<Blocks(64, 1, 16)>> /\ dimension % 64 = 0
  BY <1>3 DEF Blocks, Scalar, LoopEnd
<1>4. CASE Loops(k) = <<Blocks(4, 4, 4)>> /\ dimension % 4 = 0
  BY <1>4 DEF Blocks, Scalar, LoopEnd
<1>5. CASE Loops(k) = <<Scalar>>
  BY <1>5 DEF Blocks, Scalar, LoopEnd
<1>6. CASE \E l \in {16, 4} : Loops(k) = <<Blocks(l, l, 4), Scalar>>
  BY <1>6 DEF Blocks, Scalar, LoopEnd
<1>7. CASE \E l \in {16, 8}, n \in {4, 8} : Loops(k) = <<Blocks(l, 16, n), Blocks(4, 4, 4)>> /\ dimension % 4 = 0
  BY <1>7 DEF Blocks, Scalar, LoopEnd
<1>8. CASE Loops(k) = <<Blocks(16, 16, 4), Blocks(4, 4, 4), Scalar>>
  BY <1>8 DEF Blocks, Scalar, LoopEnd
<1> QED
  BY <1>1, <1>2, <1>3, <1>4, <1>5, <1>6, <1>7, <1>8, Shapes

\* The register of the next loop is the same, half as wide or a scalar.
LEMMA NextLoopShape ==
    ASSUME WellTyped, NEW k, IsKernelOfTheMachine(k), NEW s \in 1 .. Len(Loops(k)), s < Len(Loops(k))
    PROVE  \/ Loops(k)[s].lanes \in {4, 8} /\ Loops(k)[s + 1].lanes \in {1, Loops(k)[s].lanes}
           \/ Loops(k)[s].lanes = 8 /\ Loops(k)[s + 1].lanes = 4
<1>1. CASE \E n \in {4, 8, 16} : Loops(k) = <<Blocks(16, 16, n)>> /\ dimension % 16 = 0
  BY <1>1 DEF Blocks, Scalar
<1>2. CASE Loops(k) = <<Blocks(16, 8, 8)>> /\ dimension % 16 = 0
  BY <1>2 DEF Blocks, Scalar
<1>3. CASE Loops(k) = <<Blocks(64, 1, 16)>> /\ dimension % 64 = 0
  BY <1>3 DEF Blocks, Scalar
<1>4. CASE Loops(k) = <<Blocks(4, 4, 4)>> /\ dimension % 4 = 0
  BY <1>4 DEF Blocks, Scalar
<1>5. CASE Loops(k) = <<Scalar>>
  BY <1>5 DEF Blocks, Scalar
<1>6. CASE \E l \in {16, 4} : Loops(k) = <<Blocks(l, l, 4), Scalar>>
  BY <1>6 DEF Blocks, Scalar
<1>7. CASE \E l \in {16, 8}, n \in {4, 8} : Loops(k) = <<Blocks(l, 16, n), Blocks(4, 4, 4)>> /\ dimension % 4 = 0
  BY <1>7 DEF Blocks, Scalar
<1>8. CASE Loops(k) = <<Blocks(16, 16, 4), Blocks(4, 4, 4), Scalar>>
  BY <1>8 DEF Blocks, Scalar
<1> QED
  BY <1>1, <1>2, <1>3, <1>4, <1>5, <1>6, <1>7, <1>8, Shapes

\* The loop that is run adds from here on: a residual counts apart from the body.
Base(k, s) == IF Loops(k)[s].lanes = 1 THEN Start(k, s) ELSE 0

\* What register and sum hold in loop s of kernel k, p coordinates read.
Summed(k, s, p, r, f) ==
    /\ r \in Registers(Loops(k)[s].lanes)
    /\ Spread(r, Loops(k)[s].lanes, Base(k, s), p)
    /\ f = Form(0, [c \in Coords |-> IF c < Base(k, s) THEN 1 ELSE 0])

\* Where a loop begins and ends are numbers in this order.
LEMMA StartInNat ==
    ASSUME WellTyped, NEW k, IsKernelOfTheMachine(k), NEW s \in 1 .. Len(Loops(k))
    PROVE  /\ Start(k, s) \in Nat /\ Base(k, s) \in Nat /\ Base(k, s) <= Start(k, s)
           /\ LoopEnd(Loops(k)[s]) \in Nat /\ Start(k, s) <= LoopEnd(Loops(k)[s])
<1>1. Start(k, s) \in Nat
  <2>1. CASE s = 1
    BY <2>1 DEF Start
  <2>2. CASE s # 1
    <3>1. s - 1 \in 1 .. Len(Loops(k))
      BY <2>2, HasALoop
    <3> QED
      BY <2>2, <3>1, LoopsFit DEF Start
  <2> QED
    BY <2>1, <2>2
<1>2. Fits(Loops(k)[s], Start(k, s)) /\ LoopEnd(Loops(k)[s]) \in Nat
  BY LoopsFit
<1> QED
  BY <1>1, <1>2 DEF Base, Fits

\* A register of zeros has summed nothing.
LEMMA EmptyRegister ==
    ASSUME WellTyped, NEW n \in {1, 4, 8, 16}, NEW b \in Nat
    PROVE  Register(n) \in Registers(n) /\ Spread(Register(n), n, b, b)
<1>1. \A l \in 0 .. n - 1, c \in Coords : Register(n)[l][c] = 0
  BY DEF Register, Zero
<1>2. \A c \in Coords : c \in Nat
  BY DEF WellTyped, Coords
<1>3. Register(n) \in Registers(n)
  BY DEF Register, Registers, Zero
<1> QED
  BY <1>1, <1>2, <1>3 DEF Spread

\* The widths registers have.
LEMMA LanesOfLoop ==
    ASSUME WellTyped, NEW k, IsKernelOfTheMachine(k), NEW s \in 1 .. Len(Loops(k))
    PROVE  Loops(k)[s].lanes \in {1, 4, 8, 16}
<1>1. PICK st \in {1, 4, 8, 16, 64}, al \in {1, 4, 8, 16}, n \in {1, 4, 8, 16} : Loops(k)[s].lanes = n
  BY LoopIsAny, LoopShape
<1> QED
  BY <1>1

\* A kernel begins with nothing summed.
LEMMA EnterSummed ==
    ASSUME WellTyped, NEW k, IsKernelOfTheMachine(k)
    PROVE  Summed(k, 1, 0, Register(Loops(k)[1].lanes), Form(0, Zero))
<1>1. 1 \in 1 .. Len(Loops(k))
  BY HasALoop
<1>2. Loops(k)[1].lanes \in {1, 4, 8, 16}
  BY <1>1, LanesOfLoop
<1>3. Base(k, 1) = 0
  BY DEF Base, Start
<1>4. Zero = [c \in Coords |-> IF c < 0 THEN 1 ELSE 0]
  BY DEF Zero, Coords, WellTyped
<1> QED
  BY <1>2, <1>3, <1>4, EmptyRegister DEF Summed

\* A loop sums the coordinates from its start to its end.
LEMMA RunSummed ==
    ASSUME WellTyped, NEW k, IsKernelOfTheMachine(k), NEW s \in 1 .. Len(Loops(k)), NEW r, NEW f,
           Summed(k, s, Start(k, s), r, f)
    PROVE  Summed(k, s, LoopEnd(Loops(k)[s]), Added(r, Loops(k)[s], Start(k, s)), f)
<1>1. PICK st \in {1, 4, 8, 16, 64}, al \in {1, 4, 8, 16}, n \in {1, 4, 8, 16} :
          Loops(k)[s] = Blocks(st, al, n) /\ Loops(k)[s].lanes = n /\ (st = 64 => n = 16)
  BY LoopIsAny, LoopShape
<1>2. /\ Start(k, s) \in Nat /\ Base(k, s) \in Nat /\ Base(k, s) <= Start(k, s)
      /\ LoopEnd(Loops(k)[s]) \in Nat /\ Start(k, s) <= LoopEnd(Loops(k)[s])
  BY StartInNat
<1>4. r \in Registers(n) /\ Spread(r, n, Base(k, s), Start(k, s))
  BY <1>1 DEF Summed
<1>3. /\ Added(r, Blocks(st, al, n), Start(k, s)) \in Registers(n)
      /\ Spread(Added(r, Blocks(st, al, n), Start(k, s)), n, Base(k, s), LoopEnd(Blocks(st, al, n)))
  <2> DEFINE p == Start(k, s)
             b == Base(k, s)
  <2>1. b \in Nat /\ p \in Nat /\ b <= p
    BY <1>2
  <2>2. LoopEnd(Blocks(st, al, n)) \in Nat /\ p <= LoopEnd(Blocks(st, al, n))
    BY <1>1, <1>2
  <2>4. r \in Registers(n)
    BY <1>4
  <2>5. Spread(r, n, b, p)
    BY <1>4
  <2>6. st = 64 => n = 16
    BY <1>1
  <2> HIDE DEF p, b
  <2>3. /\ Added(r, Blocks(st, al, n), p) \in Registers(n)
        /\ Spread(Added(r, Blocks(st, al, n), p), n, b, LoopEnd(Blocks(st, al, n)))
    BY ONLY WellTyped, <2>1, <2>2, <2>4, <2>5, <2>6, AddedSpread, SMTT(60)
  <2> QED
    BY <2>3 DEF p, b
<1> QED
  BY <1>1, <1>3, <1>4 DEF Summed

\* Returning an inner product and taking that back leaves the sum.
LEMMA TakenBackIsSum ==
    ASSUME NEW f \in [Coords -> Int]
    PROVE  TakenBack(Returned(Form(0, f))) = Form(0, f)
<1>1. \A c \in Coords : f[c] \in Int /\ -(-f[c]) = f[c]
  OBVIOUS
<1>2. CASE metric = "L2"
  BY <1>2 DEF TakenBack, Returned
<1>3. CASE metric # "L2"
  <2>1. Returned(Form(0, f)) = Form(1, [c \in Coords |-> -f[c]])
    BY <1>3 DEF Returned, Form
  <2> DEFINE g == [c \in Coords |-> -f[c]]
  <2>2. MinusOne(Form(1, g)) = Form(0, g)
    <3> HIDE DEF g
    <3> QED
      BY DEF MinusOne, Form
  <2>3. TimesMinusOne(Form(0, g)) = Form(0, [c \in Coords |-> -(-f[c])])
    BY DEF TimesMinusOne, Form
  <2>4. [c \in Coords |-> -(-f[c])] = f
    BY <1>1
  <2> QED
    BY <1>3, <2>1, <2>2, <2>3, <2>4 DEF TakenBack
<1> QED
  BY <1>2, <1>3

\* Before a residual the register is summed up, and the residual starts with none.
LEMMA ResidualSummed ==
    ASSUME WellTyped, NEW k, IsKernelOfTheMachine(k), NEW s \in 1 .. Len(Loops(k)), s < Len(Loops(k)),
           NEW r, NEW f, Summed(k, s, LoopEnd(Loops(k)[s]), r, f), Loops(k)[s + 1].lanes = 1
    PROVE  Summed(k, s + 1, LoopEnd(Loops(k)[s]), Register(1),
                  TakenBack(Returned(Form(0, ReduceAdd(Loops(k)[s].lanes, r)))))
<1> DEFINE z == LoopEnd(Loops(k)[s])
<1>1. Loops(k)[s].lanes \in {4, 8}
  BY NextLoopShape
<1>2. Base(k, s) = 0 /\ z \in Nat
  BY <1>1, StartInNat DEF Base
<1>3. ReduceAdd(Loops(k)[s].lanes, r) = [c \in Coords |-> IF 0 <= c /\ c < z THEN 1 ELSE 0]
  BY <1>1, <1>2, ReduceAddSpread DEF Summed
<1>4. [c \in Coords |-> IF 0 <= c /\ c < z THEN 1 ELSE 0] = [c \in Coords |-> IF c < z THEN 1 ELSE 0]
  BY <1>2 DEF Coords, WellTyped
<1>5. TakenBack(Returned(Form(0, ReduceAdd(Loops(k)[s].lanes, r))))
          = Form(0, [c \in Coords |-> IF c < z THEN 1 ELSE 0])
  <2> DEFINE f0 == [c \in Coords |-> IF c < z THEN 1 ELSE 0]
  <2>1. f0 \in [Coords -> Int] /\ ReduceAdd(Loops(k)[s].lanes, r) = f0
    BY <1>3, <1>4
  <2> HIDE DEF f0
  <2>2. TakenBack(Returned(Form(0, f0))) = Form(0, f0)
    BY <2>1, TakenBackIsSum
  <2> QED
    BY <2>1, <2>2 DEF f0
<1>6. Base(k, s + 1) = z
  BY HasALoop DEF Base, Start
<1>7. Register(1) \in Registers(1) /\ Spread(Register(1), 1, z, z)
  BY <1>2, EmptyRegister
<1> QED
  BY <1>5, <1>6, <1>7 DEF Summed

\* The fold between two loops loses nothing.
LEMMA BodySummed ==
    ASSUME WellTyped, NEW k, IsKernelOfTheMachine(k), NEW s \in 1 .. Len(Loops(k)), s < Len(Loops(k)),
           NEW r, NEW f, Summed(k, s, LoopEnd(Loops(k)[s]), r, f), Loops(k)[s + 1].lanes # 1
    PROVE  Summed(k, s + 1, LoopEnd(Loops(k)[s]),
                  IF Loops(k)[s + 1].lanes < Loops(k)[s].lanes THEN Fold(r, Loops(k)[s + 1].lanes) ELSE r, f)
<1> DEFINE z == LoopEnd(Loops(k)[s])
<1>1. \/ Loops(k)[s].lanes \in {4, 8} /\ Loops(k)[s + 1].lanes = Loops(k)[s].lanes
      \/ Loops(k)[s].lanes = 8 /\ Loops(k)[s + 1].lanes = 4
  BY NextLoopShape
<1>2. Base(k, s) = 0 /\ Base(k, s + 1) = 0 /\ z \in Nat
  BY <1>1, StartInNat DEF Base
<1>3. CASE Loops(k)[s + 1].lanes = Loops(k)[s].lanes
  BY <1>1, <1>2, <1>3 DEF Summed
<1>4. CASE Loops(k)[s].lanes = 8 /\ Loops(k)[s + 1].lanes = 4
  <2>1. Fold(r, 4) \in Registers(4) /\ Spread(Fold(r, 4), 4, 0, z)
    BY <1>2, <1>4, FoldSpread DEF Summed
  <2> QED
    BY <1>2, <1>4, <2>1 DEF Summed
<1> QED
  BY <1>1, <1>3, <1>4

\* After the last loop every coordinate was counted once.
LEMMA ReturnedSum ==
    ASSUME WellTyped, NEW k, IsKernelOfTheMachine(k), NEW s \in 1 .. Len(Loops(k)), s = Len(Loops(k)),
           NEW r, NEW f, Summed(k, s, LoopEnd(Loops(k)[s]), r, f)
    PROVE  f.one = 0 /\ Plus(f.coef, ReduceAdd(Loops(k)[s].lanes, r)) = [c \in Coords |-> 1]
<1>1. LoopEnd(Loops(k)[s]) = dimension /\ dimension \in Nat
  BY LastLoop DEF WellTyped
<1>2. Base(k, s) \in Nat /\ Loops(k)[s].lanes \in {1, 4, 8, 16}
  BY StartInNat, LanesOfLoop
<1>3. ReduceAdd(Loops(k)[s].lanes, r) = [c \in Coords |-> IF Base(k, s) <= c /\ c < dimension THEN 1 ELSE 0]
  BY <1>1, <1>2, ReduceAddSpread DEF Summed
<1>4. f.one = 0 /\ f.coef = [c \in Coords |-> IF c < Base(k, s) THEN 1 ELSE 0]
  BY DEF Summed, Form
<1>5. \A c \in Coords : (IF c < Base(k, s) THEN 1 ELSE 0)
                          + (IF Base(k, s) <= c /\ c < dimension THEN 1 ELSE 0) = 1
  BY <1>1, <1>2 DEF Coords
<1> QED
  BY <1>3, <1>4, <1>5 DEF Plus

-----------------------------------------------------------------------------
(* The invariant of the sum. *)

SumInv(t) ==
    /\ pc[t] \in Asking => total[t] = Form(0, Zero)
    /\ pc[t] \in {"loop", "looped", "stopped"} => Summed(kernel[t], stage[t], at[t], acc[t], total[t])
    /\ pc[t] = "done" => total[t] = Returned(Form(0, [c \in Coords |-> 1]))

\* The invariant of the threads and what their registers and sums hold.
SInv ==
    /\ IInv
    /\ acc = [t \in Threads |-> acc[t]] /\ total = [t \in Threads |-> total[t]]
    /\ \A t \in Threads : SumInv(t)

\* The build, the machine and the dimension do not change under a sum.
LEMMA SumsStay ==
    ASSUME setup' = setup
    PROVE  /\ \A k, s, p, r, f : Summed(k, s, p, r, f)' = Summed(k, s, p, r, f)
           /\ \A f : Returned(f)' = Returned(f)
           /\ Coords' = Coords /\ Zero' = Zero
<1> USE DEF setup
<1>1. Coords' = Coords
  BY DEF Coords
<1>2. \A f : Returned(f)' = Returned(f)
  BY <1>1 DEF Returned, Form
<1>3. Zero' = Zero
  BY <1>1 DEF Zero
<1>4. \A n : Registers(n)' = Registers(n)
  BY <1>1 DEF Registers
<1>5. \A r, n, b, p : Spread(r, n, b, p)' = Spread(r, n, b, p)
  BY <1>1 DEF Spread
<1>6. \A k, s : Base(k, s)' = Base(k, s)
  BY SetupStays DEF Base, Loops
<1>7. \A k, s, p, r, f : Summed(k, s, p, r, f)' = Summed(k, s, p, r, f)
  BY <1>1, <1>4, <1>5, <1>6 DEF Summed, Loops
<1> QED
  BY <1>1, <1>2, <1>3, <1>7

\* A thread that does nothing keeps its sum.
LEMMA OthersKeepSum ==
    ASSUME setup' = setup, NEW t \in Threads, SumInv(t),
           pc'[t] = pc[t], kernel'[t] = kernel[t], stage'[t] = stage[t], at'[t] = at[t],
           acc'[t] = acc[t], total'[t] = total[t]
    PROVE  SumInv(t)'
<1>1. (Summed(kernel[t], stage[t], at[t], acc[t], total[t]))'
          = Summed(kernel[t], stage[t], at[t], acc[t], total[t])
  BY SumsStay
<1>2. (Returned(Form(0, [c \in Coords |-> 1])))' = Returned(Form(0, [c \in Coords |-> 1]))
  BY SumsStay DEF Form
<1>3. (Form(0, Zero))' = Form(0, Zero)
  BY SumsStay DEF Form
<1> QED
  BY <1>1, <1>2, <1>3 DEF SumInv, Asking

\* A thread that enters a kernel.
LEMMA EnterSum ==
    ASSUME SInv, IInv', setup' = setup, NEW u \in Threads, pc[u] \in Asking,
           pc'[u] = "loop", stage'[u] = stage[u], at'[u] = at[u], total'[u] = total[u],
           acc'[u] = Register(Loops(kernel'[u])[1].lanes)
    PROVE  SumInv(u)'
<1>1. stage[u] = 1 /\ at[u] = 0 /\ total[u] = Form(0, Zero)
  BY DEF SInv, IInv, LevelInv, SumInv
<1>2. IsKernelOfTheMachine(kernel'[u])
  BY SetupStays DEF IInv, LoopInv, Asking
<1>3. Summed(kernel'[u], 1, 0, Register(Loops(kernel'[u])[1].lanes), Form(0, Zero))
  BY <1>2, EnterSummed DEF SInv, IInv
<1>4. (Summed(kernel[u], stage[u], at[u], acc[u], total[u]))'
          = Summed(kernel'[u], 1, 0, Register(Loops(kernel'[u])[1].lanes), Form(0, Zero))
  BY <1>1, SumsStay
<1> QED
  BY <1>3, <1>4 DEF SumInv, Asking

\* A loop keeps the sums right.
LEMMA RunLoopSum ==
    ASSUME SInv, IInv', NEW u \in Threads, RunLoop(u)
    PROVE  SumInv(u)'
<1> DEFINE k == kernel[u]
           s == stage[u]
<1>1. setup' = setup /\ kernel'[u] = k /\ stage'[u] = s /\ total'[u] = total[u] /\ pc[u] = "loop"
  BY DEF RunLoop, setup
<1>2. /\ WellTyped /\ IsKernelOfTheMachine(k) /\ s \in 1 .. Len(Loops(k))
      /\ at[u] = Start(k, s) /\ Summed(k, s, at[u], acc[u], total[u])
  BY <1>1 DEF SInv, IInv, LoopInv, SumInv, Asking
<1>3. Fits(Loops(k)[s], at[u])
  BY <1>2, LoopsFit
<1>4. /\ acc'[u] = Added(acc[u], Loops(k)[s], at[u])
      /\ at'[u] = LoopEnd(Loops(k)[s]) /\ pc'[u] = "looped"
  BY <1>3 DEF RunLoop, Goto, Loop, SInv, IInv, WellTyped
<1> HIDE DEF k, s
<1>5. Summed(k, s, at'[u], acc'[u], total[u])
  BY <1>2, <1>4, RunSummed
<1>6. Summed(kernel[u], stage[u], at[u], acc[u], total[u])' = Summed(k, s, at'[u], acc'[u], total[u])
  BY <1>1, SumsStay
<1> QED
  BY <1>4, <1>5, <1>6 DEF SumInv, Asking

\* So does what happens between two loops.
LEMMA NextLoopSum ==
    ASSUME SInv, IInv', NEW u \in Threads, NextLoop(u)
    PROVE  SumInv(u)'
<1> DEFINE k == kernel[u]
           s == stage[u]
           z == LoopEnd(Loops(k)[s])
<1>1. /\ setup' = setup /\ kernel'[u] = k /\ at'[u] = at[u]
      /\ pc[u] = "looped" /\ s < Len(Loops(k))
  BY DEF NextLoop, setup
<1>2. /\ WellTyped /\ IsKernelOfTheMachine(k) /\ s \in 1 .. Len(Loops(k))
      /\ at[u] = z /\ Summed(k, s, z, acc[u], total[u])
  BY <1>1 DEF SInv, IInv, LoopInv, SumInv, Asking
<1>3. stage'[u] = s + 1 /\ pc'[u] = "loop"
  BY DEF NextLoop, Goto, SInv, IInv, WellTyped
<1>4. Loops(k)[s + 1].lanes = 1 =>
          /\ total'[u] = TakenBack(Returned(Form(0, ReduceAdd(Loops(k)[s].lanes, acc[u]))))
          /\ acc'[u] = Register(1)
  BY DEF NextLoop, Loop, SInv
<1>5. Loops(k)[s + 1].lanes # 1 =>
          /\ total'[u] = total[u]
          /\ acc'[u] = IF Loops(k)[s + 1].lanes < Loops(k)[s].lanes
                       THEN Fold(acc[u], Loops(k)[s + 1].lanes) ELSE acc[u]
  BY DEF NextLoop, Loop, SInv
<1>6. Summed(k, s + 1, z, acc'[u], total'[u])
  <2> HIDE DEF k, s
  <2> QED
    BY <1>1, <1>2, <1>4, <1>5, ResidualSummed, BodySummed
<1>7. Summed(kernel[u], stage[u], at[u], acc[u], total[u])' = Summed(k, s + 1, z, acc'[u], total'[u])
  BY <1>1, <1>2, <1>3, SumsStay
<1> QED
  BY <1>3, <1>6, <1>7 DEF SumInv, Asking

\* So does the end of a kernel.
LEMMA ReturnSum ==
    ASSUME SInv, NEW u \in Threads, Return(u)
    PROVE  SumInv(u)'
<1> DEFINE k == kernel[u]
           s == stage[u]
<1>1. setup' = setup /\ pc[u] = "looped" /\ s = Len(Loops(k))
  BY DEF Return, setup
<1>2. /\ WellTyped /\ IsKernelOfTheMachine(k) /\ s \in 1 .. Len(Loops(k))
      /\ Summed(k, s, LoopEnd(Loops(k)[s]), acc[u], total[u])
  BY <1>1 DEF SInv, IInv, LoopInv, SumInv, Asking
<1>3. /\ pc'[u] = "done"
      /\ total'[u] = Returned(Form(total[u].one, Plus(total[u].coef, ReduceAdd(Loops(k)[s].lanes, acc[u]))))
  BY DEF Return, Goto, Loop, SInv, IInv, WellTyped
<1>4. total[u].one = 0 /\ Plus(total[u].coef, ReduceAdd(Loops(k)[s].lanes, acc[u])) = [c \in Coords |-> 1]
  <2>1. WellTyped /\ IsKernelOfTheMachine(k)
    BY <1>2
  <2>2. s \in 1 .. Len(Loops(k)) /\ s = Len(Loops(k))
    BY <1>1, <1>2
  <2>3. Summed(k, s, LoopEnd(Loops(k)[s]), acc[u], total[u])
    BY <1>2
  <2>4. \A q \in 1 .. Len(Loops(k)) : \A r, f :
            q = Len(Loops(k)) /\ Summed(k, q, LoopEnd(Loops(k)[q]), r, f) =>
                f.one = 0 /\ Plus(f.coef, ReduceAdd(Loops(k)[q].lanes, r)) = [c \in Coords |-> 1]
    <3> HIDE DEF k
    <3> QED
      BY <2>1, ReturnedSum
  <2> HIDE DEF k, s
  <2> QED
    BY <2>2, <2>3, <2>4
<1>5. (Returned(Form(0, [c \in Coords |-> 1])))' = Returned(Form(0, [c \in Coords |-> 1]))
  BY <1>1, SumsStay DEF Form
<1> QED
  BY <1>3, <1>4, <1>5 DEF SumInv, Asking

\* A step that asks about the machine leaves the sums alone.
LEMMA AskingSum ==
    ASSUME SInv, NEW u \in Threads, setup' = setup, UNCHANGED work, pc[u] \in Asking, pc'[u] \in Asking
    PROVE  SumInv(u)'
<1>1. (Form(0, Zero))' = Form(0, Zero)
  BY SumsStay DEF Form
<1> QED
  BY <1>1 DEF SInv, SumInv, Asking, work

\* Nothing is summed at first.
LEMMA SumInvInit == Init => SInv
<1> SUFFICES ASSUME Init PROVE SInv
  OBVIOUS
<1>1. IInv
  BY InitInv
<1>2. acc = [t \in Threads |-> acc[t]] /\ total = [t \in Threads |-> total[t]]
  BY DEF Init
<1>3. \A t \in Threads : SumInv(t)
  BY DEF Init, SumInv, Asking
<1> QED
  BY <1>1, <1>2, <1>3 DEF SInv

\* What a step changes in its own sum, and that it changes no other.
LEMMA StepSum ==
    ASSUME SInv, NEW u \in Threads, Step(u)
    PROVE  /\ SumInv(u)'
           /\ (acc = [t \in Threads |-> acc[t]])' /\ (total = [t \in Threads |-> total[t]])'
           /\ \A t \in Threads \ {u} : acc'[t] = acc[t] /\ total'[t] = total[t]
<1>1. IInv /\ IInv' /\ setup' = setup
  BY StepInv, StepShown DEF SInv, Next, Shown
<1> USE DEF setup, cache, work, Goto, Asking
<1>2. CASE Ask(u) \/ InitAvx(u) \/ StoreAvx(u) \/ ReadyAvx(u) \/ Init512(u) \/ Probe512(u) \/ Store512(u) \/ Ready512(u)
  <2>1. UNCHANGED work /\ pc[u] \in Asking /\ pc'[u] \in Asking
    BY <1>1, <1>2 DEF Ask, InitAvx, StoreAvx, ReadyAvx, Init512, Probe512, Store512, Ready512, IInv, WellTyped
  <2> QED
    BY <1>1, <2>1, AskingSum DEF SInv
<1>3. CASE ReadSupport(u) \/ DispatchSse(u) \/ DispatchDefault(u)
  <2>1. /\ pc[u] \in Asking /\ stage' = stage /\ at' = at /\ total' = total
        /\ \/ UNCHANGED work /\ pc'[u] \in Asking \cup {"fell"}
           \/ \E k : /\ kernel' = [kernel EXCEPT ![u] = k] /\ pc'[u] = "loop"
                     /\ acc' = [acc EXCEPT ![u] = Register(Loops(k)[1].lanes)]
    BY <1>1, <1>3 DEF ReadSupport, DispatchSse, DispatchDefault, Enter, IInv, WellTyped
  <2>2. CASE UNCHANGED work /\ pc'[u] = "fell"
    BY <2>2 DEF SInv, SumInv
  <2>3. CASE UNCHANGED work /\ pc'[u] \in Asking
    BY <1>1, <2>1, <2>3, AskingSum DEF SInv
  <2>4. ASSUME NEW k, kernel' = [kernel EXCEPT ![u] = k], pc'[u] = "loop",
               acc' = [acc EXCEPT ![u] = Register(Loops(k)[1].lanes)]
        PROVE  /\ SumInv(u)'
               /\ (acc = [t \in Threads |-> acc[t]])' /\ (total = [t \in Threads |-> total[t]])'
               /\ \A t \in Threads \ {u} : acc'[t] = acc[t] /\ total'[t] = total[t]
    <3>1. kernel'[u] = k
      BY <1>1, <2>4 DEF IInv, WellTyped
    <3>2. /\ acc'[u] = Register(Loops(kernel'[u])[1].lanes)
          /\ acc' = [t \in Threads |-> acc'[t]] /\ total' = [t \in Threads |-> total'[t]]
          /\ \A t \in Threads \ {u} : acc'[t] = acc[t] /\ total'[t] = total[t]
      BY <2>1, <2>4, <3>1 DEF SInv
    <3>3. SumInv(u)'
      BY <1>1, <2>1, <2>4, <3>2, EnterSum
    <3> QED
      BY <3>2, <3>3
  <2> QED
    BY <2>1, <2>2, <2>3, <2>4
<1>4. CASE RunLoop(u)
  BY <1>1, <1>4, RunLoopSum DEF RunLoop, SInv
<1>5. CASE NextLoop(u)
  BY <1>1, <1>5, NextLoopSum DEF NextLoop, SInv
<1>6. CASE Return(u)
  BY <1>1, <1>6, ReturnSum DEF Return, SInv
<1>7. CASE Stop(u)
  <2>1. UNCHANGED work /\ pc[u] = "loop" /\ pc'[u] = "stopped"
    BY <1>1, <1>7 DEF Stop, IInv, WellTyped
  <2>2. (Summed(kernel[u], stage[u], at[u], acc[u], total[u]))' = Summed(kernel[u], stage[u], at[u], acc[u], total[u])
    BY <1>1, <2>1, SumsStay
  <2> QED
    BY <2>1, <2>2 DEF SInv, SumInv
<1> QED
  BY <1>2, <1>3, <1>4, <1>5, <1>6, <1>7 DEF Step

\* No step breaks the invariant of the sums.
LEMMA SumInvStep == SInv /\ [Next]_vars => SInv'
<1> SUFFICES ASSUME SInv, [Next]_vars PROVE SInv'
  OBVIOUS
<1>1. ASSUME NEW u \in Threads, Step(u) PROVE SInv'
  <2>1. IInv' /\ Shown(u)
    BY <1>1, StepInv, StepShown DEF SInv, Next
  <2>2. /\ SumInv(u)' /\ (acc = [t \in Threads |-> acc[t]])' /\ (total = [t \in Threads |-> total[t]])'
        /\ \A t \in Threads \ {u} : acc'[t] = acc[t] /\ total'[t] = total[t]
    BY <1>1, StepSum
  <2>3. ASSUME NEW t \in Threads, t # u PROVE SumInv(t)'
    BY <2>1, <2>2, <2>3, OthersKeepSum DEF Shown, SInv
  <2> QED
    BY <2>1, <2>2, <2>3 DEF SInv
<1>2. CASE UNCHANGED vars
  <2>1. setup' = setup /\ IInv'
    BY <1>2, StepInv DEF vars, SInv
  <2>2. ASSUME NEW t \in Threads PROVE SumInv(t)'
    BY <1>2, <2>1, OthersKeepSum DEF vars, work, SInv
  <2> QED
    BY <1>2, <2>1, <2>2 DEF vars, work, SInv
<1> QED
  BY <1>1, <1>2 DEF Next

\* For any dimension, and whatever kernel the build and the machine lead to: the
\* result of computeDistance sums every coordinate exactly once, as the loops of
\* defaultSquaredL2 and defaultInnerProduct do.
THEOREM EveryKernelIsTheDefault == Spec => []DistanceIsDefault
<1>1. SInv => DistanceIsDefault
  BY DEF SInv, SumInv, DistanceIsDefault
<1>2. Spec => []SInv
  BY SumInvInit, SumInvStep, PTL DEF Spec
<1> QED
  BY <1>1, <1>2, PTL

-----------------------------------------------------------------------------
(* Type correctness. *)

\* A thread that is in no kernel holds no register, and its loop is the first.
Bare(t) ==
    /\ pc[t] \in Asking \cup {"fell", "done"} => acc[t] = <<>>
    /\ pc[t] = "fell" => total[t] = Form(0, Zero) /\ stage[t] = 1

TInv ==
    /\ SInv /\ dimension \in Dimensions
    /\ \A t \in Threads : Bare(t)

\* A thread that leaves a kernel gives up its register.
LEMMA StepBare ==
    ASSUME TInv, NEW u \in Threads, Step(u)
    PROVE  Bare(u)'
<1>1. /\ SInv /\ IInv /\ setup' = setup /\ Bare(u) /\ (Zero)' = Zero
      /\ pc \in [Threads -> Labels] /\ acc = [t \in Threads |-> acc[t]] /\ total = [t \in Threads |-> total[t]]
  BY StepShown, SumsStay DEF TInv, SInv, Shown, IInv, WellTyped
<1>2. CASE Ask(u) \/ InitAvx(u) \/ StoreAvx(u) \/ ReadyAvx(u) \/ Init512(u) \/ Probe512(u) \/ Store512(u) \/ Ready512(u)
  <2>1. acc' = acc /\ pc[u] \in Asking /\ pc'[u] \in Asking
    BY <1>1, <1>2 DEF Ask, InitAvx, StoreAvx, ReadyAvx, Init512, Probe512, Store512, Ready512, Goto, work, Asking
  <2>. QED BY <1>1, <2>1 DEF Bare, Asking
<1>3. CASE ReadSupport(u) \/ DispatchSse(u) \/ DispatchDefault(u)
  <2>1. /\ pc[u] \in Asking /\ total' = total /\ stage' = stage
        /\ \/ acc' = acc /\ pc'[u] \in Asking \cup {"fell"}
           \/ pc'[u] = "loop"
    BY <1>1, <1>3 DEF ReadSupport, DispatchSse, DispatchDefault, Enter, Goto, work, Asking
  <2>2. total[u] = Form(0, Zero) /\ stage[u] = 1
    BY <1>1, <2>1 DEF SInv, SumInv, IInv, LevelInv
  <2>. QED BY <1>1, <2>1, <2>2 DEF Bare, Asking, Form
<1>4. CASE RunLoop(u)
  <2>1. pc'[u] \in {"looped", "overread"}
    BY <1>1, <1>4 DEF RunLoop, Goto
  <2>. QED BY <2>1 DEF Bare, Asking
<1>5. CASE NextLoop(u)
  <2>1. pc'[u] = "loop"
    BY <1>1, <1>5 DEF NextLoop, Goto
  <2>. QED BY <2>1 DEF Bare, Asking
<1>6. CASE Return(u)
  <2>1. pc'[u] = "done" /\ acc'[u] = <<>>
    BY <1>1, <1>6 DEF Return, Goto
  <2>. QED BY <2>1 DEF Bare
<1>7. CASE Stop(u)
  <2>1. pc'[u] = "stopped"
    BY <1>1, <1>7 DEF Stop, Goto
  <2>. QED BY <2>1 DEF Bare, Asking
<1>. QED BY <1>2, <1>3, <1>4, <1>5, <1>6, <1>7 DEF Step

\* No step breaks the types of registers and sums.
LEMMA TypeInvStep == TInv /\ [Next]_vars => TInv'
<1>. SUFFICES ASSUME TInv, [Next]_vars PROVE TInv'
  OBVIOUS
<1>1. SInv'
  BY SumInvStep DEF TInv
<1>2. ASSUME NEW u \in Threads, Step(u) PROVE TInv'
  <2>1. setup' = setup /\ \A t \in Threads \ {u} : pc'[t] = pc[t]
    BY <1>2, StepShown DEF TInv, SInv, Shown
  <2>2. \A t \in Threads \ {u} : acc'[t] = acc[t] /\ total'[t] = total[t]
    BY <1>2, StepSum DEF TInv
  <2>3. (Zero)' = Zero
    BY <2>1, SumsStay
  <2>6. \A t \in Threads \ {u} : stage'[t] = stage[t]
    BY <1>2, StepShown DEF TInv, SInv, Shown
  <2>4. \A t \in Threads \ {u} : Bare(t)'
    BY <2>1, <2>2, <2>3, <2>6 DEF TInv, Bare, Asking, Form
  <2>5. Bare(u)'
    BY <1>2, StepBare
  <2>. QED BY <1>1, <2>1, <2>4, <2>5 DEF TInv, setup
<1>3. CASE UNCHANGED vars
  <2>1. setup' = setup /\ (Zero)' = Zero
    BY <1>3, SumsStay DEF vars
  <2>. QED BY <1>1, <1>3, <2>1 DEF TInv, Bare, Asking, Form, vars, setup, work
<1>. QED BY <1>2, <1>3 DEF Next

\* A kernel has a name.
LEMMA KernelIsNamed ==
    ASSUME WellTyped, NEW k, IsKernelOfTheMachine(k)
    PROVE  k \in KernelNames
  BY KernelDimensions DEF Kernels16, Kernels4, Residuals, KernelNames

\* Lanes count a coordinate once or not at all.
LEMMA SpreadCounts ==
    ASSUME NEW n \in {1, 4, 8, 16}, NEW b, NEW p, NEW r \in Registers(n), Spread(r, n, b, p)
    PROVE  r \in [0 .. n - 1 -> [Coords -> Nat]]
<1>1. \A l \in 0 .. n - 1, c \in Coords : r[l][c] \in Nat
  BY DEF Spread
<1>2. \A l \in 0 .. n - 1 : r[l] \in [Coords -> Nat]
  BY <1>1 DEF Registers
<1>. QED BY <1>2 DEF Registers

\* The lanes of a register count coordinates, and are those of the loop.
LEMMA RegistersTyped ==
    ASSUME TInv, NEW t \in Threads
    PROVE  acc[t] \in [RegisterLanes(t) -> [Coords -> Nat]]
<1>1. SInv /\ IInv /\ WellTyped /\ Bare(t) /\ SumInv(t) /\ LoopInv(t) /\ pc[t] \in Labels
  BY DEF TInv, SInv, IInv, WellTyped
<1>2. CASE pc[t] \in Asking \cup {"fell", "done"}
  <2>1. acc[t] = <<>> /\ RegisterLanes(t) = {}
    BY <1>1, <1>2 DEF Bare, RegisterLanes, Asking
  <2>2. <<>> \in [{} -> [Coords -> Nat]]
    OBVIOUS
  <2>. QED BY <2>1, <2>2
<1>3. CASE pc[t] \in {"loop", "looped", "stopped"}
  <2>1. /\ IsKernelOfTheMachine(kernel[t]) /\ stage[t] \in 1 .. Len(Loops(kernel[t]))
        /\ Summed(kernel[t], stage[t], at[t], acc[t], total[t])
    BY <1>1, <1>3 DEF LoopInv, SumInv, Asking
  <2>2. Loops(kernel[t])[stage[t]].lanes \in {1, 4, 8, 16}
    BY <1>1, <2>1, LanesOfLoop
  <2>3. acc[t] \in [0 .. Loops(kernel[t])[stage[t]].lanes - 1 -> [Coords -> Nat]]
    BY <2>1, <2>2, SpreadCounts DEF Summed
  <2>4. RegisterLanes(t) = 0 .. Loops(kernel[t])[stage[t]].lanes - 1
    BY <1>3 DEF RegisterLanes, Loop
  <2>. QED BY <2>3, <2>4
<1>. QED BY <1>1, <1>2, <1>3 DEF LoopInv, Labels, Asking

\* The loop a thread is in is one of its kernel's.
LEMMA StagesTyped ==
    ASSUME TInv, NEW t \in Threads
    PROVE  stage[t] \in 1 .. Len(Loops(kernel[t]))
<1>1. Bare(t) /\ LoopInv(t) /\ LevelInv(t) /\ pc[t] \in Labels
  BY DEF TInv, SInv, IInv, WellTyped
<1>2. CASE pc[t] \in Asking \cup {"fell"}
  <2>1. kernel[t] = "none" /\ stage[t] = 1
    BY <1>1, <1>2 DEF LevelInv, LoopInv, Bare, Asking
  <2>2. Len(Loops("none")) = 1
    BY DEF Loops
  <2>. QED BY <2>1, <2>2
<1>3. CASE pc[t] \notin Asking \cup {"fell"}
  BY <1>1, <1>3 DEF LoopInv
<1>. QED BY <1>2, <1>3

\* The sum outside the register has a whole number for each coordinate.
LEMMA SumsTyped ==
    ASSUME TInv, NEW t \in Threads
    PROVE  total[t] \in [one : Int, coef : [Coords -> Int]]
<1>1. SInv /\ Bare(t) /\ SumInv(t) /\ LoopInv(t) /\ pc[t] \in Labels
  BY DEF TInv, SInv, IInv, WellTyped
<1>2. CASE pc[t] \in Asking \cup {"fell"}
  BY <1>1, <1>2 DEF SumInv, Bare, Form, Zero
<1>3. CASE pc[t] \in {"loop", "looped", "stopped"}
  BY <1>1, <1>3 DEF SumInv, Summed, Form
<1>4. CASE pc[t] = "done"
  BY <1>1, <1>4 DEF SumInv, Returned, Form
<1>. QED BY <1>1, <1>2, <1>3, <1>4 DEF LoopInv, Labels, Asking

\* Every variable keeps its type: the loop a thread runs is one of its kernel's,
\* its register has the width of that loop, and a lane counts a coordinate and
\* never takes one away.
THEOREM TypeCorrect == Spec => []TypeOK
<1>1. Init => TInv
  <2>. SUFFICES ASSUME Init PROVE TInv
    OBVIOUS
  <2>1. \A t \in Threads : acc[t] = <<>> /\ total[t] = Form(0, Zero) /\ pc[t] = "dispatch"
    BY DEF Init
  <2>2. \A t \in Threads : Bare(t)
    BY <2>1 DEF Bare
  <2>3. SInv
    BY SumInvInit
  <2>4. dimension \in Dimensions
    BY DEF Init
  <2>. QED BY <2>2, <2>3, <2>4 DEF TInv
<1>2. TInv => TypeOK
  <2>. SUFFICES ASSUME TInv PROVE TypeOK
    OBVIOUS
  <2>1. WellTyped /\ dimension \in Dimensions /\ \A t \in Threads : LevelInv(t) /\ LoopInv(t)
    BY DEF TInv, SInv, IInv
  <2>2. ASSUME NEW t \in Threads PROVE kernel[t] \in KernelNames
    <3>1. \/ kernel[t] = "none"
          \/ IsKernelOfTheMachine(kernel[t])
      BY <2>1 DEF LevelInv, LoopInv
    <3>2. "none" \in KernelNames
      BY DEF KernelNames
    <3>. QED BY <2>1, <3>1, <3>2, KernelIsNamed
  <2>3. kernel \in [Threads -> KernelNames]
    BY <2>1, <2>2 DEF WellTyped
  <2>4. total \in [Threads -> [one : Int, coef : [Coords -> Int]]]
    BY SumsTyped DEF TInv, SInv
  <2>. QED BY <2>1, <2>3, <2>4, RegistersTyped, StagesTyped DEF TypeOK, WellTyped
<1>. QED BY <1>1, <1>2, TypeInvStep, PTL DEF Spec

=============================================================================
