----------------------------- MODULE Quantizer -----------------------------
(***************************************************************************)
(* The product quantizer of developmental-features/quantization: training  *)
(* (ProductQuantizer::train over CentroidsGenerator::generateCentroids),   *)
(* encoding of a batch, and the distances between vectors and codes.       *)
(*                                                                         *)
(* A subvector is a point on a line.  Coordinates are integers in units of *)
(* 1/Grain, and the inputs are multiples of Grain, which every number of   *)
(* vectors divides: the mean of some of them is exact.                     *)
(*                                                                         *)
(* The loops under "omp parallel for" that write what other turns touch,   *)
(* the sums of the clusters and the codes, are one step per turn, in any   *)
(* order.  The others write one cell per turn and are one step.            *)
(*                                                                         *)
(* A definition marked "Faulty" stands before the one it distorts and is   *)
(* used nowhere else.                                                      *)
(***************************************************************************)
EXTENDS Integers, Sequences, FiniteSets, FiniteSetsExt

CONSTANTS
    M,            \* _num_subquantizers
    NBits,        \* _num_bits
    Iterations,   \* _clustering_iterations
    BlockSize,    \* BLOCK_SIZE, the vectors of one parallel loop of computePQCodes
    Grain,        \* units of a coordinate
    Inputs,       \* the batches of vectors trained on and encoded
    MaxCalls      \* bound: calls of train and computePQCodes

K        == 2 ^ NBits    \* _subq_centroids_count: 1 << nbits, an int
CodeSize == NBits        \* _code_size: (nbits * 8 + 7) / 8
Parts    == 0 .. M - 1
Ids      == 0 .. K - 1

\* The constructor asks for no relation of M and NBits, nor for whole bytes.
ASSUME QuantizerSizes ==
    /\ M \in Nat \ {0} /\ NBits \in 1 .. 30 /\ K \in Nat \ {0}
    /\ Iterations \in Nat \ {0} /\ BlockSize \in Nat \ {0} /\ Grain \in Nat \ {0} /\ MaxCalls \in Nat
    /\ Inputs \subseteq Seq([Parts -> Int])
    /\ \A d \in Inputs : \A i \in DOMAIN d : \A m \in Parts : d[i][m] % Grain = 0
    /\ \A d \in Inputs : \A n \in 1 .. Len(d) : Grain % n = 0

\* A byte holds the number of a centroid, and the bytes of a code, one for each
\* subquantizer, stay within the code.
CodesFit == K <= 256 /\ M <= CodeSize

VARIABLES
    metric,      \* of the quantizer
    seeded,      \* the sample std::sample draws from n vectors: every generator
                 \* has the same seed
    centroids, tables, trained,   \* _centroids, _symmetric_distance_tables, _is_trained
    phase,       \* where the call under way stands
    data,        \* its vectors
    part,        \* m, the subquantizer being trained
    iteration, local, assignment, sums, counts,   \* of generateCentroids
    todo,        \* the turns the parallel loop has left
    codes,       \* the codes of the last batch, byte by byte, and what follows them
    block,       \* i0, where the block being encoded begins
    encoded,     \* ghost: that batch, while the centroids are the same
    calls

training == <<part, iteration, local, assignment, sums, counts>>
vars == <<metric, seeded, centroids, tables, trained, phase, data, training, todo, codes, block, encoded, calls>>

Distance(a, b) == IF metric = "L2" THEN (a - b) * (a - b) ELSE Grain * Grain - a * b

\* The first centroid none is closer than: distanceWithKNeighbors, and Step 1 of
\* generateCentroids.
Nearest(cs, x) ==
    CHOOSE k \in Ids : \A l \in Ids :
        IF l < k THEN Distance(x, cs[k]) < Distance(x, cs[l]) ELSE Distance(x, cs[k]) <= Distance(x, cs[l])

\* What std::sample may draw from n vectors; it keeps their order.
Draws(n) == {s \in [Ids -> 1 .. n] : \A k, l \in Ids : k < l => s[k] < s[l]}

Lengths == {Len(d) : d \in Inputs}

Init ==
    /\ metric \in {"L2", "IP"}
    /\ seeded \in {f \in [Lengths -> UNION {Draws(n) : n \in Lengths} \cup {<<>>}] :
                      \A n \in Lengths : IF n >= K THEN f[n] \in Draws(n) ELSE f[n] = <<>>}
    /\ centroids = [m \in Parts |-> [k \in Ids |-> 0]]
    /\ tables = <<>>
    /\ trained = FALSE
    /\ phase = "idle"
    /\ data = <<>>
    /\ part = 0 /\ iteration = 0 /\ local = <<>> /\ assignment = <<>> /\ sums = <<>> /\ counts = <<>>
    /\ todo = {}
    /\ codes = <<>>
    /\ block = 0
    /\ encoded = <<>>
    /\ calls = 0

-----------------------------------------------------------------------------
(* train. *)

\* With fewer vectors than centroids the generator throws before anything of
\* the quantizer has changed.
Train(d) ==
    /\ phase = "idle"
    /\ calls < MaxCalls
    /\ calls' = calls + 1
    /\ IF Len(d) < K THEN UNCHANGED <<phase, data, part>>
                     ELSE phase' = "init" /\ data' = d /\ part' = 0
    /\ UNCHANGED <<metric, seeded, centroids, tables, trained, iteration, local, assignment,
                   sums, counts, todo, codes, block, encoded>>

\* randomInitialize.
Sample(d, m) == [k \in Ids |-> d[seeded[Len(d)][k]][m]]

InitializeCentroids ==
    /\ phase = "init"
    /\ local' = Sample(data, part)
    /\ assignment' = [i \in DOMAIN data |-> 0]
    /\ iteration' = 0
    /\ phase' = "assign"
    /\ UNCHANGED <<metric, seeded, centroids, tables, trained, data, part, sums, counts, todo, codes, block,
                   encoded, calls>>

\* Step 1 of the k-means loop, and the sums and counts of Step 2 at zero.
AssignVectors ==
    /\ phase = "assign"
    /\ assignment' = [i \in DOMAIN data |-> Nearest(local, data[i][part])]
    /\ sums' = [k \in Ids |-> 0]
    /\ counts' = [k \in Ids |-> 0]
    /\ todo' = DOMAIN data
    /\ phase' = "sum"
    /\ UNCHANGED <<metric, seeded, centroids, tables, trained, data, part, iteration, local, codes, block,
                   encoded, calls>>

\* Faulty: not atomic.  Two turns may read the same sum, and one addition is lost.
AddVectorTorn(i) ==
    /\ phase = "sum"
    /\ i \in todo
    /\ sums' = [sums EXCEPT ![assignment[i]] = @ + data[i][part]]
    /\ \E j \in todo : /\ assignment[j] = assignment[i]
                       /\ counts' = [counts EXCEPT ![assignment[i]] = @ + Cardinality({i, j})]
                       /\ todo' = todo \ {i, j}
    /\ UNCHANGED <<metric, seeded, centroids, tables, trained, phase, data, part, iteration, local,
                   assignment, codes, block, encoded, calls>>

\* One turn of the loop of Step 2: atomic additions.
AddVector(i) ==
    /\ phase = "sum"
    /\ i \in todo
    /\ sums' = [sums EXCEPT ![assignment[i]] = @ + data[i][part]]
    /\ counts' = [counts EXCEPT ![assignment[i]] = @ + 1]
    /\ todo' = todo \ {i}
    /\ UNCHANGED <<metric, seeded, centroids, tables, trained, phase, data, part, iteration, local,
                   assignment, codes, block, encoded, calls>>

\* Faulty: a centroid without vectors goes to the origin.
MeansOrZero == [k \in Ids |-> IF counts[k] > 0 THEN sums[k] \div counts[k] ELSE 0]

\* A centroid without vectors stays where it is.
Means == [k \in Ids |-> IF counts[k] > 0 THEN sums[k] \div counts[k] ELSE local[k]]

UpdateCentroids ==
    /\ phase = "sum"
    /\ todo = {}
    /\ local' = Means
    /\ iteration' = iteration + 1
    /\ phase' = IF iteration' < Iterations THEN "assign" ELSE "set"
    /\ UNCHANGED <<metric, seeded, centroids, tables, trained, data, part, assignment, sums, counts,
                   todo, codes, block, encoded, calls>>

SetParameters ==
    /\ phase = "set"
    /\ centroids' = [centroids EXCEPT ![part] = local]
    /\ part' = part + 1
    /\ phase' = IF part' < M THEN "init" ELSE "tables"
    /\ encoded' = <<>>
    /\ UNCHANGED <<metric, seeded, tables, trained, data, iteration, local, assignment, sums, counts,
                   todo, codes, block, calls>>

computeSymmetricDistanceTables ==
    [m \in Parts |-> [k \in Ids |-> [l \in Ids |-> Distance(centroids[m][k], centroids[m][l])]]]

\* Faulty: the tables are computed by the first training only.
FinishTrainOnce ==
    /\ phase = "tables"
    /\ trained' = TRUE
    /\ tables' = IF trained THEN tables ELSE computeSymmetricDistanceTables
    /\ phase' = "idle"
    /\ data' = <<>>
    /\ UNCHANGED <<metric, seeded, centroids, training, todo, codes, block, encoded, calls>>

FinishTrain ==
    /\ phase = "tables"
    /\ trained' = TRUE
    /\ tables' = computeSymmetricDistanceTables
    /\ phase' = "idle"
    /\ data' = <<>>
    /\ UNCHANGED <<metric, seeded, centroids, training, todo, codes, block, encoded, calls>>

-----------------------------------------------------------------------------
(* computePQCodes.  It does not ask whether the quantizer has been trained.   *)

\* The vectors of the block that begins at i0, of n.
Block(i0, n) == i0 + 1 .. (IF i0 + BlockSize < n THEN i0 + BlockSize ELSE n)

\* The bytes of the codes of n vectors and, behind them, as many as a code that
\* is longer than CodeSize may reach.
Bytes(n) == 0 .. n * CodeSize + M - 1

Encode(d) ==
    /\ phase = "idle"
    /\ calls < MaxCalls
    /\ calls' = calls + 1
    /\ codes' = [b \in Bytes(Len(d)) |-> 0]
    /\ block' = 0
    /\ todo' = Block(0, Len(d))
    /\ data' = d
    /\ phase' = "encode"
    /\ encoded' = <<>>
    /\ UNCHANGED <<metric, seeded, centroids, tables, trained, training>>

\* computePQCode: one byte for each subquantizer, from the place of vector i on.
ComputePQCode(i) ==
    /\ phase = "encode"
    /\ i \in todo
    /\ codes' = [b \in DOMAIN codes |->
                    LET m == b - (i - 1) * CodeSize
                    IN  IF m \in Parts THEN Nearest(centroids[m], data[i][m]) % 256 ELSE codes[b]]
    /\ todo' = todo \ {i}
    /\ UNCHANGED <<metric, seeded, centroids, tables, trained, phase, data, training, block, encoded, calls>>

\* The recursion: a block begins when the one before it is done.
NextBlock ==
    /\ phase = "encode"
    /\ todo = {} /\ block + BlockSize < Len(data)
    /\ block' = block + BlockSize
    /\ todo' = Block(block + BlockSize, Len(data))
    /\ UNCHANGED <<metric, seeded, centroids, tables, trained, phase, data, training, codes, encoded, calls>>

FinishEncode ==
    /\ phase = "encode"
    /\ todo = {} /\ block + BlockSize >= Len(data)
    /\ phase' = "idle"
    /\ encoded' = data
    /\ data' = <<>>
    /\ UNCHANGED <<metric, seeded, centroids, tables, trained, training, todo, codes, block, calls>>

Next ==
    \/ \E d \in Inputs : Train(d) \/ Encode(d)
    \/ InitializeCentroids \/ AssignVectors \/ UpdateCentroids \/ SetParameters \/ FinishTrain
    \/ \E i \in todo : AddVector(i) \/ ComputePQCode(i)
    \/ NextBlock \/ FinishEncode

Spec == Init /\ [][Next]_vars

-----------------------------------------------------------------------------
(* Distances. *)

\* The code of the i-th vector, where the distances look for it.
Code(i) == [m \in Parts |-> codes[(i - 1) * CodeSize + m]]

\* The vector that a code stands for.
StandsFor(code) == [m \in Parts |-> centroids[m][code[m]]]

Total(f) == MapThenSumSet(LAMBDA m : f[m], DOMAIN f)

computeDistanceTable(x) == [m \in Parts |-> [k \in Ids |-> Distance(x[m], centroids[m][k])]]

\* asymmetricDistanceImpl: the distance table of the vector, looked up by the code.
AsymmetricDistance(x, code) ==
    LET distTable == computeDistanceTable(x) IN Total([m \in Parts |-> distTable[m][code[m]]])

\* symmetricDistanceImpl
SymmetricDistance(a, b) == Total([m \in Parts |-> tables[m][a[m]][b[m]]])

-----------------------------------------------------------------------------
(* Properties. *)

\* The means of the vectors next to each centroid.
Moved(d, m, cs) ==
    LET near == [i \in DOMAIN d |-> Nearest(cs, d[i][m])]
        mine(k) == {i \in DOMAIN d : near[i] = k}
    IN  [k \in Ids |-> IF mine(k) = {} THEN cs[k]
                       ELSE Total([i \in mine(k) |-> d[i][m]]) \div Cardinality(mine(k))]

\* k-means done one vector after the other, on part m of the vectors d: the
\* centroids after each iteration.  (What is chosen is Moved(d, m, after[i - 1]),
\* which TLC computes once this way.)
KMeans(d, m) ==
    LET after[i \in 0 .. Iterations] ==
            IF i = 0 THEN Sample(d, m)
            ELSE CHOOSE cs \in {Moved(d, m, before) : before \in {after[i - 1]}} : TRUE
    IN  after

\* Training gives each subquantizer the centroids k-means gives for its part of
\* the vectors, in whatever order the parallel loops took them, and whatever
\* the parts and trainings before left behind.
TrainedAsKMeans ==
    phase = "tables" => \A m \in Parts : centroids[m] = KMeans(data, m)[Iterations]

\* The distance of all vectors to the centroids they are assigned to.
Distortion == Total([i \in DOMAIN data |-> Distance(data[i][part], local[assignment[i]])])

\* With the squared distance no step of k-means moves the vectors further from
\* their centroids, in whatever order they were added up and wherever centroids
\* without vectors stand.
DistortionNeverGrows ==
    [][metric = "L2" /\ phase \in {"assign", "sum"} => Distortion' <= Distortion]_vars

\* The codes of a batch, if they fit the places they are given, stay what
\* encoding made them, block by block and whatever else is called, until the
\* quantizer is trained again: no code is closer to a vector than its own, and
\* the distance of two codes, from the tables, is that of the vector the first
\* stands for to the second.
DistancesAgree ==
    phase = "idle" /\ CodesFit =>
        \A i \in DOMAIN encoded :
            /\ \A m \in Parts, k \in Ids :
                   AsymmetricDistance(encoded[i], Code(i)) <=
                       AsymmetricDistance(encoded[i], [Code(i) EXCEPT ![m] = k])
            /\ trained => \A j \in DOMAIN encoded :
                   SymmetricDistance(Code(i), Code(j)) = AsymmetricDistance(StandsFor(Code(i)), Code(j))

=============================================================================
