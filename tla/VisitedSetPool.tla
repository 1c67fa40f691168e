--------------------------- MODULE VisitedSetPool ---------------------------
(***************************************************************************)
(* VisitedSetPool (include/flatnav/util/VisitedSetPool.h) and its users in *)
(* Index.h: beamSearch and relabel poll a set, clear it, insert into it    *)
(* and push it back; setNumThreads(1) cuts the pool down to one set while  *)
(* searches may hold others, because the Python binding runs add without   *)
(* the interpreter lock.                                                   *)
(*                                                                         *)
(* A set is a value of Sets, its memory: a new set takes any that is not   *)
(* in use.  What it contains is a table of marks (MarkTable), which clear()*)
(* does not wipe: a set that comes back from the pool still holds the marks*)
(* of the searches before.                                                 *)
(*                                                                         *)
(* A definition marked "Faulty" stands before the one it distorts and is   *)
(* used nowhere else.                                                      *)
(***************************************************************************)
EXTENDS MarkTable, Sequences, FiniteSets

CONSTANTS
    Threads,    \* threads that search
    Sets,       \* the memory visited sets can be allocated in
    Cores,      \* std::thread::hardware_concurrency()
    MaxClears,  \* bound on the number of clear()s of one set
    None

ASSUME PoolAssumption ==
    /\ IsFiniteSet(Threads) /\ IsFiniteSet(Sets) /\ Sets # {}
    /\ Cores \in Nat \ {0} /\ MaxClears \in Nat /\ None \notin Sets

VARIABLES
    pool,        \* _visisted_set_pool, a stack
    live,        \* the sets allocated and not deleted
    content,     \* the table of marks of each set
    held,        \* the set each thread has polled
    pc,          \* "idle", "polled" or "searching"
    seen,        \* what the search of each thread has visited so far
    numThreads,  \* _num_threads
    shrinking,   \* setNumThreads(1) is about to call setPoolSize(1)
    peak         \* the most sets ever held at once, for LiveSetsBounded only

vars == <<pool, live, content, held, pc, seen, numThreads, shrinking, peak>>

Pooled == {pool[i] : i \in 1 .. Len(pool)}

Holders == {t \in Threads : held[t] # None}

\* The constructor of the index makes a pool of one set.
Init ==
    /\ \E s \in Sets : pool = <<s>> /\ live = {s}
    /\ content = [s \in Sets |-> NewTable]
    /\ held = [t \in Threads |-> None]
    /\ pc = [t \in Threads |-> "idle"]
    /\ seen = [t \in Threads |-> {}]
    /\ numThreads \in 1 .. Cores
    /\ shrinking = FALSE
    /\ peak = 0

\* The peak once thread t has polled too.
PeakWith(t) == LET k == Cardinality(Holders \cup {t}) IN IF k > peak THEN k ELSE peak

\* Faulty: the set is handed out and stays in the pool.
PollWithoutPop(t) ==
    /\ pc[t] = "idle"
    /\ pool # <<>>
    /\ held' = [held EXCEPT ![t] = pool[Len(pool)]]
    /\ pc' = [pc EXCEPT ![t] = "polled"]
    /\ peak' = PeakWith(t)
    /\ UNCHANGED <<pool, live, content, seen, numThreads, shrinking>>

\* pollAvailableSet: the top of the stack, or a new set.
PollPooled(t) ==
    /\ pc[t] = "idle"
    /\ pool # <<>>
    /\ held' = [held EXCEPT ![t] = pool[Len(pool)]]
    /\ pool' = SubSeq(pool, 1, Len(pool) - 1)
    /\ pc' = [pc EXCEPT ![t] = "polled"]
    /\ peak' = PeakWith(t)
    /\ UNCHANGED <<live, content, seen, numThreads, shrinking>>

PollNew(t) ==
    /\ pc[t] = "idle"
    /\ pool = <<>>
    /\ \E s \in Sets \ live :
        /\ held' = [held EXCEPT ![t] = s]
        /\ live' = live \cup {s}
        /\ content' = [content EXCEPT ![s] = NewTable]
    /\ pc' = [pc EXCEPT ![t] = "polled"]
    /\ peak' = PeakWith(t)
    /\ UNCHANGED <<pool, seen, numThreads, shrinking>>

\* visited_set->clear()
ClearSet(t) ==
    /\ pc[t] = "polled"
    /\ content[held[t]].clears < MaxClears
    /\ content' = [content EXCEPT ![held[t]] = Cleared(@)]
    /\ seen' = [seen EXCEPT ![t] = {}]
    /\ pc' = [pc EXCEPT ![t] = "searching"]
    /\ UNCHANGED <<pool, live, held, numThreads, shrinking, peak>>

\* visited_set->insert(n) of a node isVisited did not know.
Visit(t, n) ==
    /\ pc[t] = "searching"
    /\ ~Visited(content[held[t]], n)
    /\ content' = [content EXCEPT ![held[t]] = Inserted(@, n)]
    /\ seen' = [seen EXCEPT ![t] = @ \cup {n}]
    /\ UNCHANGED <<pool, live, held, pc, numThreads, shrinking, peak>>

\* Faulty: a set that finds others in the pool is dropped.
PushOne(t) ==
    /\ pc[t] = "searching"
    /\ pool' = IF pool = <<>> THEN <<held[t]>> ELSE pool
    /\ held' = [held EXCEPT ![t] = None]
    /\ seen' = [seen EXCEPT ![t] = {}]
    /\ pc' = [pc EXCEPT ![t] = "idle"]
    /\ UNCHANGED <<live, content, numThreads, shrinking, peak>>

\* Faulty: the pointer is reset before it is pushed.
PushReset(t) ==
    /\ pc[t] = "searching"
    /\ held' = [held EXCEPT ![t] = None]
    /\ pool' = Append(pool, held'[t])
    /\ seen' = [seen EXCEPT ![t] = {}]
    /\ pc' = [pc EXCEPT ![t] = "idle"]
    /\ UNCHANGED <<live, content, numThreads, shrinking, peak>>

\* pushVisitedSet
Push(t) ==
    /\ pc[t] = "searching"
    /\ pool' = Append(pool, held[t])
    /\ held' = [held EXCEPT ![t] = None]
    /\ seen' = [seen EXCEPT ![t] = {}]
    /\ pc' = [pc EXCEPT ![t] = "idle"]
    /\ UNCHANGED <<live, content, numThreads, shrinking, peak>>

\* setNumThreads assigns _num_threads before it takes the pool's mutex.
SetNumThreads(k) ==
    /\ ~shrinking
    /\ numThreads' = k
    /\ shrinking' = (k = 1)
    /\ UNCHANGED <<pool, live, content, held, pc, seen, peak>>

\* Faulty: all sets but one are deleted, those that searches hold included.
ShrinkAll ==
    /\ shrinking
    /\ IF Len(pool) < 1
       THEN UNCHANGED <<pool, live>>
       ELSE pool' = SubSeq(pool, 1, 1) /\ live' = {pool[1]}
    /\ shrinking' = FALSE
    /\ UNCHANGED <<content, held, pc, seen, numThreads, peak>>

\* setPoolSize(1) deletes the sets above the first, or throws if there is none.
ShrinkPool ==
    /\ shrinking
    /\ IF Len(pool) < 1
       THEN UNCHANGED <<pool, live>>
       ELSE /\ pool' = SubSeq(pool, 1, 1)
            /\ live' = live \ {pool[i] : i \in 2 .. Len(pool)}
    /\ shrinking' = FALSE
    /\ UNCHANGED <<content, held, pc, seen, numThreads, peak>>

Search(t) == PollPooled(t) \/ PollNew(t) \/ ClearSet(t) \/ (\E n \in Elements : Visit(t, n)) \/ Push(t)

Next == (\E t \in Threads : Search(t)) \/ (\E k \in 1 .. Cores : SetNumThreads(k)) \/ ShrinkPool

Spec == Init /\ [][Next]_vars

-----------------------------------------------------------------------------
(* Properties. *)

TypeOK ==
    /\ pool \in Seq(Sets)
    /\ live \in SUBSET Sets
    /\ content \in [Sets -> TableType]
    /\ held \in [Threads -> Sets \cup {None}]
    /\ pc \in [Threads -> {"idle", "polled", "searching"}]
    /\ seen \in [Threads -> SUBSET Elements]
    /\ numThreads \in 1 .. Cores
    /\ shrinking \in BOOLEAN
    /\ peak \in 0 .. Cardinality(Threads)

\* "Each visited set can be used by only one thread at a time"
\* (VisitedSetPool.h:113), whoever polls, pushes or shrinks the pool meanwhile:
\* a search finds what it inserted itself, and of others only what an earlier
\* holder of the same set inserted a whole number of laps of the mark ago (255
\* clear()s with the code's eight bits).  It never finds, or loses, a mark to a
\* search that runs at the same time.
SearchSeesOwnMarks ==
    \A t \in Threads : pc[t] = "searching" =>
        LET v == content[held[t]] IN
        \A n \in Elements :
            /\ n \in seen[t] => Visited(v, n)
            /\ Visited(v, n) /\ n \notin seen[t] =>
                  /\ v.inserted[n] \in 0 .. v.clears - 1
                  /\ (v.clears - v.inserted[n]) % Lap = 0

\* No set is deleted while a search holds it or the pool lists it, and the
\* pool lists no set twice or while it is held.
SetsHaveOneOwner ==
    /\ \A t \in Holders : held[t] \in live /\ held[t] \notin Pooled
    /\ \A t, u \in Holders : held[t] = held[u] => t = u
    /\ \A i, j \in 1 .. Len(pool) : pool[i] = pool[j] => i = j
    /\ Pooled \subseteq live

\* Sets are not lost: there are never more than the most that searches held at
\* once, and every set is in the pool or held.
LiveSetsBounded ==
    /\ live = Pooled \cup {held[t] : t \in Holders}
    /\ Cardinality(live) <= IF peak > 1 THEN peak ELSE 1

=============================================================================
