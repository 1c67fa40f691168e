------------------------ MODULE VisitedSetPoolProofs ------------------------
(***************************************************************************)
(* A pooled visited set has one user at a time, is never deleted while it  *)
(* is used and never lost, and a search finds in it what it put there: for *)
(* any number of threads, of sets and of cores, and however searches and   *)
(* setNumThreads interleave.                                               *)
(*                                                                         *)
(* The invariant says where every live set is: once in the pool, or with   *)
(* one thread that is not idle.  An action moves at most one set between   *)
(* the two, allocates one that was nowhere, or deletes sets of the pool.   *)
(* So a set is allocated only when each live one has a holder.  Since a    *)
(* set has one holder, nobody else clears it or inserts into it while a    *)
(* search runs, and what one set guarantees (VisitedSetProofs) carries     *)
(* over to each set of the pool.                                           *)
(***************************************************************************)
EXTENDS VisitedSetPool, FiniteSetTheorems, FunctionTheorems, SequenceTheorems, TLAPS

\* The lemmas about one table of marks.
One == INSTANCE VisitedSetProofs WITH set <- NewTable, call <- <<"new">>

Held == {held[t] : t \in Holders}

\* A thread holds a set from its poll to its push.
HoldsUnlessIdle == \A t \in Threads : (held[t] = None) <=> (pc[t] = "idle")

\* The marks of a set follow its clear()s, whoever made them.
MarksFollow == \A s \in Sets : One!LapsApart(content[s])

\* What a search has visited is what was inserted into its set since the clear().
SeenSinceClear ==
    \A t \in Threads : pc[t] = "searching" =>
        \A n \in Elements :
            n \in seen[t] <=> content[held[t]].inserted[n] = content[held[t]].clears

IInv ==
    /\ TypeOK
    /\ HoldsUnlessIdle
    /\ SetsHaveOneOwner
    /\ MarksFollow
    /\ SeenSinceClear
    /\ live = Pooled \cup Held

-----------------------------------------------------------------------------
(* The marks. *)

\* One set of the pool is a set by itself.
LEMMA SameOperators ==
    /\ One!TableType = TableType /\ One!NewTable = NewTable
    /\ \A v, n : One!Inserted(v, n) = Inserted(v, n) /\ (One!Visited(v, n) <=> Visited(v, n))
    /\ \A v : One!Cleared(v) = Cleared(v)
    /\ One!Lap = Lap
<1>1. One!Never = Never /\ One!Marks = Marks /\ One!Lap = Lap
  BY DEF One!Never, Never, One!Marks, Marks, One!Lap, Lap
<1>2. One!TableType = TableType
  BY <1>1 DEF One!TableType, TableType
<1>3. One!NewTable = NewTable
  BY <1>1 DEF One!NewTable, NewTable
<1>4. ASSUME NEW v, NEW n
      PROVE  One!Inserted(v, n) = Inserted(v, n) /\ (One!Visited(v, n) <=> Visited(v, n))
  BY DEF One!Inserted, Inserted, One!Visited, Visited
<1>5. ASSUME NEW v PROVE One!Cleared(v) = Cleared(v)
  <2>1. One!Overflows(v) = Overflows(v)
    BY DEF One!Overflows, Overflows
  <2> QED
    BY <2>1 DEF One!Cleared, Cleared
<1> QED
  BY <1>1, <1>2, <1>3, <1>4, <1>5

LEMMA NewTableKept == NewTable \in TableType /\ One!LapsApart(NewTable)
  BY SameOperators, One!NewTableType, One!NewTableLapsApart, MarkLimitAssumption, PoolAssumption

\* insert() adds its node to those inserted since the clear().
LEMMA InsertedKept ==
    ASSUME NEW v \in TableType, One!LapsApart(v), NEW n \in Elements
    PROVE  /\ Inserted(v, n) \in TableType /\ One!LapsApart(Inserted(v, n))
           /\ Inserted(v, n).clears = v.clears
           /\ \A m \in Elements :
                 Inserted(v, n).inserted[m] = IF m = n THEN v.clears ELSE v.inserted[m]
  BY SameOperators, One!InsertedType, One!InsertedLapsApart, MarkLimitAssumption, PoolAssumption

\* clear() leaves none inserted since.
LEMMA ClearedKept ==
    ASSUME NEW v \in TableType, One!LapsApart(v)
    PROVE  /\ Cleared(v) \in TableType /\ One!LapsApart(Cleared(v))
           /\ \A m \in Elements : Cleared(v).inserted[m] # Cleared(v).clears
<1>1. /\ Cleared(v) \in TableType /\ One!LapsApart(Cleared(v))
      /\ Cleared(v).clears = v.clears + 1 /\ Cleared(v).inserted = v.inserted
  BY SameOperators, One!ClearedType, One!ClearedLapsApart, MarkLimitAssumption, PoolAssumption
<1>2. v.clears \in Nat /\ \A m \in Elements : v.inserted[m] \in Int /\ v.inserted[m] <= v.clears
  BY DEF TableType, Never, One!LapsApart
<1>3. ASSUME NEW m \in Elements PROVE Cleared(v).inserted[m] # Cleared(v).clears
  BY <1>1, <1>2
<1> QED
  BY <1>1, <1>3

\* What a search finds in its set.
LEMMA SeesOwnMarks == ASSUME IInv PROVE SearchSeesOwnMarks
<1> SUFFICES ASSUME NEW t \in Threads, pc[t] = "searching", NEW n \in Elements
             PROVE  LET v == content[held[t]] IN
                    /\ n \in seen[t] => Visited(v, n)
                    /\ Visited(v, n) /\ n \notin seen[t] =>
                          /\ v.inserted[n] \in 0 .. v.clears - 1
                          /\ (v.clears - v.inserted[n]) % Lap = 0
  BY DEF SearchSeesOwnMarks
<1> DEFINE v == content[held[t]]
<1>1. held[t] \in Sets
  BY DEF IInv, HoldsUnlessIdle, TypeOK
<1>2. v \in TableType /\ One!LapsApart(v)
  BY <1>1 DEF IInv, TypeOK, MarksFollow
<1>3. n \in seen[t] <=> v.inserted[n] = v.clears
  BY DEF IInv, SeenSinceClear
<1> HIDE DEF v
<1>4. /\ v.inserted[n] = v.clears => Visited(v, n)
      /\ Visited(v, n) => /\ v.inserted[n] # Never /\ v.inserted[n] <= v.clears
                          /\ (v.clears - v.inserted[n]) % Lap = 0
  <2>1. Never = One!Never
    BY DEF Never, One!Never
  <2> QED
    BY <1>2, <2>1, SameOperators, One!ShownLapsAgo, MarkLimitAssumption, PoolAssumption
<1>5. v.inserted[n] \in {Never} \cup Nat /\ v.clears \in Nat
  BY <1>2 DEF TableType
<1>6. ASSUME Visited(v, n), n \notin seen[t]
      PROVE  v.inserted[n] \in 0 .. v.clears - 1 /\ (v.clears - v.inserted[n]) % Lap = 0
  BY <1>3, <1>4, <1>5, <1>6
<1>7. /\ n \in seen[t] => Visited(v, n)
      /\ Visited(v, n) /\ n \notin seen[t] =>
            /\ v.inserted[n] \in 0 .. v.clears - 1
            /\ (v.clears - v.inserted[n]) % Lap = 0
  BY <1>3, <1>4, <1>6
<1> QED
  BY <1>7 DEF v

-----------------------------------------------------------------------------
(* The stack. *)

\* The stack without its last set.
LEMMA Popped ==
    ASSUME NEW q \in Seq(Sets), q # <<>>
    PROVE  /\ Len(q) \in Nat \ {0} /\ q[Len(q)] \in Sets
           /\ SubSeq(q, 1, Len(q) - 1) \in Seq(Sets)
           /\ Len(SubSeq(q, 1, Len(q) - 1)) = Len(q) - 1
           /\ \A i \in 1 .. Len(q) - 1 : SubSeq(q, 1, Len(q) - 1)[i] = q[i]
<1>1. Len(q) \in Nat \ {0}
  BY EmptySeq
<1>2. \A i \in 1 .. Len(q) : q[i] \in Sets
  BY ElementOfSeq
<1> DEFINE n == Len(q) - 1
<1>3. n \in Nat /\ \A i \in 1 .. n : q[i] \in Sets
  BY <1>1, <1>2
<1>4. /\ SubSeq(q, 1, n) \in Seq(Sets) /\ Len(SubSeq(q, 1, n)) = IF 1 <= n THEN n - 1 + 1 ELSE 0
      /\ \A i \in 1 .. n - 1 + 1 : SubSeq(q, 1, n)[i] = q[1 + i - 1]
  <2> HIDE DEF n
  <2> QED
    BY <1>3, SubSeqProperties
<1>5. Len(SubSeq(q, 1, n)) = n /\ \A i \in 1 .. n : SubSeq(q, 1, n)[i] = q[i]
  <2> HIDE DEF n
  <2> QED
    BY <1>3, <1>4
<1> QED
  BY <1>1, <1>2, <1>4, <1>5

\* The pool after setPoolSize(1).
LEMMA Cut ==
    ASSUME NEW q \in Seq(Sets), Len(q) >= 1
    PROVE  /\ q[1] \in Sets
           /\ SubSeq(q, 1, 1) \in Seq(Sets)
           /\ Len(SubSeq(q, 1, 1)) = 1
           /\ SubSeq(q, 1, 1)[1] = q[1]
<1>1. Len(q) \in Nat /\ q[1] \in Sets
  BY ElementOfSeq
<1> QED
  BY <1>1, SubSeqProperties

\* The stack with one more set.
LEMMA Pushed ==
    ASSUME NEW q \in Seq(Sets), NEW s \in Sets
    PROVE  /\ Append(q, s) \in Seq(Sets)
           /\ Len(q) \in Nat /\ Len(Append(q, s)) = Len(q) + 1
           /\ Append(q, s)[Len(q) + 1] = s
           /\ \A i \in 1 .. Len(q) : Append(q, s)[i] = q[i]
  OBVIOUS

-----------------------------------------------------------------------------
(* The peak. *)

\* The most that were held at once are no more than the threads.
LEMMA PeakType ==
    ASSUME TypeOK, NEW t \in Threads
    PROVE  /\ PeakWith(t) \in 0 .. Cardinality(Threads)
           /\ Cardinality(Holders \cup {t}) \in Nat
           /\ Cardinality(Holders \cup {t}) <= PeakWith(t) /\ peak <= PeakWith(t)
<1>1. Holders \cup {t} \in SUBSET Threads
  BY DEF Holders
<1>2. /\ Cardinality(Holders \cup {t}) \in Nat /\ Cardinality(Threads) \in Nat
      /\ Cardinality(Holders \cup {t}) <= Cardinality(Threads)
  BY <1>1, PoolAssumption, FS_Subset, FS_CardinalityType
<1> QED
  BY <1>2 DEF PeakWith, TypeOK

-----------------------------------------------------------------------------
(* The actions. *)

\* A set from the pool passes to the thread.
LEMMA PollPooledKeeps ==
    ASSUME IInv, NEW t \in Threads, PollPooled(t)
    PROVE  IInv' /\ Holders' = Holders \cup {t} /\ live' = live
<1> DEFINE s == pool[Len(pool)]
<1>1. /\ Len(pool) \in Nat \ {0} /\ s \in Sets
      /\ pool' \in Seq(Sets) /\ Len(pool') = Len(pool) - 1
      /\ \A i \in 1 .. Len(pool) - 1 : pool'[i] = pool[i]
  BY Popped DEF IInv, TypeOK, PollPooled
<1>2. /\ held' = [held EXCEPT ![t] = s] /\ pc' = [pc EXCEPT ![t] = "polled"] /\ peak' = PeakWith(t)
      /\ pc[t] = "idle" /\ UNCHANGED <<live, content, seen, numThreads, shrinking>>
  BY DEF PollPooled
<1>3. held[t] = None /\ s # None
  BY <1>1, <1>2, PoolAssumption DEF IInv, HoldsUnlessIdle
<1>a. PeakWith(t) \in 0 .. Cardinality(Threads)
  BY PeakType DEF IInv
<1>4. TypeOK'
  BY <1>1, <1>2, <1>a DEF IInv, TypeOK
<1>b. \A u \in Threads : /\ held'[u] = IF u = t THEN s ELSE held[u]
                         /\ pc'[u] = IF u = t THEN "polled" ELSE pc[u]
  BY <1>2 DEF IInv, TypeOK
<1>5. HoldsUnlessIdle'
  BY <1>b, <1>3 DEF IInv, HoldsUnlessIdle
<1>6. Holders' = Holders \cup {t} /\ t \notin Holders
  BY <1>b, <1>3 DEF Holders
<1>7. Pooled' = Pooled \ {s} /\ s \in Pooled
  BY <1>1 DEF Pooled, IInv, SetsHaveOneOwner
<1>8. Held' = Held \cup {s} /\ s \notin Held
  BY <1>b, <1>6, <1>7 DEF Held, Holders, IInv, SetsHaveOneOwner
<1>9. SetsHaveOneOwner'
  <2>1. \A u \in Holders' : held'[u] \in live' /\ held'[u] \notin Pooled'
    BY <1>2, <1>b, <1>6, <1>7 DEF IInv, SetsHaveOneOwner
  <2>2. \A u, v \in Holders' : held'[u] = held'[v] => u = v
    <3>1. Holders \subseteq Threads /\ \A u \in Holders : held[u] # s
      BY <1>7 DEF Holders, IInv, SetsHaveOneOwner
    <3>2. \A u, v \in Holders : held[u] = held[v] => u = v
      BY DEF IInv, SetsHaveOneOwner
    <3> HIDE DEF s
    <3> QED
      BY <1>b, <1>6, <3>1, <3>2
  <2>3. \A i, j \in 1 .. Len(pool') : pool'[i] = pool'[j] => i = j
    BY <1>1 DEF IInv, SetsHaveOneOwner
  <2>4. Pooled' \subseteq live'
    BY <1>2, <1>7 DEF IInv, SetsHaveOneOwner
  <2> QED
    BY <2>1, <2>2, <2>3, <2>4 DEF SetsHaveOneOwner
<1>10. MarksFollow' /\ SeenSinceClear'
  BY <1>2, <1>b DEF IInv, MarksFollow, SeenSinceClear
<1>11. live' = Pooled' \cup Held'
  BY <1>2, <1>7, <1>8 DEF IInv
<1> QED
  BY <1>2, <1>4, <1>5, <1>6, <1>9, <1>10, <1>11 DEF IInv

\* A set that is made when the pool is empty is held by nobody else.
LEMMA PollNewKeeps ==
    ASSUME IInv, NEW t \in Threads, PollNew(t)
    PROVE  IInv' /\ Holders' = Holders \cup {t} /\ Pooled' = {}
<1>1. PICK s \in Sets \ live :
          /\ held' = [held EXCEPT ![t] = s] /\ live' = live \cup {s}
          /\ content' = [content EXCEPT ![s] = NewTable]
  BY DEF PollNew
<1>2. /\ pc' = [pc EXCEPT ![t] = "polled"] /\ peak' = PeakWith(t) /\ pc[t] = "idle"
      /\ pool = <<>> /\ pool' = pool /\ UNCHANGED <<seen, numThreads, shrinking>>
  BY DEF PollNew
<1>3. held[t] = None /\ s # None
  BY <1>1, <1>2, PoolAssumption DEF IInv, HoldsUnlessIdle
<1>a. PeakWith(t) \in 0 .. Cardinality(Threads)
  BY PeakType DEF IInv
<1>4. TypeOK'
  BY <1>1, <1>2, <1>a, NewTableKept DEF IInv, TypeOK
<1>b. \A u \in Threads : /\ held'[u] = IF u = t THEN s ELSE held[u]
                         /\ pc'[u] = IF u = t THEN "polled" ELSE pc[u]
  BY <1>1, <1>2 DEF IInv, TypeOK
<1>5. HoldsUnlessIdle'
  BY <1>b, <1>3 DEF IInv, HoldsUnlessIdle
<1>6. Holders' = Holders \cup {t} /\ t \notin Holders
  BY <1>b, <1>3 DEF Holders
<1>7. Pooled = {} /\ Pooled' = {}
  BY <1>2 DEF Pooled
<1>d. Holders \subseteq Threads
  BY DEF Holders
<1>8. Held' = Held \cup {s}
  <2>1. \A u \in Holders : held'[u] = held[u]
    BY <1>b, <1>d, <1>6
  <2>2. held'[t] = s
    BY <1>b
  <2> QED
    BY <2>1, <2>2, <1>6 DEF Held
<1>c. \A u \in Holders : held[u] \in live /\ held[u] # s
  BY <1>1 DEF IInv, SetsHaveOneOwner
<1>9. SetsHaveOneOwner'
  <2>1. \A u \in Holders' : held'[u] \in live' /\ held'[u] \notin Pooled'
    BY <1>1, <1>b, <1>6, <1>7, <1>c
  <2>2. \A u, v \in Holders' : held'[u] = held'[v] => u = v
    <3>1. \A u, v \in Holders : held[u] = held[v] => u = v
      BY DEF IInv, SetsHaveOneOwner
    <3> QED
      BY <1>b, <1>d, <1>6, <1>c, <3>1
  <2>3. \A i, j \in 1 .. Len(pool') : pool'[i] = pool'[j] => i = j
    BY <1>2 DEF IInv, SetsHaveOneOwner
  <2> QED
    BY <1>7, <2>1, <2>2, <2>3 DEF SetsHaveOneOwner
<1>10. MarksFollow' /\ SeenSinceClear'
  <2>1. \A r \in Sets : content'[r] = IF r = s THEN NewTable ELSE content[r]
    BY <1>1 DEF IInv, TypeOK
  <2>2. MarksFollow'
    BY <2>1, NewTableKept DEF IInv, MarksFollow
  <2>3. ASSUME NEW u \in Threads, pc'[u] = "searching"
        PROVE  content'[held'[u]] = content[held[u]] /\ seen'[u] = seen[u] /\ pc[u] = "searching"
    <3>1. u # t /\ pc[u] = "searching" /\ held'[u] = held[u]
      BY <2>3, <1>b
    <3>2. u \in Holders /\ held[u] \in Sets
      BY <3>1 DEF IInv, HoldsUnlessIdle, Holders, TypeOK
    <3>3. content'[held[u]] = content[held[u]]
      BY <2>1, <3>2, <1>c
    <3> QED
      BY <3>1, <3>3, <1>2
  <2>4. SeenSinceClear'
    BY <2>3 DEF IInv, SeenSinceClear
  <2> QED
    BY <2>2, <2>4
<1>11. live' = Pooled' \cup Held'
  BY <1>1, <1>7, <1>8 DEF IInv
<1> QED
  BY <1>4, <1>5, <1>6, <1>7, <1>9, <1>10, <1>11 DEF IInv

\* Clearing and inserting write to the set the thread holds, and no other.
LEMMA WriteKeeps ==
    ASSUME IInv, NEW t \in Threads, NEW c \in SUBSET Elements, pc[t] # "idle",
           NEW v \in TableType, One!LapsApart(v),
           \A n \in Elements : n \in c <=> v.inserted[n] = v.clears,
           content' = [content EXCEPT ![held[t]] = v], seen' = [seen EXCEPT ![t] = c],
           pc' = [pc EXCEPT ![t] = "searching"],
           UNCHANGED <<pool, live, held, numThreads, shrinking, peak>>
    PROVE  IInv' /\ Holders' = Holders
<1>1. t \in Holders /\ held[t] \in Sets
  BY DEF IInv, HoldsUnlessIdle, Holders, TypeOK
<1>2. TypeOK'
  BY <1>1 DEF IInv, TypeOK
<1>b. \A u \in Threads : /\ pc'[u] = IF u = t THEN "searching" ELSE pc[u]
                         /\ seen'[u] = IF u = t THEN c ELSE seen[u]
  BY DEF IInv, TypeOK
<1>3. HoldsUnlessIdle'
  BY <1>b DEF IInv, HoldsUnlessIdle
<1>4. Holders' = Holders /\ Pooled' = Pooled /\ Held' = Held
  BY DEF Holders, Pooled, Held
<1>5. SetsHaveOneOwner'
  BY <1>4 DEF IInv, SetsHaveOneOwner
<1>c. \A r \in Sets : content'[r] = IF r = held[t] THEN v ELSE content[r]
  BY <1>1 DEF IInv, TypeOK
<1>6. MarksFollow'
  BY <1>c DEF IInv, MarksFollow
<1>7. ASSUME NEW u \in Threads, pc'[u] = "searching"
      PROVE  \A n \in Elements :
                n \in seen'[u] <=> content'[held'[u]].inserted[n] = content'[held'[u]].clears
  <2>1. CASE u = t
    <3>1. content'[held'[u]] = v /\ seen'[u] = c
      BY <2>1, <1>1, <1>b, <1>c
    <3> QED
      BY <3>1
  <2>2. CASE u # t
    <3>1. pc[u] = "searching" /\ seen'[u] = seen[u]
      BY <2>2, <1>7, <1>b
    <3>2. u \in Holders
      BY <3>1 DEF IInv, HoldsUnlessIdle, Holders
    <3>3. held[u] # held[t] /\ held[u] \in Sets
      BY <2>2, <3>2, <1>1 DEF IInv, SetsHaveOneOwner, Holders, TypeOK
    <3>4. content'[held'[u]] = content[held[u]]
      BY <3>3, <1>c
    <3> QED
      BY <3>1, <3>4 DEF IInv, SeenSinceClear
  <2> QED
    BY <2>1, <2>2
<1>8. SeenSinceClear'
  BY <1>7 DEF SeenSinceClear
<1> QED
  BY <1>2, <1>3, <1>4, <1>5, <1>6, <1>8 DEF IInv

\* A set that is returned has no holder left.
LEMMA PushKeeps ==
    ASSUME IInv, NEW t \in Threads, Push(t)
    PROVE  IInv' /\ Holders' \subseteq Holders /\ live' = live
<1> DEFINE s == held[t]
<1>1. t \in Holders /\ s \in Sets
  BY DEF Push, IInv, HoldsUnlessIdle, Holders, TypeOK
<1>2. /\ pool' \in Seq(Sets) /\ Len(pool) \in Nat /\ Len(pool') = Len(pool) + 1
      /\ pool'[Len(pool) + 1] = s /\ \A i \in 1 .. Len(pool) : pool'[i] = pool[i]
  BY <1>1, Pushed DEF Push, IInv, TypeOK
<1>3. TypeOK'
  BY <1>2 DEF Push, IInv, TypeOK
<1>b. \A u \in Threads : /\ held'[u] = IF u = t THEN None ELSE held[u]
                         /\ pc'[u] = IF u = t THEN "idle" ELSE pc[u]
                         /\ u # t => seen'[u] = seen[u]
  BY DEF Push, IInv, TypeOK
<1>c. live' = live /\ content' = content
  BY DEF Push
<1>4. HoldsUnlessIdle'
  BY <1>b DEF IInv, HoldsUnlessIdle
<1>5. Holders' = Holders \ {t}
  BY <1>b DEF Holders
<1>6. Pooled' = Pooled \cup {s} /\ s \notin Pooled
  <2>1. \A i \in 1 .. Len(pool') : i \in 1 .. Len(pool) \/ i = Len(pool) + 1
    BY <1>2
  <2>2. 1 .. Len(pool) \subseteq 1 .. Len(pool') /\ Len(pool) + 1 \in 1 .. Len(pool')
    BY <1>2
  <2> QED
    BY <1>1, <1>2, <2>1, <2>2 DEF Pooled, IInv, SetsHaveOneOwner
<1>d. s \in live /\ \A u \in Holders' : held'[u] = held[u] /\ held[u] # s
  BY <1>1, <1>5, <1>b DEF IInv, SetsHaveOneOwner, Holders
<1>7. Held' \cup {s} = Held
  BY <1>1, <1>5, <1>d DEF Held
<1>8. SetsHaveOneOwner'
  <2>1. \A u \in Holders' : held'[u] \in live' /\ held'[u] \notin Pooled'
    BY <1>5, <1>6, <1>c, <1>d DEF IInv, SetsHaveOneOwner
  <2>2. \A u, v \in Holders' : held'[u] = held'[v] => u = v
    BY <1>5, <1>d DEF IInv, SetsHaveOneOwner
  <2>3. \A i, j \in 1 .. Len(pool') : pool'[i] = pool'[j] => i = j
    <3>1. \A i \in 1 .. Len(pool) : pool'[i] = pool[i] /\ pool[i] # s
      BY <1>2, <1>6 DEF Pooled
    <3>2. \A i \in 1 .. Len(pool') : i \in 1 .. Len(pool) \/ i = Len(pool) + 1
      BY <1>2
    <3> QED
      BY <1>2, <3>1, <3>2 DEF IInv, SetsHaveOneOwner
  <2>4. Pooled' \subseteq live'
    BY <1>6, <1>c, <1>d DEF IInv, SetsHaveOneOwner
  <2> QED
    BY <2>1, <2>2, <2>3, <2>4 DEF SetsHaveOneOwner
<1>9. MarksFollow' /\ SeenSinceClear'
  BY <1>b, <1>c DEF IInv, MarksFollow, SeenSinceClear
<1>10. live' = Pooled' \cup Held'
  BY <1>6, <1>7, <1>c DEF IInv
<1> QED
  BY <1>3, <1>4, <1>5, <1>8, <1>9, <1>10, <1>c DEF IInv

\* setNumThreads keeps its number before the pool shrinks: no set moves yet.
LEMMA SetNumThreadsKeeps ==
    ASSUME IInv, NEW k \in 1 .. Cores, SetNumThreads(k)
    PROVE  IInv' /\ Holders' = Holders /\ live' = live
<1>1. Holders' = Holders /\ Pooled' = Pooled /\ Held' = Held
  BY DEF SetNumThreads, Holders, Pooled, Held
<1>2. TypeOK'
  BY DEF SetNumThreads, IInv, TypeOK
<1> QED
  BY <1>1, <1>2 DEF SetNumThreads, IInv, HoldsUnlessIdle, SetsHaveOneOwner, MarksFollow,
                   SeenSinceClear

\* Shrinking deletes sets of the pool and none that is held.
LEMMA ShrinkPoolKeeps ==
    ASSUME IInv, ShrinkPool
    PROVE  IInv' /\ Holders' = Holders /\ live' \subseteq live
<1>1. Holders' = Holders /\ Held' = Held
  BY DEF ShrinkPool, Holders, Held
<1>a. HoldsUnlessIdle' /\ MarksFollow' /\ SeenSinceClear'
  BY DEF ShrinkPool, IInv, HoldsUnlessIdle, MarksFollow, SeenSinceClear
<1>2. CASE Len(pool) < 1
  <2>1. pool' = pool /\ live' = live /\ Pooled' = Pooled
    BY <1>2 DEF ShrinkPool, Pooled
  <2>2. TypeOK'
    BY <2>1 DEF ShrinkPool, IInv, TypeOK
  <2>3. SetsHaveOneOwner'
    BY <1>1, <2>1 DEF ShrinkPool, IInv, SetsHaveOneOwner
  <2> QED
    BY <1>1, <1>a, <2>1, <2>2, <2>3 DEF IInv
<1>3. CASE Len(pool) >= 1
  <2>1. /\ pool' = SubSeq(pool, 1, 1) /\ live' = live \ {pool[i] : i \in 2 .. Len(pool)}
        /\ Len(pool) \in Nat
    BY <1>3 DEF ShrinkPool, IInv, TypeOK
  <2>2. pool' \in Seq(Sets) /\ Len(pool') = 1 /\ pool'[1] = pool[1]
    BY <1>3, <2>1, Cut DEF IInv, TypeOK
  <2>3. TypeOK'
    BY <2>1, <2>2 DEF ShrinkPool, IInv, TypeOK
  <2>4. Pooled' = {pool[1]} /\ Pooled = {pool[1]} \cup {pool[i] : i \in 2 .. Len(pool)}
    BY <1>3, <2>1, <2>2 DEF Pooled
  <2>5. pool[1] \notin {pool[i] : i \in 2 .. Len(pool)}
    BY <1>3, <2>1 DEF IInv, SetsHaveOneOwner
  <2>6. \A u \in Holders : held[u] \notin {pool[i] : i \in 2 .. Len(pool)}
    BY <2>4 DEF IInv, SetsHaveOneOwner
  <2>7. Held \cap {pool[i] : i \in 2 .. Len(pool)} = {}
    BY <2>6 DEF Held
  <2>8. live' = Pooled' \cup Held'
    BY <1>1, <2>1, <2>4, <2>5, <2>7 DEF IInv
  <2>9. SetsHaveOneOwner'
    <3>1. held' = held
      BY DEF ShrinkPool
    <3>2. \A u \in Holders' : held'[u] \in live' /\ held'[u] \notin Pooled'
      BY <1>1, <2>1, <2>4, <2>6, <3>1 DEF IInv, SetsHaveOneOwner
    <3>3. \A i, j \in 1 .. Len(pool') : pool'[i] = pool'[j] => i = j
      BY <2>2
    <3> QED
      BY <1>1, <2>8, <3>1, <3>2, <3>3 DEF IInv, SetsHaveOneOwner
  <2> QED
    BY <1>1, <1>a, <2>1, <2>3, <2>8, <2>9 DEF IInv
<1> QED
  BY <1>2, <1>3 DEF IInv, TypeOK

-----------------------------------------------------------------------------
(* The theorems. *)

\* At first one set is in the pool and none is held.
LEMMA InitHolds == ASSUME Init PROVE IInv /\ Holders = {} /\ \E s \in Sets : live = {s}
<1>1. PICK s \in Sets : pool = <<s>> /\ live = {s}
  BY DEF Init
<1>2. Holders = {} /\ Held = {}
  BY DEF Init, Holders, Held
<1>3. Len(pool) = 1 /\ pool[1] = s /\ pool \in Seq(Sets)
  BY <1>1
<1>4. Pooled = {s}
  BY <1>3 DEF Pooled
<1>5. Cardinality(Threads) \in Nat
  BY PoolAssumption, FS_CardinalityType
<1>6. TypeOK
  <2>1. /\ content \in [Sets -> TableType] /\ held \in [Threads -> Sets \cup {None}]
        /\ pc \in [Threads -> {"idle", "polled", "searching"}] /\ seen \in [Threads -> SUBSET Elements]
    BY NewTableKept DEF Init
  <2>2. numThreads \in 1 .. Cores /\ shrinking \in BOOLEAN /\ peak \in 0 .. Cardinality(Threads)
    <3>1. numThreads \in 1 .. Cores /\ shrinking = FALSE /\ peak = 0
      BY DEF Init
    <3>2. shrinking \in BOOLEAN
      BY <3>1
    <3>3. peak \in 0 .. Cardinality(Threads)
      BY <1>5, <3>1
    <3> QED
      BY <3>1, <3>2, <3>3
  <2>3. live \in SUBSET Sets
    BY <1>1
  <2> QED
    BY <1>3, <2>1, <2>2, <2>3 DEF TypeOK
<1>7. SetsHaveOneOwner
  BY <1>1, <1>2, <1>3, <1>4 DEF SetsHaveOneOwner
<1>8. HoldsUnlessIdle /\ MarksFollow /\ SeenSinceClear
  BY NewTableKept DEF Init, HoldsUnlessIdle, MarksFollow, SeenSinceClear
<1> QED
  BY <1>1, <1>2, <1>4, <1>6, <1>7, <1>8 DEF IInv

\* What a step does to the holders and the live sets.
Step ==
    \/ /\ Holders' \subseteq Holders /\ live' \subseteq live
       /\ peak' = peak
    \/ \E t \in Threads :
           /\ Holders' = Holders \cup {t} /\ peak' = PeakWith(t)
           /\ live' = live \/ Pooled' = {}

\* No step breaks the invariant, and each keeps count of the sets.
LEMMA NextKeeps == ASSUME IInv, [Next]_vars PROVE IInv' /\ Step
<1>1. ASSUME NEW t \in Threads, PollPooled(t) PROVE IInv' /\ Step
  BY <1>1, PollPooledKeeps DEF Step, PollPooled
<1>2. ASSUME NEW t \in Threads, PollNew(t) PROVE IInv' /\ Step
  BY <1>2, PollNewKeeps DEF Step, PollNew
<1>3. ASSUME NEW t \in Threads, ClearSet(t) PROVE IInv' /\ Step
  <2> DEFINE c == {}
             v == Cleared(content[held[t]])
  <2>1. /\ content' = [content EXCEPT ![held[t]] = v] /\ seen' = [seen EXCEPT ![t] = c]
        /\ pc' = [pc EXCEPT ![t] = "searching"] /\ pc[t] # "idle"
        /\ UNCHANGED <<pool, live, held, numThreads, shrinking, peak>>
    BY <1>3 DEF ClearSet
  <2>2. held[t] \in Sets
    BY <2>1 DEF IInv, HoldsUnlessIdle, TypeOK
  <2>3. content[held[t]] \in TableType /\ One!LapsApart(content[held[t]])
    BY <2>2 DEF IInv, TypeOK, MarksFollow
  <2>4. /\ v \in TableType /\ One!LapsApart(v)
        /\ c \in SUBSET Elements /\ \A n \in Elements : n \in c <=> v.inserted[n] = v.clears
    BY <2>3, ClearedKept
  <2>5. IInv' /\ Holders' = Holders
    <3> HIDE DEF c, v
    <3> QED
      BY <1>3, <2>1, <2>4, WriteKeeps
  <2> QED
    BY <2>1, <2>5 DEF Step
<1>4. ASSUME NEW t \in Threads, NEW n \in Elements, Visit(t, n) PROVE IInv' /\ Step
  <2> DEFINE c == seen[t] \cup {n}
             u == content[held[t]]
             v == Inserted(u, n)
  <2>1. pc[t] = "searching" /\ held[t] \in Sets
    BY <1>4 DEF Visit, IInv, HoldsUnlessIdle, TypeOK
  <2>2. u \in TableType /\ One!LapsApart(u)
    BY <2>1 DEF IInv, TypeOK, MarksFollow
  <2>3. c \in SUBSET Elements /\ \A m \in Elements : m \in seen[t] <=> u.inserted[m] = u.clears
    BY <2>1 DEF IInv, TypeOK, SeenSinceClear
  <2>4. /\ v \in TableType /\ One!LapsApart(v) /\ v.clears = u.clears
        /\ \A m \in Elements : v.inserted[m] = IF m = n THEN u.clears ELSE u.inserted[m]
    <3> HIDE DEF u
    <3> QED
      BY <2>2, InsertedKept
  <2>5. \A m \in Elements : m \in c <=> v.inserted[m] = v.clears
    <3> HIDE DEF u, v
    <3> QED
      BY <2>3, <2>4
  <2>6. /\ content' = [content EXCEPT ![held[t]] = v] /\ seen' = [seen EXCEPT ![t] = c]
        /\ pc' = [pc EXCEPT ![t] = "searching"]
    BY <1>4, <2>1 DEF Visit, IInv, TypeOK
  <2>7. UNCHANGED <<pool, live, held, numThreads, shrinking, peak>>
    BY <1>4 DEF Visit
  <2> HIDE DEF c, v
  <2> QED
    BY <2>1, <2>3, <2>4, <2>5, <2>6, <2>7, WriteKeeps DEF Step
<1>5. ASSUME NEW t \in Threads, Push(t) PROVE IInv' /\ Step
  BY <1>5, PushKeeps DEF Step, Push
<1>6. ASSUME NEW k \in 1 .. Cores, SetNumThreads(k) PROVE IInv' /\ Step
  BY <1>6, SetNumThreadsKeeps DEF Step, SetNumThreads
<1>7. CASE ShrinkPool
  BY <1>7, ShrinkPoolKeeps DEF Step, ShrinkPool
<1>8. CASE UNCHANGED vars
  <2>1. Holders' = Holders /\ Pooled' = Pooled /\ Held' = Held
    BY <1>8 DEF vars, Holders, Pooled, Held
  <2> QED
    BY <1>8, <2>1 DEF Step, vars, IInv, TypeOK, HoldsUnlessIdle, SetsHaveOneOwner,
                        MarksFollow, SeenSinceClear
<1> QED
  BY <1>1, <1>2, <1>3, <1>4, <1>5, <1>6, <1>7, <1>8 DEF Next, Search

\* The invariant holds throughout.
LEMMA IInvHolds == Spec => []IInv
<1>1. Init => IInv
  BY InitHolds
<1>2. IInv /\ [Next]_vars => IInv'
  BY NextKeeps
<1> QED
  BY <1>1, <1>2, PTL DEF Spec

\* The stack lists sets and the peak never exceeds the number of threads.
THEOREM TypeCorrect == Spec => []TypeOK
<1>1. IInv => TypeOK
  BY DEF IInv
<1> QED
  BY <1>1, IInvHolds, PTL

\* pollAvailableSet hands a set to one thread, pushVisitedSet takes it back, and
\* setPoolSize deletes none that is in use, for any number of threads and sets.
THEOREM OneOwner == Spec => []SetsHaveOneOwner
<1>1. IInv => SetsHaveOneOwner
  BY DEF IInv
<1> QED
  BY <1>1, IInvHolds, PTL

\* A search finds in its set what it put there since it cleared it, and of
\* others only what earlier holders put there whole laps of the mark ago: for
\* any width of the mark, and never a mark of a search that runs meanwhile.
THEOREM OwnMarksOnly == Spec => []SearchSeesOwnMarks
<1>1. IInv => SearchSeesOwnMarks
  BY SeesOwnMarks
<1> QED
  BY <1>1, IInvHolds, PTL

AtMost == IF peak > 1 THEN peak ELSE 1

\* As many threads as hold a set have held one at once.
BoundInv == Cardinality(Holders) <= peak /\ Cardinality(live) <= AtMost

\* A thread holds at most one set.
LEMMA HeldBounded ==
    ASSUME NEW H, IsFiniteSet(H), NEW h
    PROVE  LET T == {h[t] : t \in H} IN IsFiniteSet(T) /\ Cardinality(T) <= Cardinality(H)
<1> DEFINE T == {h[t] : t \in H}
           f == [t \in H |-> h[t]]
<1>1. f \in Surjection(H, T)
  BY Fun_IsSurj
<1> QED
  BY <1>1, FS_Surjection

\* No set is lost: with a new one there are as many as threads that hold one.
THEOREM NoSetIsLost == Spec => []LiveSetsBounded
<1>1. Init => BoundInv
  <2> SUFFICES ASSUME Init PROVE BoundInv
    OBVIOUS
  <2>1. PICK s \in Sets : live = {s}
    BY InitHolds
  <2> QED
    <3>1. Cardinality(live) = 1
      BY <2>1, FS_Singleton
    <3>2. Cardinality(Holders) = 0 /\ peak = 0
      BY InitHolds, FS_EmptySet DEF Init
    <3> QED
      BY <3>1, <3>2 DEF BoundInv, AtMost
<1>2. IInv /\ [Next]_vars /\ BoundInv => BoundInv'
  <2> SUFFICES ASSUME IInv, [Next]_vars, BoundInv PROVE BoundInv'
    OBVIOUS
  <2>1. IInv' /\ Step
    BY NextKeeps
  <2>2. /\ TypeOK /\ TypeOK' /\ peak \in Nat /\ peak' \in Nat
    BY <2>1 DEF IInv, TypeOK
  <2>3. /\ IsFiniteSet(Holders) /\ Cardinality(Holders) \in Nat
        /\ IsFiniteSet(live) /\ Cardinality(live) \in Nat
        /\ IsFiniteSet(Holders') /\ Cardinality(Holders') \in Nat /\ Cardinality(live') \in Nat
    <3>1. Holders \subseteq Threads /\ Holders' \subseteq Threads /\ live \subseteq Sets /\ live' \subseteq Sets
      BY <2>2 DEF Holders, TypeOK
    <3> QED
      BY <3>1, PoolAssumption, FS_Subset, FS_CardinalityType
  <2>4. CASE Holders' \subseteq Holders /\ live' \subseteq live /\ peak' = peak
    <3>1. Cardinality(Holders') <= Cardinality(Holders) /\ Cardinality(live') <= Cardinality(live)
      BY <2>3, <2>4, FS_Subset
    <3> QED
      BY <2>2, <2>3, <2>4, <3>1 DEF BoundInv, AtMost
  <2>5. ASSUME NEW t \in Threads, Holders' = Holders \cup {t}, peak' = PeakWith(t),
               live' = live \/ Pooled' = {}
        PROVE  BoundInv'
    <3>1. Cardinality(Holders') <= peak' /\ peak <= peak'
      BY <2>2, <2>5, PeakType
    <3>2. CASE live' = live
      BY <2>2, <2>3, <3>1, <3>2 DEF BoundInv, AtMost
    <3>3. CASE Pooled' = {}
      <4>1. live' = Held'
        BY <2>1, <3>3 DEF IInv
      <4>2. Cardinality(live') <= Cardinality(Holders')
        <5>1. Cardinality({held'[u] : u \in Holders'}) <= Cardinality(Holders')
          BY <2>3, HeldBounded
        <5> QED
          BY <4>1, <5>1 DEF Held
      <4> QED
        BY <2>2, <2>3, <3>1, <4>2 DEF BoundInv, AtMost
    <3> QED
      BY <2>5, <3>2, <3>3
  <2> QED
    BY <2>1, <2>4, <2>5 DEF Step
<1>3. IInv /\ BoundInv => LiveSetsBounded
  BY DEF IInv, BoundInv, AtMost, LiveSetsBounded, Held
<1> QED
  BY <1>1, <1>2, <1>3, IInvHolds, PTL DEF Spec

=============================================================================
