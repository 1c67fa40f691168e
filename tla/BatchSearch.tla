---------------------------- MODULE BatchSearch ----------------------------
(***************************************************************************)
(* Index::concurrentBatchSearch (include/flatnav/index/Index.h): one       *)
(* thread runs many queries by giving each of a few slots a turn in        *)
(* rotation.  A turn pops a candidate, or looks at links until it has      *)
(* computed one distance; a slot whose query is finished takes the next    *)
(* unanswered query of the batch.  The entry nodes of the first queries    *)
(* are found in the same interleaved way.  Nothing else touches the graph. *)
(*                                                                         *)
(* A definition marked "Faulty" stands before the one it distorts and is   *)
(* used nowhere else.                                                      *)
(***************************************************************************)
EXTENDS BeamSearch

CONSTANTS
    Graphs,       \* the graphs searched: functions from nodes to link slots
    Concurrency   \* concurrency

ASSUME GraphsAssumption == Graphs \subseteq [Nodes -> [Slots -> Nodes]]
ASSUME ConcurrencyAssumption == Concurrency \in Nat \ {0}

\* actual_concurrency
NumSlots == IF Concurrency < NumQueries THEN Concurrency ELSE NumQueries
SlotIds  == 0 .. NumSlots - 1

Unanswered == << -1 >>   \* an entry of all_results that is not filled in

VARIABLES
    links,      \* the graph, which no search changes
    phase,      \* "entries", "turns" or "returned"
    turn,       \* q, the slot whose turn it is
    probe,      \* current_node of interleavedInitializeSearch
    best,       \* best_node
    state,      \* execution_state of each slot
    query,      \* slot_query_idx
    search,     \* candidates, neighbors and visited of each slot
    node,       \* the node whose links current_links points to
    linkIdx,    \* link_idx
    nextQuery,  \* next_query
    active,     \* active_count
    results     \* all_results

vars == <<links, phase, turn, probe, best, state, query, search, node, linkIdx,
          nextQuery, active, results>>

\* seedBeamSearchState
Seed(e) == [cand |-> <<e>>, beam |-> <<e>>, visited |-> {e}]

Init ==
    /\ links \in Graphs
    /\ phase = "entries"
    /\ turn = 0
    /\ probe = [s \in SlotIds |-> 0]
    /\ best = [s \in SlotIds |-> 0]
    /\ state = [s \in SlotIds |-> "Unscheduled"]
    /\ query = [s \in SlotIds |-> s]
    /\ search = [s \in SlotIds |-> Seed(0)]
    /\ node = [s \in SlotIds |-> 0]
    /\ linkIdx = [s \in SlotIds |-> 0]
    /\ nextQuery = NumSlots
    /\ active = NumSlots
    /\ results = [q \in Queries |-> Unanswered]

\* The for loops over the slots go round and round.
NextTurn == turn' = (turn + 1) % NumSlots

-----------------------------------------------------------------------------
(* interleavedInitializeSearch. *)

\* One slot compares one node.
ProbeNode ==
    /\ phase = "entries"
    /\ NumSlots > 0
    /\ IF probe[turn] < NumNodes
       THEN /\ best' = [best EXCEPT ![turn] =
                            IF QueryDist[query[turn]][probe[turn]] < QueryDist[query[turn]][@]
                            THEN probe[turn] ELSE @]
            /\ probe' = [probe EXCEPT ![turn] = @ + StepSize]
       ELSE UNCHANGED <<probe, best>>
    /\ \E s \in SlotIds : probe[s] < NumNodes
    /\ NextTurn
    /\ UNCHANGED <<links, phase, state, query, search, node, linkIdx, nextQuery, active, results>>

\* All slots are seeded with what they found.
SeedSlots ==
    /\ phase = "entries"
    /\ \A s \in SlotIds : probe[s] >= NumNodes
    /\ phase' = "turns"
    /\ turn' = 0
    /\ search' = [s \in SlotIds |-> Seed(best[s])]
    /\ UNCHANGED <<links, probe, best, state, query, node, linkIdx, nextQuery, active, results>>

-----------------------------------------------------------------------------
(* The turns. *)

HasTurn(s) == phase = "turns" /\ active > 0 /\ turn = s

SkipDone(s) ==
    /\ HasTurn(s)
    /\ state[s] = "Done"
    /\ NextTurn
    /\ UNCHANGED <<links, phase, probe, best, state, query, search, node, linkIdx, nextQuery, active, results>>

\* popCandidateOrFinish pops before it tests whether the candidate can help.
PopCandidate(s) ==
    /\ HasTurn(s)
    /\ state[s] = "Unscheduled"
    /\ search[s].cand # <<>>
    /\ ~Hopeless(query[s], search[s].beam, search[s].cand[1])
    /\ search' = [search EXCEPT ![s] = Popped(query[s], @)]
    /\ node' = [node EXCEPT ![s] = search[s].cand[1]]
    /\ linkIdx' = [linkIdx EXCEPT ![s] = 0]
    /\ state' = [state EXCEPT ![s] = "ProcessingLinks"]
    /\ NextTurn
    /\ UNCHANGED <<links, phase, probe, best, query, nextQuery, active, results>>

\* The query of slot s has nothing left that could improve its beam.
Finished(s) ==
    search[s].cand # <<>> => Hopeless(query[s], search[s].beam, search[s].cand[1])

\* finishQuery
Answer(s) ==
    /\ HasTurn(s)
    /\ state[s] = "Unscheduled"
    /\ Finished(s)
    /\ results' = [results EXCEPT ![query[s]] = BestFirst(query[s], search[s].beam)]

\* Faulty: active_count is not decremented.
FinishSlotUncounted(s) ==
    /\ Answer(s)
    /\ nextQuery >= NumQueries
    /\ state' = [state EXCEPT ![s] = "Done"]
    /\ NextTurn
    /\ UNCHANGED <<links, phase, probe, best, query, search, node, linkIdx, nextQuery, active>>

\* replaceSlot when the batch has no query left.
FinishSlot(s) ==
    /\ Answer(s)
    /\ nextQuery >= NumQueries
    /\ state' = [state EXCEPT ![s] = "Done"]
    /\ active' = active - 1
    /\ NextTurn
    /\ UNCHANGED <<links, phase, probe, best, query, search, node, linkIdx, nextQuery>>

\* Faulty: the next query inherits the visited set of the one before.
RefillSlotStale(s) ==
    /\ Answer(s)
    /\ nextQuery < NumQueries
    /\ query' = [query EXCEPT ![s] = nextQuery]
    /\ nextQuery' = nextQuery + 1
    /\ LET e == EntryNode(nextQuery)
       IN  search' = [search EXCEPT ![s] =
                        [cand |-> <<e>>, beam |-> <<e>>, visited |-> search[s].visited \cup {e}]]
    /\ linkIdx' = [linkIdx EXCEPT ![s] = 0]
    /\ state' = [state EXCEPT ![s] = "Unscheduled"]
    /\ NextTurn
    /\ UNCHANGED <<links, phase, probe, best, node, active>>

\* replaceSlot when the slot goes on with the next query.
RefillSlot(s) ==
    /\ Answer(s)
    /\ nextQuery < NumQueries
    /\ query' = [query EXCEPT ![s] = nextQuery]
    /\ nextQuery' = nextQuery + 1
    /\ search' = [search EXCEPT ![s] = Seed(EntryNode(nextQuery))]
    /\ linkIdx' = [linkIdx EXCEPT ![s] = 0]
    /\ state' = [state EXCEPT ![s] = "Unscheduled"]
    /\ NextTurn
    /\ UNCHANGED <<links, phase, probe, best, node, active>>

\* processOneLink: links already visited are passed over; the turn ends with
\* the first new one, or with the last link.
ProcessOneLink(s) ==
    /\ HasTurn(s)
    /\ state[s] = "ProcessingLinks"
    /\ LET new(i) == links[node[s]][i] \notin search[s].visited
           stop == {i \in Slots : i >= linkIdx[s] /\ new(i) /\ \A j \in linkIdx[s] .. i - 1 : ~new(j)}
       IN  /\ search' = [search EXCEPT ![s] =
                IF stop = {} THEN @
                ELSE VisitNode(query[s], @, links[node[s]][CHOOSE i \in stop : TRUE])]
           /\ linkIdx' = [linkIdx EXCEPT ![s] = IF stop = {} THEN M ELSE 1 + CHOOSE i \in stop : TRUE]
    /\ state' = [state EXCEPT ![s] = IF linkIdx'[s] >= M THEN "Unscheduled" ELSE @]
    /\ NextTurn
    /\ UNCHANGED <<links, phase, probe, best, query, node, nextQuery, active, results>>

Return ==
    /\ phase = "turns"
    /\ active = 0
    /\ phase' = "returned"
    /\ UNCHANGED <<links, turn, probe, best, state, query, search, node, linkIdx, nextQuery, active, results>>

Turn(s) == SkipDone(s) \/ PopCandidate(s) \/ FinishSlot(s) \/ RefillSlot(s) \/ ProcessOneLink(s)

Next == ProbeNode \/ SeedSlots \/ (\E s \in SlotIds : Turn(s)) \/ Return

Spec == Init /\ [][Next]_vars

\* One thread runs the loop and never waits.
FairSpec == Spec /\ WF_vars(Next)

-----------------------------------------------------------------------------
(* Properties. *)

\* concurrentBatchSearch repeats the steps of search for many queries at once:
\* every answer is the one a search of that query alone gives, nodes at the same
\* distance included, though slots are taken over by later queries with whatever
\* the earlier one left behind.  The search compared with is one whose pooled
\* visited set shows no stale nodes: the slots have sets of their own, which
\* never show any, so beyond 255 clear()s of a pooled set the two may differ.
SameAsSearch == \A q \in Queries : results[q] # Unanswered => results[q] = Search(links, q, {})

\* The call returns, with every query answered.
ReturnsAllAnswers == <>(phase = "returned" /\ \A q \in Queries : results[q] # Unanswered)

=============================================================================
