------------------------------- MODULE Decisions -------------------------------
(***************************************************************************)
(* What the extender answers for the pods of one service: the scorer that  *)
(* saves a decision every cycle, the preference its user sets and deletes, *)
(* the override a change-node request leaves, and the requests to          *)
(* /prioritize and /optimal that look at all three.  A step is one call to *)
(* Redis.  Definitions named Faulty... are slips the properties must       *)
(* notice; nothing uses them.                                              *)
(***************************************************************************)
EXTENDS Naturals, FiniteSets

CONSTANTS
  Nodes,
  Queries,        \* requests to /prioritize and /optimal
  CandidateSets,  \* the node lists a /prioritize request can come with
  Rankings,       \* orders by score the scorer can find: node -> its place
  MaxChanges,     \* bound: preferences and overrides set or deleted, and crashes
  Faults,         \* which of "redis", "lost", "crash" can happen
  None

ASSUME DecisionsAssumption ==
  /\ IsFiniteSet(Queries) /\ IsFiniteSet(Nodes)
  /\ CandidateSets \subseteq (SUBSET Nodes) \ {{}}
  /\ Rankings # {}
  /\ Rankings \subseteq [Nodes -> 1..Cardinality(Nodes)]
  /\ \A rank \in Rankings : \A m, n \in Nodes : rank[m] = rank[n] => m = n
  /\ MaxChanges \in Nat
  /\ Faults \subseteq {"redis", "lost", "crash"}
  /\ None \notin Nodes

VARIABLES
  (* Redis *)
  pref,       \* scheduler:preference:<service>, or None
  decision,   \* scheduler:decision:<service>, or NoDecision
  override,   \* the change-node override, or None
  counter,    \* rr:<service>
  (* the scorer *)
  spc, draft, feasible,
  (* a request *)
  qpc, kind, cand, seen, answer,
  (* ghosts and bounds *)
  changes,    \* changes by users, and crashes, so far
  overrides,  \* overrides set so far
  picks       \* node -> round robin picks since the counter started

stored == <<pref, decision, override, counter>>
scorer == <<spc, draft, feasible>>
queries == <<qpc, kind, cand, seen, answer>>
ghosts == <<changes, overrides, picks>>
vars == <<stored, scorer, queries, ghosts>>

Decision == [best : Nodes, preferred : Nodes \cup {None}, ranking : Rankings]
NoDecision == [best |-> None, preferred |-> None, ranking |-> <<>>]
NoAnswer == [node |-> None, via |-> "none"]

Init ==
  /\ pref = None /\ decision = NoDecision /\ override = None /\ counter = 0
  /\ spc = "wait" /\ draft = NoDecision /\ feasible = {}
  /\ qpc = [q \in Queries |-> "idle"]
  /\ kind = [q \in Queries |-> "none"]
  /\ cand = [q \in Queries |-> {}]
  /\ seen = [q \in Queries |-> NoDecision]
  /\ answer = [q \in Queries |-> NoAnswer]
  /\ changes = 0 /\ overrides = 0 /\ picks = [n \in Nodes |-> 0]

RedisFails == "redis" \in Faults

--------------------------------------------------------------------------------
(* The neutral decision names no node.                                     *)
FaultyComputeForService ==
  /\ spc = "wait"
  /\ \E F \in SUBSET Nodes, r \in Rankings, b \in Nodes :
       /\ F # {} => b \in F
       /\ draft' = [best |-> IF F = {} THEN None ELSE b, preferred |-> None, ranking |-> r]
       /\ feasible' = F
       /\ spc' = IF F = {} THEN "get" ELSE "pref"
  /\ UNCHANGED <<stored, queries, ghosts>>

(* The scorer.  With feasible nodes it goes on to read the preference;     *)
(* without, or when the runtime cannot be read, a neutral decision is      *)
(* saved that names some node.                                             *)
ComputeForService ==
  /\ spc = "wait"
  /\ \E F \in SUBSET Nodes, r \in Rankings, b \in Nodes :
       /\ F # {} => b \in F
       /\ draft' = [best |-> b, preferred |-> None, ranking |-> r]
       /\ feasible' = F
       /\ spc' = IF F = {} THEN "get" ELSE "pref"
  /\ UNCHANGED <<stored, queries, ghosts>>

(* Save always looks at the decision there is.                             *)
FaultyReadPreference ==
  /\ spc = "pref"
  /\ draft' = [draft EXCEPT !.preferred = pref, !.best = IF pref \in feasible THEN pref ELSE @]
  /\ spc' = "get"
  /\ feasible' = {}
  /\ UNCHANGED <<stored, queries, ghosts>>

(* A preferred node that is feasible becomes the best one.  Save skips its *)
(* look at the existing decision when there is a preference.               *)
ReadPreference ==
  /\ spc = "pref"
  /\ \/ /\ pref # None
        /\ draft' = [draft EXCEPT !.preferred = pref,
                                  !.best = IF pref \in feasible THEN pref ELSE @]
        /\ spc' = "put"
     \/ (pref = None \/ RedisFails) /\ spc' = "get" /\ UNCHANGED draft
  /\ feasible' = {}
  /\ UNCHANGED <<stored, queries, ghosts>>

(* Save does not look at the decision there is.                            *)
FaultySaveGet ==
  /\ spc = "get" /\ spc' = "put"
  /\ UNCHANGED <<stored, draft, feasible, queries, ghosts>>

(* Save: a decision without a preferred node takes over the existing one's.*)
SaveGet ==
  /\ spc = "get" /\ spc' = "put"
  /\ \/ draft' = [draft EXCEPT !.preferred =
                    IF decision.preferred # None THEN decision.preferred ELSE @]
     \/ RedisFails /\ UNCHANGED draft
  /\ UNCHANGED <<stored, feasible, queries, ghosts>>

SavePut ==
  /\ spc = "put" /\ spc' = "wait"
  /\ decision' = draft \/ (RedisFails /\ UNCHANGED decision)
  /\ draft' = NoDecision
  /\ UNCHANGED <<pref, override, counter, feasible, queries, ghosts>>

ScorerStep == ComputeForService \/ ReadPreference \/ SaveGet \/ SavePut

--------------------------------------------------------------------------------
(* A request ends with what it answers, and forgets the rest.              *)
Reply(q, node, via) ==
  /\ qpc' = [qpc EXCEPT ![q] = "done"]
  /\ answer' = [answer EXCEPT ![q] = [node |-> node, via |-> via]]
  /\ seen' = [seen EXCEPT ![q] = NoDecision]
  /\ cand' = [cand EXCEPT ![q] = {}]
  /\ kind' = [kind EXCEPT ![q] = "none"]

QGoto(q, label) ==
  /\ qpc' = [qpc EXCEPT ![q] = label]
  /\ UNCHANGED <<kind, cand, seen, answer>>

(* /prioritize gives one node a score above the others, or none when the   *)
(* node is not a candidate; /optimal names any node.                       *)
Favour(q, n) == IF kind[q] = "optimal" \/ n \in cand[q] THEN n ELSE None

Ask(q) ==
  /\ qpc[q] = "idle"
  /\ qpc' = [qpc EXCEPT ![q] = "override"]
  /\ \/ /\ kind' = [kind EXCEPT ![q] = "prioritize"]
        /\ \E C \in CandidateSets : cand' = [cand EXCEPT ![q] = C]
     \/ /\ kind' = [kind EXCEPT ![q] = "optimal"]
        /\ UNCHANGED cand
  /\ UNCHANGED <<stored, scorer, seen, answer, ghosts>>

(* The override is read and stays.                                         *)
FaultyConsumeNodeOverride(q) ==
  /\ qpc[q] = "override"
  /\ \/ override # None /\ Reply(q, Favour(q, override), "override")
     \/ (override = None \/ RedisFails) /\ QGoto(q, "pref")
  /\ UNCHANGED <<stored, scorer, ghosts>>

(* GET and DEL in one script; a failed call counts as no override, also    *)
(* when the script has run.                                                *)
ConsumeNodeOverride(q) ==
  /\ qpc[q] = "override"
  /\ \/ /\ override # None
        /\ override' = None
        /\ Reply(q, Favour(q, override), "override") \/ ("lost" \in Faults /\ QGoto(q, "pref"))
     \/ (override = None \/ RedisFails) /\ QGoto(q, "pref") /\ UNCHANGED override
  /\ UNCHANGED <<pref, decision, counter, scorer, ghosts>>

GetNodePreference(q) ==
  /\ qpc[q] = "pref"
  /\ \/ pref # None /\ Reply(q, Favour(q, pref), "preference")
     \/ (pref = None \/ RedisFails) /\ QGoto(q, "decision")
  /\ UNCHANGED <<stored, scorer, ghosts>>

(* The candidates sorted by their score in the decision: the index of one, *)
(* and the one at an index.                                                *)
Index(C, rank, n) == Cardinality({m \in C : rank[m] < rank[n]})
Ranked(C, rank, i) == CHOOSE n \in C : Index(C, rank, n) = i
Highest(q, d) == Ranked(cand[q], d.ranking, 0)

(* Without a decision /optimal finds nothing and /prioritize goes to the   *)
(* scheduler.  The decision's preferred node, if a candidate, is favoured; *)
(* other candidates share the pods by round robin.                         *)
GetDecision(q) ==
  /\ qpc[q] = "decision"
  /\ \/ (decision = NoDecision \/ RedisFails) /\ Reply(q, None, "none")
     \/ /\ decision # NoDecision
        /\ CASE kind[q] = "optimal" -> Reply(q, decision.best, "decision")
             [] kind[q] = "prioritize" /\ decision.preferred \in cand[q] ->
                  Reply(q, decision.preferred, "preferred")
             [] kind[q] = "prioritize" /\ decision.preferred \notin cand[q] ->
                  IF Cardinality(cand[q]) = 1
                    THEN Reply(q, Highest(q, decision), "scores")
                    ELSE /\ qpc' = [qpc EXCEPT ![q] = "roundRobin"]
                         /\ seen' = [seen EXCEPT ![q] = decision]
                         /\ UNCHANGED <<kind, cand, answer>>
  /\ UNCHANGED <<stored, scorer, ghosts>>

Pick(q) == Ranked(cand[q], seen[q].ranking, counter % Cardinality(cand[q]))

(* The counter is read, and raised by someone else.                        *)
FaultyRoundRobin(q) ==
  /\ qpc[q] = "roundRobin"
  /\ \E raised \in {0, 1} : counter' = counter + raised
  /\ picks' = [picks EXCEPT ![Pick(q)] = @ + 1]
  /\ Reply(q, Pick(q), "roundRobin")
  /\ UNCHANGED <<pref, decision, override, scorer, changes, overrides>>

(* INCR, and the node the counter points at.  A call that fails leaves the *)
(* node with the highest score.                                            *)
RoundRobin(q) ==
  /\ qpc[q] = "roundRobin"
  /\ \/ /\ counter' = counter + 1
        /\ \/ /\ Reply(q, Pick(q), "roundRobin")
              /\ picks' = [picks EXCEPT ![Pick(q)] = @ + 1]
           \/ /\ "lost" \in Faults
              /\ Reply(q, Highest(q, seen[q]), "scores")
              /\ UNCHANGED picks
     \/ /\ RedisFails
        /\ Reply(q, Highest(q, seen[q]), "scores")
        /\ UNCHANGED <<counter, picks>>
  /\ UNCHANGED <<pref, decision, override, scorer, changes, overrides>>

QueryStep(q) ==
  \/ ConsumeNodeOverride(q) \/ GetNodePreference(q) \/ GetDecision(q) \/ RoundRobin(q)

--------------------------------------------------------------------------------
SetPreference(n) ==
  /\ changes < MaxChanges /\ changes' = changes + 1
  /\ pref' = n
  /\ UNCHANGED <<decision, override, counter, scorer, queries, overrides, picks>>

DeletePreference ==
  /\ changes < MaxChanges /\ changes' = changes + 1
  /\ pref' = None
  /\ UNCHANGED <<decision, override, counter, scorer, queries, overrides, picks>>

(* By a change-node request.                                               *)
SetNodeOverride(n) ==
  /\ changes < MaxChanges /\ changes' = changes + 1
  /\ override' = n /\ overrides' = overrides + 1
  /\ UNCHANGED <<pref, decision, counter, scorer, queries, picks>>

(* TTLs: two minutes, one hour, half an hour; a preference has none.       *)
OverrideExpire ==
  /\ override # None /\ override' = None
  /\ UNCHANGED <<pref, decision, counter, scorer, queries, ghosts>>

DecisionExpire ==
  /\ decision # NoDecision /\ decision' = NoDecision
  /\ UNCHANGED <<pref, override, counter, scorer, queries, ghosts>>

CounterExpire ==
  /\ counter # 0 /\ counter' = 0
  /\ picks' = [n \in Nodes |-> 0]
  /\ UNCHANGED <<pref, decision, override, scorer, queries, changes, overrides>>

Crash ==
  /\ "crash" \in Faults
  /\ changes < MaxChanges /\ changes' = changes + 1
  /\ spc' = "wait" /\ draft' = NoDecision /\ feasible' = {}
  /\ qpc' = [q \in Queries |-> IF qpc[q] = "idle" THEN "idle" ELSE "done"]
  /\ kind' = [q \in Queries |-> "none"]
  /\ cand' = [q \in Queries |-> {}]
  /\ seen' = [q \in Queries |-> NoDecision]
  /\ UNCHANGED <<stored, answer, overrides, picks>>

Environment ==
  \/ \E n \in Nodes : SetPreference(n) \/ SetNodeOverride(n)
  \/ DeletePreference
  \/ OverrideExpire \/ DecisionExpire \/ CounterExpire
  \/ Crash

Next ==
  \/ ScorerStep
  \/ \E q \in Queries : Ask(q) \/ QueryStep(q)
  \/ Environment

Spec == Init /\ [][Next]_vars

(* The scorer's ticker ticks, and requests run.                            *)
FairSpec == Spec /\ WF_vars(ScorerStep) /\ \A q \in Queries : WF_vars(QueryStep(q))

--------------------------------------------------------------------------------
StoredTypeOK ==
  /\ pref \in Nodes \cup {None} /\ override \in Nodes \cup {None}
  /\ decision \in Decision \cup {NoDecision}
  /\ counter \in Nat

ScorerTypeOK ==
  /\ spc \in {"wait", "pref", "get", "put"}
  /\ draft \in Decision \cup {NoDecision} /\ (spc = "wait" <=> draft = NoDecision)
  /\ feasible \subseteq Nodes

Vias == {"none", "override", "preference", "decision", "preferred", "scores", "roundRobin"}

QueriesTypeOK ==
  /\ qpc \in [Queries -> {"idle", "override", "pref", "decision", "roundRobin", "done"}]
  /\ kind \in [Queries -> {"none", "prioritize", "optimal"}]
  /\ cand \in [Queries -> CandidateSets \cup {{}}]
  /\ seen \in [Queries -> Decision \cup {NoDecision}]
  /\ answer \in [Queries -> [node : Nodes \cup {None}, via : Vias]]

(* What a request has at hand where the code relies on it: nodes to score, *)
(* and for round robin several of them and the decision it read.           *)
QueriesAtHand ==
  \A q \in Queries :
    /\ qpc[q] \in {"override", "pref", "decision"} =>
         kind[q] = "optimal" \/ (kind[q] = "prioritize" /\ cand[q] # {})
    /\ qpc[q] = "roundRobin" =>
         seen[q] # NoDecision /\ cand[q] # {} /\ Cardinality(cand[q]) # 1

GhostsTypeOK ==
  /\ changes \in 0..MaxChanges /\ overrides \in 0..changes
  /\ picks \in [Nodes -> Nat]

(* Types, and what scorer and requests have at hand.                       *)
TypeOK == StoredTypeOK /\ ScorerTypeOK /\ QueriesTypeOK /\ QueriesAtHand /\ GhostsTypeOK

(* An override steers at most one answer, whoever asks at the same time:   *)
(* reading it takes it away.                                               *)
OverrideUsedOnce ==
  Cardinality({q \in Queries : answer[q].via = "override"}) <= overrides

(* A save that replaces a decision keeps its preferred node, or puts one   *)
(* in its place: the scorer never undoes what the user asked for.          *)
SaveKeepsPreferred ==
  [][decision.preferred # None /\ decision' # NoDecision
       => decision'.preferred # None]_vars

(* A preference that stays reaches the decision again and again, and an    *)
(* earlier one is gone for good, provided the service has feasible nodes   *)
(* from time to time.                                                      *)
PreferenceReachesDecision ==
  \A n \in Nodes :
    []<>(spc = "pref") /\ <>[](pref = n)
      => []<>(decision.preferred = n) /\ <>[](decision.preferred \in {n, None})

(* While the ranking and the candidates stay the same, round robin gives   *)
(* every candidate its turn: requests that run at the same time never      *)
(* share an index.                                                         *)
SpreadEvenly ==
  \A C \in CandidateSets : Cardinality(C) > 1 =>
    \A m, n \in C : picks[m] <= picks[n] + 1

(* A preference that is deleted does not steer the pods forever.           *)
RemovalTakesEffect == <>[](pref = None) => []<>(decision.preferred = None)
================================================================================
