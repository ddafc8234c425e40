---------------------------- MODULE MCTaskGroup ----------------------------
(***************************************************************************)
(* Instances of TaskGroup for TLC.  The first group is any of a family of  *)
(* dependency graphs; the second is one of a few requests that meet it, or *)
(* its task ids, from the side.                                            *)
(***************************************************************************)
EXTENDS TaskGroup

CONSTANTS a, b, c, d, g1, g2

\* deps: a function from some of the task ids, the others depend on nothing.
Ask(tasks, deps, blank, continueOnError) ==
  [tasks |-> tasks,
   deps |-> [t \in TaskId |-> IF t \in DOMAIN deps THEN deps[t] ELSE {}],
   blank |-> blank, continueOnError |-> continueOnError]

\* All graphs on three tasks, cycles and loops included, and some that leave the group.
Graphs3 ==
  {Ask({a, b, c}, f, {}, FALSE) : f \in [{a, b, c} -> SUBSET {a, b, c}]}
    \cup {Ask({a, b}, [t \in {b} |-> ds], {}, FALSE) : ds \in {{c}, {a, c}}}

\* Two tasks, then one: every choice of blank instructions, with and without
\* continueOnError.
Join(x, y, z) ==
  {Ask({x, y, z}, [t \in {z} |-> {x, y}], blank, on) :
     blank \in SUBSET {x, y, z}, on \in BOOLEAN}

\* One after the other, the last on both of the others.
Chain(x, y, z) ==
  {Ask({x, y, z}, [t \in {y, z} |-> IF t = y THEN {x} ELSE {x, y}], blank, on) :
     blank \in {{}, {x}, {y}}, on \in BOOLEAN}

Single(x) == {Ask({x}, [t \in {} |-> {}], {}, on) : on \in BOOLEAN}

Mixed == Join(a, b, c) \cup Chain(a, b, c)

OfferMixed == [g \in Group |-> IF g = g1 THEN Mixed \cup Graphs3 ELSE Single(d) \cup Single(a)]
OfferSmall  == [g \in Group |-> IF g = g1 THEN Join(a, b, c) ELSE Single(a)]

\* The second group and restarts are for the joins and chains: any other graph is by
\* itself in one process.
MayAsk(g) ==
  CASE failures > 0 -> {}
    [] g = g1 /\ restarts = 0 /\ request[g2] = NoRequest -> Offered[g]
    [] g = g1 /\ (restarts > 0 \/ request[g2] # NoRequest) -> Mixed
    [] OTHER -> IF request[g1] \in Mixed \cup {NoRequest} THEN Offered[g] ELSE {}

\* Statements fail for one group, a join or a chain, that is by itself.
MayFail ==
  failures' > failures =>
    /\ \E g \in Group : request'[g] = NoRequest
    /\ request'[g1] \in Mixed \cup {NoRequest}

MixedNext ==
  /\ \/ \E g \in Group :
          \/ \E r \in MayAsk(g) : Execute(g, r)
          \/ \E t \in TaskId : TaskEnd(g, t)
          \/ StartStage(g) \/ FailGroup(g) \/ CompleteGroup(g)
          \/ Cancel(g)
     \/ Cleanup
     \/ request[g1] \in Mixed \cup {NoRequest} /\ Restart
  /\ MayFail

MixedSpec == Init /\ [][MixedNext]_vars /\ Fairness
=============================================================================
