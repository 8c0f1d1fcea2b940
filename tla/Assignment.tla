----------------------------- MODULE Assignment -----------------------------
(***************************************************************************)
(* The two solvers that give every collector a mapper: Hungarian and       *)
(* JonkerVolgenant.  Both extend a matching by one task at a time, along a *)
(* path found by a search that settles the nearest node in each round.     *)
(* Costs are unsigned and wrap: potentials and prices go below zero.       *)
(***************************************************************************)
EXTENDS Integers, FiniteSets, Folds

CONSTANTS
    Size,           \* n, tasks and nodes
    Matrices,       \* the cost matrices
    CostMod         \* 2^64

Items == 1 .. Size
Unmatched == 0

ASSUME AssignmentAssumption ==
    /\ Size \in Nat \ {0} /\ CostMod \in Nat
    /\ Matrices \subseteq [Items -> [Items -> 0 .. CostMod \div 2 - 1]]

Wrap(x) == x % CostMod
Far == CostMod \div 2 - 1                   \* Bounded::MAX

VARIABLES
    solver,         \* which of the two
    cost,           \* the matrix
    task,           \* the task that is being placed
    searching,      \* its search has begun
    u, v,           \* potentials of tasks and nodes; prices of nodes
    node_for_task, task_for_node,
    slack,          \* slack, dist: how far each node is from the tasks reached
    slack_task,     \* slack_task, pred_task: the task it is reached from
    settled         \* visited_node, scanned

assignment_vars == <<solver, cost, task, searching, u, v, node_for_task, task_for_node, slack,
                     slack_task, settled>>

Least(S) == CHOOSE x \in S : \A y \in S : x <= y

\* mutant of Nearest: the first node that is not settled
NearestFirst(d, nodes) == Least(nodes)

\* find_min_slack_node, find_min_unscanned_node: the first of the least below MAX
Nearest(d, nodes) ==
    LET near == {k \in nodes : d[k] < Far}
    IN  Least({k \in near : \A l \in near : d[k] <= d[l]})

\* reset_matching, init_potentials and init_node_prices
AssignmentInit ==
    /\ solver \in {"Hungarian", "JonkerVolgenant"}
    /\ cost \in Matrices
    /\ task = 1 /\ searching = FALSE
    /\ u = [i \in Items |-> IF solver = "Hungarian" THEN Least({cost[i][k] : k \in Items}) ELSE 0]
    /\ v = [k \in Items |-> Least({Wrap(cost[i][k] - u[i]) : i \in Items})]
    /\ node_for_task = [i \in Items |-> Unmatched]
    /\ task_for_node = [k \in Items |-> Unmatched]
    /\ slack = [k \in Items |-> Far] /\ slack_task = [k \in Items |-> Unmatched] /\ settled = {}

ReducedCost(i, k, uu, vv) == Wrap(Wrap(cost[i][k] - uu[i]) - vv[k])

\* reset_augment_state and update_slack_from_task;
\* reset_search_state and init_distances_from_task
BeginSearch ==
    /\ task <= Size /\ ~searching
    /\ searching' = TRUE
    /\ settled' = {}
    /\ slack' = [k \in Items |-> ReducedCost(task, k, u, v)]
    /\ slack_task' = [k \in Items |-> task]
    /\ UNCHANGED <<solver, cost, task, u, v, node_for_task, task_for_node>>

\* augment_path, augment_from_sink: back from the free node to the new task, each
\* task on the way takes the node it was reached over and leaves its own
Flip(node, reached) ==
    LET path[h \in 0 .. Size] ==
            IF h = 0 THEN <<node, FALSE>>
            ELSE LET p == path[h - 1]
                 IN  IF p[2] \/ reached[p[1]] = task THEN <<p[1], TRUE>>
                     ELSE <<node_for_task[reached[p[1]]], FALSE>>
        onPath == {path[h][1] : h \in 0 .. Size}
    IN  [nodes |-> [i \in Items |-> IF \E k \in onPath : reached[k] = i
                                    THEN CHOOSE k \in onPath : reached[k] = i
                                    ELSE node_for_task[i]],
         tasks |-> [k \in Items |-> IF k \in onPath THEN reached[k] ELSE task_for_node[k]]]

\* a free node was settled: flip, and go on with the next task
Augment(node, reached) ==
    /\ node_for_task' = Flip(node, reached).nodes
    /\ task_for_node' = Flip(node, reached).tasks
    /\ task' = task + 1
    /\ searching' = FALSE

\* one round of the loop of Hungarian::solve
HungarianRound ==
    LET node  == Nearest(slack, Items \ settled)
        delta == slack[node]
        i2    == task_for_node[node]
        lower == [k \in Items |-> IF k \in settled THEN slack[k] ELSE Wrap(slack[k] - delta)]
    IN  /\ solver = "Hungarian" /\ searching
        /\ u' = [i \in Items |-> IF i = task \/ \E k \in settled : task_for_node[k] = i
                                 THEN Wrap(u[i] + delta) ELSE u[i]]
        /\ v' = [k \in Items |-> IF k \in settled THEN Wrap(v[k] - delta) ELSE v[k]]
        /\ settled' = settled \cup {node}
        /\ IF i2 = Unmatched
           THEN /\ Augment(node, slack_task)
                /\ slack' = lower
                /\ UNCHANGED slack_task
           ELSE LET nearer == {k \in Items : ReducedCost(i2, k, u', v') < lower[k]}
                IN  /\ slack' = [k \in Items |-> IF k \in nearer
                                    THEN ReducedCost(i2, k, u', v') ELSE lower[k]]
                    /\ slack_task' = [k \in Items |-> IF k \in nearer THEN i2 ELSE slack_task[k]]
                    /\ UNCHANGED <<task, searching, node_for_task, task_for_node>>
        /\ UNCHANGED <<solver, cost>>

\* one round of the loop of JonkerVolgenant::solve
JonkerVolgenantRound ==
    LET node == Nearest(slack, Items \ settled)
        base == slack[node]
        i2   == task_for_node[node]
    IN  /\ solver = "JonkerVolgenant" /\ searching
        /\ settled' = settled \cup {node}
        /\ IF i2 = Unmatched
           THEN /\ Augment(node, slack_task)
                /\ v' = [k \in Items |->
                            IF k \in settled' THEN Wrap(Wrap(v[k] + slack[k]) - base) ELSE v[k]]
                /\ UNCHANGED <<slack, slack_task>>
           ELSE LET far(k) == Wrap(base + ReducedCost(i2, k, u, v))
                    nearer == {k \in Items \ settled' : far(k) < slack[k]}
                IN  /\ slack' = [k \in Items |-> IF k \in nearer THEN far(k) ELSE slack[k]]
                    /\ slack_task' = [k \in Items |-> IF k \in nearer THEN i2 ELSE slack_task[k]]
                    /\ UNCHANGED <<v, task, searching, node_for_task, task_for_node>>
        /\ UNCHANGED <<solver, cost, u>>

AssignmentNext == BeginSearch \/ HungarianRound \/ JonkerVolgenantRound

AssignmentSpec == AssignmentInit /\ [][AssignmentNext]_assignment_vars
-----------------------------------------------------------------------------
Total(a) == MapThenFoldSet(+, 0, LAMBDA i : cost[i][a[i]], LAMBDA S : CHOOSE i \in S : TRUE, Items)

Permutation == {a \in [Items -> Items] : \A i, k \in Items : i # k => a[i] # a[k]}

Optimal == \A a \in Permutation : Total(node_for_task) <= Total(a)

\* Both solvers end, and give every task a node of its own; with Hungarian no other
\* way to do so is cheaper, although its potentials wrap below zero.
AssignmentOptimal ==
    /\ searching => Items \ settled # {}
    /\ task > Size => node_for_task \in Permutation
    /\ task > Size /\ solver = "Hungarian" => Optimal

\* Stated by the comments of both solvers and of the trait, and not true of
\* JonkerVolgenant: the total cost is minimal.
EverySolverMinimizes == task > Size => Optimal
=============================================================================
