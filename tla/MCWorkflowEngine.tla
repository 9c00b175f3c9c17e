-------------------------- MODULE MCWorkflowEngine --------------------------
\* Small instances of WorkflowEngine for TLC.
EXTENDS WorkflowEngine, TLC

CONSTANTS a, b, c

\* A definition whose jobs S are independent roots, outside any matrix.
Plain(S) ==
    [jobs |-> S,
     needs |-> [j \in Jobs |-> {}],
     cond |-> [j \in Jobs |-> "none"],
     matrix |-> [j \in Jobs |-> Empty],
     parallel |-> [j \in Jobs |-> 0],
     continueOnError |-> {},
     failFast |-> {},
     group |-> Empty,
     cancelInProgress |-> FALSE]

InGroup(d, cip) == [d EXCEPT !.group = "g", !.cancelInProgress = cip]

\* b needs a, under the given if: condition of b.
Chain(cond) ==
    [Plain({a, b}) EXCEPT !.needs = [j \in Jobs |-> IF j = b THEN {a} ELSE {}],
                          !.cond = [j \in Jobs |-> IF j = b THEN cond ELSE "none"]]

\* a and b are one matrix with max-parallel m; c needs both and always runs.
Matrix(m, ff) ==
    [Plain({a, b, c}) EXCEPT
        !.needs = [j \in Jobs |-> IF j = c THEN {a, b} ELSE {}],
        !.cond = [j \in Jobs |-> IF j = c THEN "always" ELSE "none"],
        !.matrix = [j \in Jobs |-> IF j = c THEN Empty ELSE "m"],
        !.parallel = [j \in Jobs |-> IF j = c THEN 0 ELSE m],
        !.failFast = ff]

MatrixOnly == [Matrix(1, {}) EXCEPT !.jobs = {a, b}]

Cyclic == [Plain({a, b}) EXCEPT !.needs = [j \in Jobs |-> IF j = a THEN {b} ELSE {a}]]

JobsAB == {a, b}
JobsABC == {a, b, c}

\* One run with every shape of condition, matrix and dependency.
ShapeDefs ==
    {Matrix(1, {a, b}), Matrix(1, {}), Matrix(0, {a, b}), Cyclic}
    \cup {Chain(cond) : cond \in Conds}
    \cup {[Chain("none") EXCEPT !.continueOnError = {a}]}

\* Runs of one job that compete for one concurrency group.
GroupDefs == {InGroup(Plain({a}), cip) : cip \in BOOLEAN}
QueueDefs == {InGroup(Plain({a}), FALSE)}

\* Runs that end when every dispatched job is reported: some root is dispatched.
LiveDefs == {InGroup(Chain("failure"), FALSE), InGroup(MatrixOnly, TRUE)}

PlainDefs == {Plain({a})}

ThreadSymmetry == Permutations(Threads)
=============================================================================
