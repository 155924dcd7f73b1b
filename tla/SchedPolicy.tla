---------------------------- MODULE SchedPolicy ----------------------------
(***************************************************************************)
(* The scheduling policy of v4_task_select_next (src/src/scheduler.cpp) as *)
(* a relation between the task table and the task to run next.  SelectNext *)
(* models the loop that computes it; Scheduler uses the relation.          *)
(***************************************************************************)
EXTENDS Naturals

CONSTANT MaxTasks       \* V4_MAX_TASKS

ASSUME MaxTasksAssumption == MaxTasks \in Nat \ {0}

Tasks == 0..(MaxTasks - 1)
States == {"READY", "RUNNING", "BLOCKED", "DEAD"}

\* Bug: the deadline is not looked at.
AwakeAlways(st, wake, now) ==
    [t \in Tasks |-> IF st[t] = "BLOCKED" THEN "READY" ELSE st[t]]

\* Bug: the deadline itself is still asleep.
AwakeLate(st, wake, now) ==
    [t \in Tasks |->
        IF st[t] = "BLOCKED" /\ now > wake[t] THEN "READY" ELSE st[t]]

\* A blocked task whose deadline has passed becomes ready.  The comparison is
\* on the raw tick values: it does not allow for their wrapping around.
Awake(st, wake, now) ==
    [t \in Tasks |->
        IF st[t] = "BLOCKED" /\ now >= wake[t] THEN "READY" ELSE st[t]]

\* Bug: a task that is still asleep is not skipped.
CandidatesAsleep(st, prio) == {t \in Tasks : st[t] # "DEAD" /\ prio[t] > 0}

\* The tasks the scheduler would run.  The search starts from priority 0 and
\* takes only greater ones, so a task of priority 0 is never among them.
Candidates(st, prio) ==
    {t \in Tasks : st[t] \in {"READY", "RUNNING"} /\ prio[t] > 0}

\* Bug: any candidate will do.
AllCandidates(st, prio) == Candidates(st, prio)

TopCandidates(st, prio) ==
    {t \in Candidates(st, prio) :
        \A u \in Candidates(st, prio) : prio[u] <= prio[t]}

\* Bug: the lowest slot always comes first.
FixedTurn(t, cur) == t

\* Round robin: the tasks after the current one come first, the current one last.
Turn(t, cur) == IF t > cur THEN t ELSE t + MaxTasks

\* n is the task select_next returns.
IsNext(n, st, prio, cur) ==
    IF Candidates(st, prio) = {}
    THEN n = cur
    ELSE /\ n \in TopCandidates(st, prio)
         /\ \A m \in TopCandidates(st, prio) : Turn(n, cur) <= Turn(m, cur)
=============================================================================
