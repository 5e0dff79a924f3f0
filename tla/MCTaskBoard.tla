----------------------------- MODULE MCTaskBoard -----------------------------
(* Instances of TaskBoard for TLC. *)
EXTENDS TaskBoard, TLC

CONSTANTS t1, t2, t3, s1, r1, r2

\* Two tasks of a checklist, the second depending on the first.
TwoSeeded == {t1, t2}
OneStep == (t1 :> s1) @@ (t2 :> s1)
Chain == (t1 :> {}) @@ (t2 :> {t1})

NewTask(s, B, K, l) == [status |-> s, blocked_by |-> B, blocks |-> K, process_step_id |-> l]

Capitals(t) == <<t, "capitals">>

\* Lists of at most one entry, one of them respelt.
OneEntry == {{}, {Id(t1)}, {Id(t2)}, {Id(t3)}, {Capitals(t1)}}

\* Creates that wait or hold back, patches that rewrite one list, complete or reopen,
\* and one that drops the blockers it would complete over.
ListPosts == {NewTask("todo", {Id(t2)}, {}, NoStep), NewTask("done", {}, {Capitals(t2)}, NoStep)}
ListPatches == {"blocked_by" :> B : B \in OneEntry} \cup {"blocks" :> {Id(t1)}}
                 \cup {"status" :> "done"}

\* Statuses in either spelling, moves between steps, and a new blocker.
StatusPosts == {NewTask("done", {Id(t1)}, {}, s1)}
StatusPatches == {"status" :> s : s \in {"todo", "in_progress", "done", "Done"}}
                   \cup {"process_step_id" :> NoStep, "blocked_by" :> {Id(t2)},
                         ("status" :> "done") @@ ("process_step_id" :> s1)}

TodoDone == {"todo", "done"}
MixedCase == {"todo", "in_progress", "done", "Done"}

CallSymmetry == Permutations(Call)
=============================================================================
