------------------------------- MODULE JobLog -------------------------------
(***************************************************************************)
(* A long step and the page that follows it: JobSlot and Job               *)
(* (stacks/job.rs), and the poll of StackProgress.svelte.                  *)
(*                                                                         *)
(* push numbers a line before it takes the lock that keeps the lines, and  *)
(* view reads the state, then the lines, then the number to ask from next: *)
(* the steps here are cut where the other side may run.  Handing out the   *)
(* slot's job and reading its state is one step, as is what view does      *)
(* under the lock: either order of the two sides' steps in between ends in *)
(* a state that some order of whole steps reaches too.                     *)
(*                                                                         *)
(* The names of the specification are the log's own, so that a module can  *)
(* extend this one beside others.                                          *)
(***************************************************************************)
EXTENDS Integers, Sequences, FiniteSets, Functions

CONSTANTS
    MaxJobs,      \* bound: jobs the slot ever has
    MaxNumbered,  \* bound: lines of a job
    MaxLines      \* MAX_LINES

ASSUME JobLogAssumption == MaxJobs \in Nat \ {0} /\ MaxNumbered \in Nat /\ MaxLines \in Nat \ {0}

Jobs == 1 .. MaxJobs
None == -1

VARIABLES
    slot,     \* JobSlot: the job running, or the last
    running,  \* Job::state is Running
    next,     \* Job::next
    lines,    \* Job::lines, by their numbers
    pushing,  \* the number a push has taken and not yet stored, or None
    viewing,  \* the job a request is reading, and the state it read
    since,    \* the page's job.next
    shown,    \* the lines that came to the page, with their jobs
    done,     \* the page was told that a job ended, and which
    skipped   \* history: lines numbered and not stored when a view said next

jobVars == <<slot, running, next, lines, pushing>>
pageVars == <<viewing, since, shown, done, skipped>>
jobLog == <<jobVars, pageVars>>

NoView == [job |-> None, running |-> FALSE]

JobLogTypeOK ==
    /\ slot \in Jobs
    /\ running \in [Jobs -> BOOLEAN]
    /\ next \in [Jobs -> 0 .. MaxNumbered]
    /\ lines \in [Jobs -> Seq(0 .. MaxNumbered)]
    /\ pushing \in [Jobs -> 0 .. MaxNumbered \cup {None}]
    /\ viewing \in [job : Jobs \cup {None}, running : BOOLEAN]
    /\ since \in 0 .. MaxNumbered
    /\ shown \in Seq(Jobs \X (0 .. MaxNumbered))
    /\ done \in Jobs \cup {None}

JobLogInit ==
    /\ slot = 1
    /\ running = [j \in Jobs |-> j = 1]
    /\ next = [j \in Jobs |-> 0]
    /\ lines = [j \in Jobs |-> <<>>]
    /\ pushing = [j \in Jobs |-> None]
    /\ viewing = NoView
    /\ since = 0
    /\ shown = <<>>
    /\ done = None
    /\ skipped = {}

-----------------------------------------------------------------------------
(***************************************************************************)
(* The job.                                                                *)
(***************************************************************************)

\* Faulty variant of Begin: whatever is in the slot gives way.
BeginOver ==
    /\ slot < MaxJobs
    /\ slot' = slot + 1
    /\ running' = [running EXCEPT ![slot + 1] = TRUE]
    /\ UNCHANGED <<next, lines, pushing, pageVars>>

\* JobSlot::begin, from any page.
Begin ==
    /\ slot < MaxJobs /\ ~running[slot]
    /\ slot' = slot + 1
    /\ running' = [running EXCEPT ![slot + 1] = TRUE]
    /\ UNCHANGED <<next, lines, pushing, pageVars>>

\* push: fetch_add ...
Number(j) ==
    /\ running[j] /\ pushing[j] = None
    /\ next[j] < MaxNumbered
    /\ pushing' = [pushing EXCEPT ![j] = next[j]]
    /\ next' = [next EXCEPT ![j] = @ + 1]
    /\ UNCHANGED <<slot, running, lines, pageVars>>

\* ... and then, under the lock, the oldest line out and this one in.
Store(j) ==
    /\ pushing[j] # None
    /\ lines' = [lines EXCEPT ![j] =
            Append(IF Len(@) >= MaxLines THEN Tail(@) ELSE @, pushing[j])]
    /\ pushing' = [pushing EXCEPT ![j] = None]
    /\ UNCHANGED <<slot, running, next, pageVars>>

\* The steps are through, or one failed, or they were cancelled: finish, by
\* the task that pushed.
Finish(j) ==
    /\ running[j] /\ pushing[j] = None
    /\ running' = [running EXCEPT ![j] = FALSE]
    /\ UNCHANGED <<slot, next, lines, pushing, pageVars>>

(***************************************************************************)
(* The page.                                                               *)
(***************************************************************************)

\* Faulty variant of ViewState: a job that has ended is not there to read.
ViewStateRunning ==
    /\ done = None /\ viewing = NoView
    /\ running[slot]
    /\ viewing' = [job |-> slot, running |-> running[slot]]
    /\ UNCHANGED <<jobVars, since, shown, done, skipped>>

\* The request finds the slot's job; view reads its state first.
ViewState ==
    /\ done = None /\ viewing = NoView
    /\ viewing' = [job |-> slot, running |-> running[slot]]
    /\ UNCHANGED <<jobVars, since, shown, done, skipped>>

\* Faulty variant of ViewNext: the number of lines kept.
ViewCount(j) == Len(lines[j])

\* JobView::next
ViewNext(j) == next[j]

\* The lines view filters out of the log, in their order: the ith is the one
\* with i of them up to it.
Since(log, from) ==
    LET asked == {p \in DOMAIN log : log[p] >= from}
    IN  [i \in 1 .. Cardinality(asked) |->
            log[CHOOSE p \in asked : Cardinality({q \in asked : q <= p}) = i]]

\* Faulty variant of ViewLines: the end comes before the lines it is read with.
ViewEndFirst ==
    /\ viewing.job # None
    /\ LET j == viewing.job
           new == IF viewing.running THEN Since(lines[j], since) ELSE <<>>
       IN  /\ shown' = shown \o [i \in DOMAIN new |-> <<j, new[i]>>]
           /\ since' = ViewNext(j)
           /\ skipped' = IF pushing[j] = None THEN skipped ELSE skipped \cup {<<j, pushing[j]>>}
           /\ done' = IF viewing.running THEN None ELSE j
    /\ viewing' = NoView
    /\ UNCHANGED jobVars

\* The rest of view, under the lock, and the poll with its answer.
ViewLines ==
    /\ viewing.job # None
    /\ LET j == viewing.job
           new == Since(lines[j], since)
       IN  /\ shown' = shown \o [i \in DOMAIN new |-> <<j, new[i]>>]
           /\ since' = ViewNext(j)
           /\ skipped' = IF pushing[j] = None THEN skipped ELSE skipped \cup {<<j, pushing[j]>>}
           /\ done' = IF viewing.running THEN None ELSE j
    /\ viewing' = NoView
    /\ UNCHANGED jobVars

\* A blip: the next read asks from the same line.
LoseView ==
    /\ viewing.job # None
    /\ viewing' = NoView
    /\ UNCHANGED <<jobVars, since, shown, done, skipped>>

-----------------------------------------------------------------------------
Step(j) == Number(j) \/ Store(j) \/ Finish(j)

JobLogNext ==
    \/ Begin
    \/ \E j \in Jobs : Step(j)
    \/ ViewState
    \/ ViewLines
    \/ LoseView

\* Every job ends in time, its steps bounded by STEP_TIMEOUT, and the page
\* asks every second; blips end.
JobLogFairness ==
    /\ \A j \in Jobs : WF_jobLog(Store(j)) /\ WF_jobLog(Finish(j))
    /\ WF_jobLog(ViewState)
    /\ SF_jobLog(ViewLines)

JobLogSpec == JobLogInit /\ [][JobLogNext]_jobLog
FairJobLog == JobLogSpec /\ JobLogFairness

-----------------------------------------------------------------------------
(***************************************************************************)
(* Properties.                                                             *)
(***************************************************************************)

\* The slot runs one job at a time: no job's commands run beside another's.
OneAtATime == \A j, k \in Jobs : running[j] /\ running[k] => j = k

\* The lines come to the page in order and none of them twice, whatever was
\* trimmed, lost or asked for again.
ShownInOrder ==
    \A i, k \in DOMAIN shown :
        i < k /\ shown[i][1] = shown[k][1] => shown[i][2] < shown[k][2]

\* A page that stops has the end of the log: of the job it stops at, from the
\* oldest line kept on, only lines that an earlier view stepped over are
\* missing, and lines from before it came to this job.
EndIsShown ==
    done # None =>
        \A n \in Range(lines[done]) :
            \/ <<done, n>> \in Range(shown)
            \/ <<done, n>> \in skipped
            \/ \E k \in Jobs : k < done /\ n < next[k]

\* The page learns of an end, if only of the next job's.
PageStops == <>(done # None)

\* "Every output line kept for the panel to read as it comes (by sequence
\* number)": a page that followed one job to its end was given its lines.
EveryLineIsRead ==
    done # None => \A n \in Range(lines[done]) : <<done, n>> \in Range(shown)

\* "The job read every second from the last line seen": a page follows the
\* job it was opened for.
PageFollowsItsJob ==
    \A i \in DOMAIN shown : shown[i][1] = shown[1][1]
=============================================================================
