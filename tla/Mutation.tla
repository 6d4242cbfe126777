------------------------------ MODULE Mutation ------------------------------
(***************************************************************************)
(* The mutation runner of .github/scripts/mutation.go: runMutants and the  *)
(* exit status run makes of its result.  Each worker owns a copy of the    *)
(* source, passes the baselines, then takes mutants from a closed channel, *)
(* applies each to its copy, tests it and restores the copy; the results   *)
(* come back in any order through a bounded channel.  One context is       *)
(* cancelled by a signal, by a failed baseline or by a failed worker.      *)
(*                                                                         *)
(* Truth[m] is what the test suites say of mutant m when it is the only    *)
(* change: "KILLED", "LIVED", "INVALID" (it does not build) or "HANGS"     *)
(* (only the deadline ends them).  A test may also run out of time, or     *)
(* find no room for its files, whatever it tests.                          *)
(***************************************************************************)
EXTENDS Naturals, Sequences

CONSTANTS NumWorkers,   \* --workers, at most one per mutant
          NumMutants,   \* mutants, in canonical order
          Truths,       \* the campaigns: functions from mutants to verdicts
          Suites,       \* the distinct lists of test commands
          SuiteOf       \* the suite that decides each mutant

Workers == 1..NumWorkers
Mutants == 1..NumMutants
Verdicts == {"KILLED", "LIVED", "INVALID", "HANGS"}
Statuses == {"KILLED", "LIVED", "INVALID", "TIMED OUT"}
Errors == {"failed", "cancelled"}       \* an error of its own, or the context's

ASSUME CampaignAssumption == /\ NumWorkers \in Nat \ {0}
                             /\ NumMutants \in Nat
                             /\ NumWorkers <= NumMutants
                             /\ Truths \subseteq [Mutants -> Verdicts]
                             /\ SuiteOf \in [Mutants -> Suites]

VARIABLES truth,        \* this campaign
          incomplete,   \* the run is sampled, truncated or leaves a file out
          interrupted,  \* a signal cancelled the parent context
          ctxDone,      \* the workers' context is done
          pc,           \* what each worker does
          calibrated,   \* suites a worker has a timeout for
          baseErr,      \* w.err
          tree,         \* mutants applied in the worker's copy
          job,          \* the mutant a worker is at
          out,          \* what its test, then testMutant, returned
          jobs,         \* the next mutant in the closed channel of jobs
          completed,    \* the channel of results
          main,         \* "setup", "ready", "collect" or "done"
          statuses,     \* the result of each mutant, "none" until known
          rows,         \* rows printed
          failure,      \* the first error received, or "none"
          exit          \* exit status of the command, 4 until then

vars == <<truth, incomplete, interrupted, ctxDone, pc, calibrated, baseErr, tree, job, out,
          jobs, completed, main, statuses, rows, failure, exit>>
campaign == <<truth, incomplete, interrupted>>
collector == <<main, statuses, rows, failure, exit>>

TypeOK == /\ truth \in Truths
          /\ incomplete \in BOOLEAN
          /\ interrupted \in BOOLEAN
          /\ ctxDone \in BOOLEAN
          /\ pc \in [Workers -> {"baseline", "ready", "take", "apply", "test", "restore",
                                 "send", "cancel", "stopped"}]
          /\ calibrated \in [Workers -> SUBSET Suites]
          /\ baseErr \in [Workers -> Errors \cup {"none"}]
          /\ tree \in [Workers -> SUBSET Mutants]
          /\ job \in [Workers -> Mutants \cup {0}]
          /\ out \in [Workers -> Statuses \cup Errors \cup {"none"}]
          /\ jobs \in 1..(NumMutants + 1)
          /\ completed \in Seq([index : Mutants, out : Statuses \cup Errors])
          /\ Len(completed) <= NumWorkers
          /\ main \in {"setup", "ready", "collect", "done"}
          /\ statuses \in [Mutants -> Statuses \cup {"none"}]
          /\ rows \in 0..NumMutants
          /\ failure \in Errors \cup {"none"}
          /\ exit \in 0..4

Init == /\ truth \in Truths
        /\ incomplete \in BOOLEAN
        /\ interrupted = FALSE
        /\ ctxDone = FALSE
        /\ pc = [w \in Workers |-> "stopped"]
        /\ calibrated = [w \in Workers |-> {}]
        /\ baseErr = [w \in Workers |-> "none"]
        /\ tree = [w \in Workers |-> {}]
        /\ job = [w \in Workers |-> 0]
        /\ out = [w \in Workers |-> "none"]
        /\ jobs = 1
        /\ completed = <<>>
        /\ main = "setup"
        /\ statuses = [m \in Mutants |-> "none"]
        /\ rows = 0
        /\ failure = "none"
        /\ exit = 4

Goto(w, there) == pc' = [pc EXCEPT ![w] = there]
-----------------------------------------------------------------------------
\* A signal cancels the parent context, and the workers' with it.
Interrupt == /\ main # "done"
             /\ ~interrupted
             /\ interrupted' = TRUE
             /\ ctxDone' = TRUE
             /\ UNCHANGED <<truth, incomplete, pc, calibrated, baseErr, tree, job, out, jobs,
                            completed, collector>>

Exit(status) == main' = "done" /\ exit' = status

\* The source is copied for every worker, which may fail.
Setup == /\ main = "setup"
         /\ \/ Exit(2) /\ UNCHANGED pc
            \/ /\ main' = "ready"
               /\ pc' = [w \in Workers |-> "baseline"]
               /\ UNCHANGED exit
         /\ UNCHANGED <<campaign, ctxDone, calibrated, baseErr, tree, job, out, jobs,
                        completed, statuses, rows, failure>>

\* One baseline suite passes: the worker takes a timeout from its duration.
BaselinePasses(w) ==
  /\ pc[w] = "baseline"
  /\ ~ctxDone
  /\ \E s \in Suites \ calibrated[w] :
       calibrated' = [calibrated EXCEPT ![w] = @ \cup {s}]
  /\ UNCHANGED <<campaign, ctxDone, pc, baseErr, tree, job, out, jobs, completed, collector>>

Calibrated(w) ==
  /\ pc[w] = "baseline"
  /\ calibrated[w] = Suites
  /\ Goto(w, "ready")
  /\ UNCHANGED <<campaign, ctxDone, calibrated, baseErr, tree, job, out, jobs, completed,
                 collector>>

\* One fails and cancels the context, or is cut short because that is done; one
\* that failed just before another's cancellation has its own error.
BaselineFails(w) ==
  /\ pc[w] = "baseline"
  /\ calibrated[w] # Suites
  /\ \E e \in IF ctxDone THEN Errors ELSE {"failed"} :
       baseErr' = [baseErr EXCEPT ![w] = e]
  /\ ctxDone' = TRUE
  /\ Goto(w, "ready")
  /\ UNCHANGED <<campaign, calibrated, tree, job, out, jobs, completed, collector>>

\* ready.Wait: every baseline has passed before any source is mutated.  The
\* error returned is the first in the order of the pool, not of time.
Ready == /\ main = "ready"
         /\ \A w \in Workers : pc[w] = "ready"
         /\ \/ /\ \E w \in Workers : /\ baseErr[w] # "none"
                                     /\ \A v \in 1..(w - 1) : baseErr[v] = "none"
                                     /\ failure' = baseErr[w]
               /\ Exit(2)
               /\ pc' = [w \in Workers |-> "stopped"]
            \/ /\ \A w \in Workers : baseErr[w] = "none"
               /\ main' = "collect"
               /\ pc' = [w \in Workers |-> "take"]
               /\ UNCHANGED <<exit, failure>>
         /\ UNCHANGED <<campaign, ctxDone, calibrated, baseErr, tree, job, out, jobs,
                        completed, statuses, rows>>
-----------------------------------------------------------------------------
\* Mutant: one job too many.
HasJob_Extra == jobs <= NumMutants + 1

HasJob == jobs <= NumMutants

\* Mutant: the channel of jobs is not closed, so a worker waits for more.
Take_Open(w) ==
  /\ pc[w] = "take"
  /\ HasJob
  /\ jobs' = jobs + 1
  /\ IF ctxDone THEN Goto(w, "stopped") /\ UNCHANGED job
     ELSE Goto(w, "apply") /\ job' = [job EXCEPT ![w] = jobs]
  /\ UNCHANGED <<campaign, ctxDone, calibrated, baseErr, tree, out, completed, collector>>

\* The next job, while there is one and the context is not done.
Take(w) == /\ pc[w] = "take"
           /\ \/ /\ HasJob
                 /\ jobs' = jobs + 1
                 /\ IF ctxDone THEN Goto(w, "stopped") /\ UNCHANGED job
                    ELSE Goto(w, "apply") /\ job' = [job EXCEPT ![w] = jobs]
              \/ /\ ~HasJob
                 /\ Goto(w, "stopped")
                 /\ UNCHANGED <<job, jobs>>
           /\ UNCHANGED <<campaign, ctxDone, calibrated, baseErr, tree, out, completed,
                          collector>>

\* Mutant: the workers share one copy of the source.
Copy_Shared(w) == 1

\* pool[i].work
Copy(w) == w

\* testMutant writes the mutated file; a read, the anchor check or the write
\* may fail, a write after it has changed the file.
Apply(w) == /\ pc[w] = "apply"
            /\ \/ /\ tree' = [tree EXCEPT ![Copy(w)] = @ \cup {job[w]}]
                  /\ Goto(w, "test")
                  /\ UNCHANGED out
               \/ /\ tree' \in {tree, [tree EXCEPT ![Copy(w)] = @ \cup {job[w]}]}
                  /\ out' = [out EXCEPT ![w] = "failed"]
                  /\ Goto(w, "send")
            /\ UNCHANGED <<campaign, ctxDone, calibrated, baseErr, job, jobs, completed,
                           collector>>

\* What the suites can say of a copy: of one mutant the truth, of any other
\* set of changes anything.
Says(applied) ==
  {s \in Statuses : \/ s \in {"INVALID", "TIMED OUT"}
                    \/ \A m \in Mutants : applied = {m} => s = truth[m]}

\* test: a context that is done by the end reads as a timeout.
Test(w) == /\ pc[w] = "test"
           /\ \E s \in IF ctxDone THEN {"TIMED OUT"} ELSE Says(tree[Copy(w)]) :
                out' = [out EXCEPT ![w] = s]
           /\ Goto(w, "restore")
           /\ UNCHANGED <<campaign, ctxDone, calibrated, baseErr, tree, job, jobs, completed,
                          collector>>

\* The original is written back; if that fails the worker stops.  The context
\* is looked at again, so the status of a test it cut short does not count.
Restore(w) == /\ pc[w] = "restore"
              /\ \/ /\ tree' = [tree EXCEPT ![Copy(w)] = @ \ {job[w]}]
                    /\ out' = [out EXCEPT ![w] = IF ctxDone THEN "cancelled" ELSE @]
                 \/ /\ UNCHANGED tree
                    /\ out' = [out EXCEPT ![w] = "failed"]
              /\ Goto(w, "send")
              /\ UNCHANGED <<campaign, ctxDone, calibrated, baseErr, job, jobs, completed,
                             collector>>

\* Mutant: an error cancels the other workers before it is sent.
Send_CancelFirst(w) ==
  /\ pc[w] = "send"
  /\ \/ /\ out[w] \in Errors /\ ~ctxDone
        /\ ctxDone' = TRUE
        /\ UNCHANGED <<completed, pc>>
     \/ /\ out[w] \in Errors => ctxDone
        /\ Len(completed) < NumWorkers
        /\ completed' = Append(completed, [index |-> job[w], out |-> out[w]])
        /\ Goto(w, IF out[w] \in Errors THEN "cancel" ELSE "take")
        /\ UNCHANGED ctxDone
  /\ UNCHANGED <<campaign, calibrated, baseErr, tree, job, out, jobs, collector>>

\* The result goes into the channel, when there is room.
Send(w) == /\ pc[w] = "send"
           /\ Len(completed) < NumWorkers
           /\ completed' = Append(completed, [index |-> job[w], out |-> out[w]])
           /\ Goto(w, IF out[w] \in Errors THEN "cancel" ELSE "take")
           /\ UNCHANGED <<campaign, ctxDone, calibrated, baseErr, tree, job, out, jobs,
                          collector>>

\* A worker that met an error cancels the others and ends.
Cancel(w) == /\ pc[w] = "cancel"
             /\ ctxDone' = TRUE
             /\ Goto(w, "stopped")
             /\ UNCHANGED <<campaign, calibrated, baseErr, tree, job, out, jobs, completed,
                            collector>>
-----------------------------------------------------------------------------
\* The rows that are due: canonical order, as far as results are known.
Printable(known) == {m \in rows..NumMutants :
                       /\ \A k \in (rows + 1)..m : known[k] # "none"
                       /\ m < NumMutants => known[m + 1] = "none"}

\* One result: the first error is kept, and rows that are due are printed.
Receive == /\ main = "collect"
           /\ completed # <<>>
           /\ LET r == Head(completed) IN
                /\ failure' = IF failure = "none" /\ r.out \in Errors THEN r.out ELSE failure
                /\ statuses' = [statuses EXCEPT ![r.index] =
                                  IF r.out \in Errors THEN "none" ELSE r.out]
           /\ rows' \in Printable(statuses')
           /\ completed' = Tail(completed)
           /\ UNCHANGED <<campaign, ctxDone, pc, calibrated, baseErr, tree, job, out, jobs,
                          main, exit>>

\* Mutant: the collector leaves at the first error.
Drained_OnFailure == \/ failure # "none"
                     \/ completed = <<>> /\ \A w \in Workers : pc[w] = "stopped"

\* completed is closed once running.Wait returns, and has been drained.
Drained == completed = <<>> /\ \A w \in Workers : pc[w] = "stopped"

\* Mutant: an interruption without a failed result is not an error.
RunError_FailureOnly == failure # "none"

\* runMutants returns an error; nothing else makes the result unusable.
RunError == failure # "none" \/ ctxDone

\* run: a survivor decides, then anything inconclusive.
Return == /\ main = "collect"
          /\ Drained
          /\ Exit(IF RunError THEN 2
                  ELSE IF \E m \in Mutants : statuses[m] = "LIVED" THEN 1
                  ELSE IF incomplete \/ \E m \in Mutants : statuses[m] # "KILLED" THEN 3
                  ELSE 0)
          /\ UNCHANGED <<campaign, ctxDone, pc, calibrated, baseErr, tree, job, out, jobs,
                         completed, statuses, rows, failure>>

Work(w) == \/ BaselinePasses(w) \/ Calibrated(w) \/ BaselineFails(w)
           \/ Take(w) \/ Apply(w) \/ Test(w) \/ Restore(w) \/ Send(w) \/ Cancel(w)
Collect == Setup \/ Ready \/ Receive \/ Return
Ended == main = "done" /\ UNCHANGED vars

Next == Collect \/ (\E w \in Workers : Work(w)) \/ Interrupt \/ Ended

Spec == Init /\ [][Next]_vars
\* Goroutines run, and the deadline of a test ends it.
FairSpec == Spec /\ WF_vars(Collect) /\ \A w \in 1..NumWorkers : WF_vars(Work(w))
-----------------------------------------------------------------------------
\* A verdict is what the suites say of that mutant alone, never of another
\* worker's mutant or of one that an earlier job left behind.
VerdictIsOwn == \A m \in Mutants : statuses[m] \in {"KILLED", "LIVED"} => statuses[m] = truth[m]

\* An error that only says the context was done is returned when a signal came.
\* Otherwise a worker's own error is: it is in the channel before the errors its
\* cancellation causes.  The baselines have no channel; there the first worker of
\* the pool answers, which may be one that another's failed baseline cancelled.
RootCause ==
  failure = "cancelled" => interrupted \/ \E w \in Workers : baseErr[w] = "failed"

\* No baseline runs while a source is mutated, so timeouts stay calibrated, and
\* the command answers only when its workers are done with their copies, which
\* are about to be removed.
StagesInOrder ==
  /\ (\E w \in Workers : tree[w] # {}) => \A w \in Workers : pc[w] # "baseline"
  /\ main = "done" => \A w \in Workers : pc[w] = "stopped"

\* Exit 0 and 1 are conclusive: all mutants killed in a complete run, or one
\* that survives its own suites; only a run that tested every mutant and printed
\* its row ends with anything but 2 (docs/project/parser-gap-workflow.md:269-271).
ExitIsConclusive ==
  /\ exit = 0 => ~incomplete /\ \A m \in Mutants : truth[m] = "KILLED"
  /\ exit = 1 => \E m \in Mutants : truth[m] = "LIVED"
  /\ exit \in {0, 1, 3} => rows = NumMutants /\ \A m \in Mutants : statuses[m] # "none"

\* A campaign ends, also when it is interrupted or a worker fails.
CampaignEnds == <>(main = "done")
=============================================================================
