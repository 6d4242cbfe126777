--------------------------- MODULE Mutation_proofs ---------------------------
(***************************************************************************)
(* The safety properties of Mutation for any number of workers, any        *)
(* campaign of mutants and any test suites.                                *)
(***************************************************************************)
EXTENDS Mutation, SequenceTheorems, TLAPS

\* Workers that hold a mutant.
Holding == {"apply", "test", "restore", "send"}

\* Where runMutants is says where its workers are.
StageInv == /\ main = "setup" => \A w \in Workers : pc[w] = "stopped"
            /\ main = "ready" => \A w \in Workers : pc[w] \in {"baseline", "ready"}
            /\ main = "collect" => \A w \in Workers : pc[w] \notin {"baseline", "ready"}
            /\ main = "done" => \A w \in Workers : pc[w] = "stopped"
            /\ main # "done" => exit = 4

\* Nothing is mutated or reported before every baseline has passed; a baseline
\* that failed, or a signal, is the only way the context is done by then.
BaselineInv == main \in {"setup", "ready"} =>
                 /\ jobs = 1
                 /\ completed = <<>>
                 /\ failure = "none"
                 /\ \A w \in Workers : tree[w] = {}
                 /\ \A w \in Workers : /\ pc[w] # "ready" => baseErr[w] = "none"
                                       /\ baseErr[w] # "none" => ctxDone
                 /\ ctxDone /\ ~interrupted => \E w \in Workers : baseErr[w] = "failed"

\* A copy holds its worker's mutant while it is tested and nothing when the
\* next one is taken; only a worker that met an error leaves it changed.
CopyInv == \A w \in Workers :
             /\ tree[w] \subseteq {job[w]}
             /\ pc[w] \in {"take", "apply"} => tree[w] = {}
             /\ pc[w] = "test" => tree[w] = {job[w]}
             /\ pc[w] = "send" /\ out[w] \notin Errors => tree[w] = {}
             /\ pc[w] \in Holding => job[w] \in Mutants
             /\ pc[w] = "restore" => out[w] \in Statuses
             /\ pc[w] = "send" => out[w] # "none"

\* What is said of mutant m is true of m.
Own(m, s) == s \in {"KILLED", "LIVED"} => s = truth[m]

VerdictInv == /\ \A w \in Workers : pc[w] \in {"restore", "send"} => Own(job[w], out[w])
              /\ \A i \in 1..Len(completed) : Own(completed[i].index, completed[i].out)
              /\ \A m \in Mutants : Own(m, statuses[m])

\* An error of a worker's own was received, or is on its way.
Failed == \/ failure = "failed"
          \/ \E i \in 1..Len(completed) : completed[i].out = "failed"

\* Without a signal an error comes before every cancellation it caused, but for
\* the baselines, whose errors wait for the answer side by side.
ErrorInv == ~interrupted =>
              /\ failure = "cancelled" =>
                   main = "done" /\ \E w \in Workers : baseErr[w] = "failed"
              /\ main = "collect" /\ ctxDone => Failed
              /\ \A w \in Workers : pc[w] = "cancel" => Failed
              /\ \A j \in 1..Len(completed) :
                   completed[j].out = "cancelled" =>
                     \/ failure = "failed"
                     \/ \E i \in 1..(j - 1) : completed[i].out = "failed"

\* Only a context that is done cuts a test short.
CancelInv == \A w \in Workers : pc[w] = "send" /\ out[w] = "cancelled" => ctxDone

\* The result of mutant m is known, in the channel, or with a worker.
Accounted(m) == \/ statuses[m] # "none"
                \/ \E i \in 1..Len(completed) : completed[i].index = m
                \/ \E w \in Workers : pc[w] \in Holding /\ job[w] = m

\* Without an error no mutant is lost, no worker leaves while there are jobs,
\* and the rows are those of the results known in canonical order.
ReportInv ==
  main \in {"setup", "ready", "collect"} /\ failure = "none" =>
    /\ ~ctxDone => \A m \in Mutants : m < jobs => Accounted(m)
    /\ main = "collect" /\ ~ctxDone =>
         \A w \in Workers : pc[w] = "stopped" => jobs > NumMutants
    /\ \A k \in 1..rows : statuses[k] # "none"
    /\ rows < NumMutants => statuses[rows + 1] = "none"

Inv == /\ TypeOK /\ StageInv /\ BaselineInv /\ CopyInv /\ VerdictInv
       /\ ErrorInv /\ CancelInv /\ ReportInv /\ ExitIsConclusive
-----------------------------------------------------------------------------
Results == [index : Mutants, out : Statuses \cup Errors]

\* The steps, one per action, as the proofs below split them.
LEMMA Steps ==
  ASSUME Next
  PROVE  \/ Interrupt \/ Setup \/ Ready \/ Receive \/ Return \/ Ended
         \/ \E w \in Workers :
              \/ BaselinePasses(w) \/ Calibrated(w) \/ BaselineFails(w)
              \/ Take(w) \/ Apply(w) \/ Test(w) \/ Restore(w) \/ Send(w) \/ Cancel(w)
BY Zenon DEF Next, Collect, Work

\* What Send adds to the channel.
LEMMA Sent ==
  ASSUME TypeOK, CopyInv, NEW w \in Workers, Send(w)
  PROVE  /\ [index |-> job[w], out |-> out[w]] \in Results
         /\ completed' \in Seq(Results)
         /\ Len(completed') = Len(completed) + 1
         /\ \A i \in 1..Len(completed) : completed'[i] = completed[i]
         /\ completed'[Len(completed')] = [index |-> job[w], out |-> out[w]]
<1>1. job[w] \in Mutants /\ out[w] \in Statuses \cup Errors
  BY DEF TypeOK, CopyInv, Send, Holding
<1>2. [index |-> job[w], out |-> out[w]] \in Results
  BY <1>1 DEF Results
<1>3. completed \in Seq(Results) /\ completed' = Append(completed, [index |-> job[w], out |-> out[w]])
  BY DEF TypeOK, Results, Send
<1>4. QED
  BY <1>2, <1>3, AppendProperties, LenProperties

\* What Receive takes from it.
LEMMA Received ==
  ASSUME TypeOK, Receive
  PROVE  /\ Len(completed) \in Nat \ {0}
         /\ completed[1] = Head(completed)
         /\ Head(completed) \in Results
         /\ completed' \in Seq(Results)
         /\ Len(completed') = Len(completed) - 1
         /\ \A i \in 1..Len(completed') : completed'[i] = completed[i + 1]
<1>1. completed \in Seq(Results) /\ completed # <<>> /\ completed' = Tail(completed)
  BY DEF TypeOK, Results, Receive
<1>2. QED
  BY <1>1, HeadTailProperties, EmptySeq, LenProperties, ElementOfSeq

LEMMA InitTypes == Init => TypeOK
<1>1. <<>> \in Seq(Results) /\ Len(<<>>) = 0
  BY EmptySeq
<1>2. Init => jobs \in 1..(NumMutants + 1) /\ rows \in 0..NumMutants
  BY CampaignAssumption DEF Init
<1>3. Init => /\ calibrated \in [Workers -> SUBSET Suites]
              /\ tree \in [Workers -> SUBSET Mutants]
  BY DEF Init
<1>4. Init => completed \in Seq(Results) /\ Len(completed) <= NumWorkers
  BY <1>1, CampaignAssumption DEF Init
<1>5. Init => /\ pc \in [Workers -> {"baseline", "ready", "take", "apply", "test", "restore",
                                    "send", "cancel", "stopped"}]
              /\ baseErr \in [Workers -> Errors \cup {"none"}]
              /\ job \in [Workers -> Mutants \cup {0}]
              /\ out \in [Workers -> Statuses \cup Errors \cup {"none"}]
              /\ statuses \in [Mutants -> Statuses \cup {"none"}]
  BY DEF Init
<1>6. Init => /\ truth \in Truths /\ incomplete \in BOOLEAN
              /\ interrupted \in BOOLEAN /\ ctxDone \in BOOLEAN
  BY Zenon DEF Init
<1>7. Init => /\ main \in {"setup", "ready", "collect", "done"}
              /\ failure \in Errors \cup {"none"}
              /\ exit \in 0..4
  BY DEF Init
<1>8. QED
  BY <1>2, <1>3, <1>4, <1>5, <1>6, <1>7 DEF TypeOK, Results

LEMMA TypeStep == TypeOK /\ CopyInv /\ [Next]_vars => TypeOK'
<1> SUFFICES ASSUME TypeOK, CopyInv, [Next]_vars PROVE TypeOK'
  OBVIOUS
<1> USE CampaignAssumption DEF TypeOK, campaign, collector, Goto, Exit
<1>1. CASE UNCHANGED vars
  BY <1>1 DEF vars
<1>2. CASE Interrupt
  BY <1>2 DEF Interrupt
<1>3. CASE Setup
  BY <1>3 DEF Setup
<1>4. CASE Ready
  BY <1>4 DEF Ready
<1>5. CASE Receive
  <2>1. /\ Head(completed).index \in Mutants
        /\ Head(completed).out \in Statuses \cup Errors
        /\ completed' \in Seq(Results)
        /\ Len(completed') <= NumWorkers
    BY <1>5, Received DEF Results, Workers
  <2>2. failure' \in Errors \cup {"none"}
    BY <1>5, <2>1 DEF Receive
  <2>3. statuses' \in [Mutants -> Statuses \cup {"none"}]
    BY <1>5, <2>1 DEF Receive
  <2>4. rows' \in 0..NumMutants
    BY <1>5 DEF Receive, Printable
  <2>5. QED
    BY <1>5, <2>1, <2>2, <2>3, <2>4 DEF Receive, Results
<1>6. CASE Return
  BY <1>6 DEF Return
<1>7. CASE Ended
  BY <1>7 DEF Ended, vars
<1>8. ASSUME NEW w \in Workers, BaselinePasses(w) \/ Calibrated(w) \/ BaselineFails(w)
      PROVE  TypeOK'
  <2>1. CASE BaselinePasses(w)
    BY <2>1 DEF BaselinePasses
  <2>2. CASE Calibrated(w)
    BY <2>2 DEF Calibrated
  <2>3. CASE BaselineFails(w)
    BY <2>3 DEF BaselineFails, Errors
  <2>4. QED
    BY <1>8, <2>1, <2>2, <2>3
<1>9. ASSUME NEW w \in Workers, Take(w) PROVE TypeOK'
  <2>1. jobs' \in 1..(NumMutants + 1)
    BY <1>9 DEF Take, HasJob
  <2>2. job' \in [Workers -> Mutants \cup {0}]
    BY <1>9 DEF Take, HasJob, Mutants
  <2>3. pc' \in [Workers -> {"baseline", "ready", "take", "apply", "test", "restore",
                             "send", "cancel", "stopped"}]
    BY <1>9 DEF Take
  <2>4. QED
    BY <1>9, <2>1, <2>2, <2>3 DEF Take
<1>10. ASSUME NEW w \in Workers, Apply(w) PROVE TypeOK'
  <2>1. job[w] \in Mutants
    BY <1>10 DEF Apply, CopyInv, Holding
  <2>2. QED
    BY <1>10, <2>1 DEF Apply, Copy, Errors
<1>11. ASSUME NEW w \in Workers, Test(w) \/ Restore(w) \/ Cancel(w) PROVE TypeOK'
  <2>1. CASE Test(w)
    BY <2>1 DEF Test, Says, Statuses
  <2>2. CASE Restore(w)
    <3>1. tree' \in [Workers -> SUBSET Mutants]
      <4>1. tree[w] \ {job[w]} \in SUBSET Mutants
        OBVIOUS
      <4>2. CASE UNCHANGED tree
        BY <4>2
      <4>3. CASE tree' = [tree EXCEPT ![w] = tree[w] \ {job[w]}]
        BY <4>1, <4>3
      <4>4. QED
        BY <2>2, <4>2, <4>3 DEF Restore, Copy
    <3>2. out' \in [Workers -> Statuses \cup Errors \cup {"none"}]
      BY <2>2 DEF Restore, Errors
    <3>3. QED
      BY <2>2, <3>1, <3>2 DEF Restore
  <2>3. CASE Cancel(w)
    BY <2>3 DEF Cancel
  <2>4. QED
    BY <1>11, <2>1, <2>2, <2>3
<1>12. ASSUME NEW w \in Workers, Send(w) PROVE TypeOK'
  <2>1. completed' \in Seq(Results) /\ Len(completed') = Len(completed) + 1
    BY <1>12, Sent
  <2>2. Len(completed') <= NumWorkers
    <3>1. Len(completed) \in Nat /\ Len(completed) < NumWorkers
      BY <1>12, LenProperties DEF Send
    <3>2. QED
      BY <2>1, <3>1
  <2>3. pc' \in [Workers -> {"baseline", "ready", "take", "apply", "test", "restore",
                             "send", "cancel", "stopped"}]
    BY <1>12 DEF Send
  <2>4. QED
    BY <1>12, <2>1, <2>2, <2>3 DEF Send, Results
<1>13. QED
  BY <1>1, <1>2, <1>3, <1>4, <1>5, <1>6, <1>7, <1>8, <1>9, <1>10, <1>11, <1>12, Steps
-----------------------------------------------------------------------------
\* A worker at work means that runMutants waits for it.
LEMMA Working ==
  ASSUME TypeOK, StageInv, NEW w \in Workers, pc[w] # "stopped"
  PROVE  /\ main \in {"ready", "collect"}
         /\ pc[w] \in {"baseline", "ready"} <=> main = "ready"
BY DEF TypeOK, StageInv

LEMMA StageStep == TypeOK /\ StageInv /\ [Next]_vars => StageInv'
<1> SUFFICES ASSUME TypeOK, StageInv, [Next]_vars PROVE StageInv'
  OBVIOUS
<1> USE DEF TypeOK, StageInv, campaign, collector, Goto, Exit
<1>1. CASE UNCHANGED vars
  BY <1>1 DEF vars
<1>2. CASE Interrupt \/ Ended
  BY <1>2 DEF Interrupt, Ended, vars
<1>3. CASE Setup
  BY <1>3 DEF Setup
<1>4. CASE Ready
  BY <1>4 DEF Ready
<1>5. CASE Receive
  BY <1>5 DEF Receive
<1>6. CASE Return
  BY <1>6 DEF Return, Drained
<1>7. ASSUME NEW w \in Workers, BaselinePasses(w) \/ Calibrated(w) \/ BaselineFails(w)
      PROVE  StageInv'
  BY <1>7 DEF BaselinePasses, Calibrated, BaselineFails
<1>8. ASSUME NEW w \in Workers,
             Take(w) \/ Apply(w) \/ Test(w) \/ Restore(w) \/ Send(w) \/ Cancel(w)
      PROVE  StageInv'
  <2>1. main = "collect" /\ UNCHANGED collector
    BY <1>8 DEF Take, Apply, Test, Restore, Send, Cancel
  <2>2. /\ pc'[w] \notin {"baseline", "ready"}
        /\ \A v \in Workers \ {w} : pc'[v] = pc[v]
    BY <1>8 DEF Take, Apply, Test, Restore, Send, Cancel
  <2>3. QED
    BY <2>1, <2>2
<1>9. QED
  BY <1>1, <1>2, <1>3, <1>4, <1>5, <1>6, <1>7, <1>8, Steps

LEMMA BaselineStep == TypeOK /\ StageInv /\ BaselineInv /\ [Next]_vars => BaselineInv'
<1> SUFFICES ASSUME TypeOK, StageInv, BaselineInv, [Next]_vars PROVE BaselineInv'
  OBVIOUS
<1> USE DEF BaselineInv, campaign, collector, Goto, Exit
<1>1. CASE UNCHANGED vars
  BY <1>1 DEF vars
<1>2. CASE Interrupt \/ Ended
  BY <1>2 DEF Interrupt, Ended, vars
<1>3. CASE Setup
  BY <1>3 DEF Setup, StageInv
<1>4. CASE Ready \/ Receive \/ Return
  <2>1. main' \notin {"setup", "ready"}
    BY <1>4 DEF Ready, Receive, Return
  <2>2. QED
    BY <2>1
<1>5. ASSUME NEW w \in Workers, BaselinePasses(w) \/ Calibrated(w)
      PROVE  BaselineInv'
  <2>1. /\ UNCHANGED <<interrupted, ctxDone, baseErr, tree, jobs, completed, failure, main>>
        /\ \A v \in Workers : pc'[v] # "ready" => pc[v] # "ready"
    BY <1>5 DEF BaselinePasses, Calibrated, TypeOK
  <2>2. QED
    BY <2>1
<1>6. ASSUME NEW w \in Workers, BaselineFails(w)
      PROVE  BaselineInv'
  <2>1. /\ pc[w] = "baseline" /\ pc' = [pc EXCEPT ![w] = "ready"]
        /\ UNCHANGED <<interrupted, tree, jobs, completed, failure, main>>
        /\ ctxDone'
        /\ \A v \in Workers \ {w} : baseErr'[v] = baseErr[v]
        /\ ~ ctxDone => baseErr'[w] = "failed"
    BY <1>6 DEF BaselineFails, TypeOK
  <2>2. CASE main \in {"setup", "ready"}
    <3>1. ASSUME ctxDone, ~ interrupted
          PROVE  \E v \in Workers : baseErr'[v] = "failed"
      <4>1. PICK v \in Workers : baseErr[v] = "failed"
        BY <2>2, <3>1
      <4>2. v # w
        BY <2>1, <2>2, <4>1
      <4>3. QED
        BY <2>1, <4>1, <4>2
    <3>2. ctxDone' /\ ~ interrupted' => \E v \in Workers : baseErr'[v] = "failed"
      BY <2>1, <3>1
    <3>3. \A v \in Workers : pc'[v] # "ready" => baseErr'[v] = "none"
      BY <2>1, <2>2 DEF TypeOK
    <3>4. QED
      BY <2>1, <2>2, <3>2, <3>3
  <2>3. QED
    BY <2>1, <2>2
<1>7. ASSUME NEW w \in Workers,
             Take(w) \/ Apply(w) \/ Test(w) \/ Restore(w) \/ Send(w) \/ Cancel(w)
      PROVE  BaselineInv'
  <2>1. pc[w] \in {"take", "apply", "test", "restore", "send", "cancel"}
    BY <1>7 DEF Take, Apply, Test, Restore, Send, Cancel
  <2>2. main' = main
    BY <1>7 DEF Take, Apply, Test, Restore, Send, Cancel
  <2>3. QED
    BY <2>1, <2>2, Working
<1>8. QED
  BY <1>1, <1>2, <1>3, <1>4, <1>5, <1>6, <1>7, Steps
-----------------------------------------------------------------------------
\* A step of one worker's program, which CopyInv, VerdictInv and CancelInv
\* speak about worker by worker, leaves the others as they are.
Alone(w) == \A v \in Workers \ {w} : /\ pc'[v] = pc[v]
                                     /\ tree'[v] = tree[v]
                                     /\ job'[v] = job[v]
                                     /\ out'[v] = out[v]

LEMMA CopyStep == TypeOK /\ StageInv /\ BaselineInv /\ CopyInv /\ [Next]_vars => CopyInv'
<1> SUFFICES ASSUME TypeOK, StageInv, BaselineInv, CopyInv, [Next]_vars PROVE CopyInv'
  OBVIOUS
<1> USE DEF CopyInv, Holding, campaign, collector, Goto, Exit
<1>1. CASE UNCHANGED vars
  BY <1>1 DEF vars
<1>2. CASE Interrupt \/ Ended
  BY <1>2 DEF Interrupt, Ended, vars
<1>3. CASE Setup \/ Ready
  <2>1. /\ \A w \in Workers : tree'[w] = {}
        /\ \/ \A w \in Workers : pc'[w] \in {"baseline", "take", "stopped"}
           \/ UNCHANGED pc /\ \A w \in Workers : pc[w] = "stopped"
    BY <1>3 DEF Setup, Ready, BaselineInv, StageInv
  <2>2. QED
    BY <2>1
<1>4. CASE Receive \/ Return
  BY <1>4 DEF Receive, Return
<1>5. ASSUME NEW w \in Workers, BaselinePasses(w) \/ Calibrated(w) \/ BaselineFails(w)
      PROVE  CopyInv'
  <2>1. pc[w] = "baseline" /\ UNCHANGED <<tree, job, out>>
    BY <1>5 DEF BaselinePasses, Calibrated, BaselineFails
  <2>2. pc'[w] \in {"baseline", "ready"} /\ \A v \in Workers \ {w} : pc'[v] = pc[v]
    BY <1>5 DEF BaselinePasses, Calibrated, BaselineFails, TypeOK
  <2>3. QED
    BY <2>1, <2>2
<1>6. ASSUME NEW w \in Workers, Take(w) PROVE CopyInv'
  <2>1. /\ tree[w] = {} /\ UNCHANGED <<tree, out>>
        /\ \A v \in Workers \ {w} : pc'[v] = pc[v] /\ job'[v] = job[v]
        /\ \/ pc'[w] = "stopped"
           \/ pc'[w] = "apply" /\ job'[w] \in Mutants
    BY <1>6 DEF Take, HasJob, TypeOK, Mutants
  <2>2. QED
    BY <2>1
<1>7. ASSUME NEW w \in Workers, Apply(w) PROVE CopyInv'
  <2>1. /\ tree[w] = {} /\ job[w] \in Mutants /\ UNCHANGED job
        /\ Alone(w)
        /\ \/ pc'[w] = "test" /\ tree'[w] = {job[w]}
           \/ pc'[w] = "send" /\ tree'[w] \subseteq {job[w]} /\ out'[w] = "failed"
    BY <1>7 DEF Apply, Copy, TypeOK, Alone
  <2>2. "failed" \in Errors
    BY DEF Errors
  <2>3. QED
    BY <2>1, <2>2 DEF Alone
<1>8. ASSUME NEW w \in Workers, Test(w) PROVE CopyInv'
  <2>1. /\ job[w] \in Mutants /\ UNCHANGED <<job, tree>>
        /\ Alone(w)
        /\ pc'[w] = "restore" /\ out'[w] \in Statuses
    BY <1>8 DEF Test, Says, Statuses, TypeOK, Alone
  <2>2. QED
    BY <2>1 DEF Alone
<1>9. ASSUME NEW w \in Workers, Restore(w) PROVE CopyInv'
  <2>1. /\ job[w] \in Mutants /\ out[w] \in Statuses /\ tree[w] \subseteq {job[w]}
        /\ UNCHANGED job
        /\ Alone(w)
        /\ pc'[w] = "send"
    BY <1>9 DEF Restore, Copy, TypeOK, Alone
  <2>2. \/ tree'[w] = tree[w] \ {job[w]} /\ out'[w] \in {out[w], "cancelled"}
        \/ UNCHANGED tree /\ out'[w] = "failed"
    BY <1>9 DEF Restore, Copy, TypeOK
  <2>3. {"failed", "cancelled"} \subseteq Errors /\ "none" \notin Statuses
    BY DEF Errors, Statuses
  <2>4. QED
    BY <2>1, <2>2, <2>3 DEF Alone
<1>10. ASSUME NEW w \in Workers, Send(w) \/ Cancel(w) PROVE CopyInv'
  <2>1. /\ UNCHANGED <<job, tree, out>>
        /\ \A v \in Workers \ {w} : pc'[v] = pc[v]
        /\ \/ pc'[w] \in {"cancel", "stopped"}
           \/ pc[w] = "send" /\ pc'[w] = "take" /\ out[w] \notin Errors
    BY <1>10 DEF Send, Cancel, TypeOK
  <2>2. QED
    BY <2>1
<1>11. QED
  BY <1>1, <1>2, <1>3, <1>4, <1>5, <1>6, <1>7, <1>8, <1>9, <1>10, Steps
-----------------------------------------------------------------------------
LEMMA VerdictStep == TypeOK /\ CopyInv /\ VerdictInv /\ [Next]_vars => VerdictInv'
<1> SUFFICES ASSUME TypeOK, CopyInv, VerdictInv, [Next]_vars PROVE VerdictInv'
  OBVIOUS
<1> USE DEF VerdictInv, Own, campaign, collector, Goto, Exit
<1>1. CASE UNCHANGED vars
  BY <1>1 DEF vars
<1>2. CASE Interrupt \/ Ended
  BY <1>2 DEF Interrupt, Ended, vars
<1>3. CASE Setup \/ Ready
  <2>1. \/ \A w \in Workers : pc'[w] \in {"baseline", "take", "stopped"}
        \/ UNCHANGED pc
    BY <1>3 DEF Setup, Ready
  <2>2. UNCHANGED <<truth, job, out, completed, statuses>>
    BY <1>3 DEF Setup, Ready
  <2>3. QED
    BY <2>1, <2>2
<1>4. CASE Return
  BY <1>4 DEF Return
<1>5. CASE Receive
  <2>1. /\ Len(completed) \in Nat \ {0} /\ Len(completed') = Len(completed) - 1
        /\ completed[1] = Head(completed)
        /\ \A i \in 1..Len(completed') : completed'[i] = completed[i + 1]
    BY <1>5, Received
  <2>2. UNCHANGED <<truth, pc, job, out>>
    BY <1>5 DEF Receive
  <2>3. \A i \in 1..Len(completed') : Own(completed'[i].index, completed'[i].out)
    BY <2>1
  <2>4. Own(Head(completed).index, Head(completed).out)
    BY <2>1
  <2>5. \A m \in Mutants : \/ statuses'[m] \in {statuses[m], "none"}
                           \/ m = Head(completed).index /\ statuses'[m] = Head(completed).out
    BY <1>5 DEF Receive, TypeOK
  <2>6. \A m \in Mutants : Own(m, statuses'[m])
    BY <2>4, <2>5
  <2>7. QED
    BY <2>2, <2>3, <2>6
<1>6. ASSUME NEW w \in Workers, BaselinePasses(w) \/ Calibrated(w) \/ BaselineFails(w)
      PROVE  VerdictInv'
  <2>1. UNCHANGED <<truth, job, out, completed, statuses>>
    BY <1>6 DEF BaselinePasses, Calibrated, BaselineFails
  <2>2. pc'[w] \in {"baseline", "ready"} /\ \A v \in Workers \ {w} : pc'[v] = pc[v]
    BY <1>6 DEF BaselinePasses, Calibrated, BaselineFails, TypeOK
  <2>3. QED
    BY <2>1, <2>2
<1>7. ASSUME NEW w \in Workers, Take(w) \/ Apply(w) PROVE VerdictInv'
  <2>1. UNCHANGED <<truth, completed, statuses>>
    BY <1>7 DEF Take, Apply
  <2>2. \A v \in Workers \ {w} : pc'[v] = pc[v] /\ job'[v] = job[v] /\ out'[v] = out[v]
    BY <1>7 DEF Take, Apply, TypeOK
  <2>3. \/ pc'[w] \in {"stopped", "apply", "test"}
        \/ pc'[w] = "send" /\ out'[w] = "failed"
    BY <1>7 DEF Take, Apply, TypeOK
  <2>4. QED
    BY <2>1, <2>2, <2>3
<1>8. ASSUME NEW w \in Workers, Test(w) PROVE VerdictInv'
  <2>1. UNCHANGED <<truth, job, completed, statuses>>
    BY <1>8 DEF Test
  <2>2. \A v \in Workers \ {w} : pc'[v] = pc[v] /\ out'[v] = out[v]
    BY <1>8 DEF Test, TypeOK
  <2>3. tree[w] = {job[w]} /\ job[w] \in Mutants
    BY <1>8 DEF Test, CopyInv, Holding
  <2>4. \/ out'[w] \in {"INVALID", "TIMED OUT"}
        \/ \A m \in Mutants : tree[w] = {m} => out'[w] = truth[m]
    BY <1>8 DEF Test, Says, Copy, TypeOK
  <2>5. Own(job[w], out'[w])
    BY <2>3, <2>4
  <2>6. QED
    BY <2>1, <2>2, <2>5
<1>9. ASSUME NEW w \in Workers, Restore(w) PROVE VerdictInv'
  <2>1. UNCHANGED <<truth, job, completed, statuses>>
    BY <1>9 DEF Restore
  <2>2. \A v \in Workers \ {w} : pc'[v] = pc[v] /\ out'[v] = out[v]
    BY <1>9 DEF Restore, TypeOK
  <2>3. pc[w] = "restore" /\ out'[w] \in {out[w], "cancelled", "failed"}
    BY <1>9 DEF Restore, TypeOK
  <2>4. Own(job[w], out'[w])
    BY <2>3
  <2>5. QED
    BY <2>1, <2>2, <2>4
<1>10. ASSUME NEW w \in Workers, Send(w) PROVE VerdictInv'
  <2>1. UNCHANGED <<truth, job, out, statuses>>
    BY <1>10 DEF Send
  <2>2. pc'[w] \in {"cancel", "take"} /\ \A v \in Workers \ {w} : pc'[v] = pc[v]
    BY <1>10 DEF Send, TypeOK
  <2>3. Own(job[w], out[w])
    BY <1>10 DEF Send
  <2>4. /\ Len(completed) \in Nat /\ Len(completed') = Len(completed) + 1
        /\ \A i \in 1..Len(completed) : completed'[i] = completed[i]
        /\ completed'[Len(completed')] = [index |-> job[w], out |-> out[w]]
    BY <1>10, Sent, LenProperties DEF TypeOK
  <2>5. \A i \in 1..Len(completed') : Own(completed'[i].index, completed'[i].out)
    BY <2>3, <2>4
  <2>6. QED
    BY <2>1, <2>2, <2>5
<1>11. ASSUME NEW w \in Workers, Cancel(w) PROVE VerdictInv'
  <2>1. UNCHANGED <<truth, job, out, completed, statuses>>
    BY <1>11 DEF Cancel
  <2>2. pc'[w] = "stopped" /\ \A v \in Workers \ {w} : pc'[v] = pc[v]
    BY <1>11 DEF Cancel, TypeOK
  <2>3. QED
    BY <2>1, <2>2
<1>12. QED
  BY <1>1, <1>2, <1>3, <1>4, <1>5, <1>6, <1>7, <1>8, <1>9, <1>10, <1>11, Steps

LEMMA CancelStep == TypeOK /\ CopyInv /\ CancelInv /\ [Next]_vars => CancelInv'
<1> SUFFICES ASSUME TypeOK, CopyInv, CancelInv, [Next]_vars PROVE CancelInv'
  OBVIOUS
<1> USE DEF CancelInv, campaign, collector, Goto, Exit
<1>1. CASE UNCHANGED vars
  BY <1>1 DEF vars
<1>2. CASE Interrupt \/ Ended
  BY <1>2 DEF Interrupt, Ended, vars
<1>3. CASE Setup \/ Ready
  <2>1. \/ \A w \in Workers : pc'[w] \in {"baseline", "take", "stopped"}
        \/ UNCHANGED pc
    BY <1>3 DEF Setup, Ready
  <2>2. UNCHANGED <<out, ctxDone>>
    BY <1>3 DEF Setup, Ready
  <2>3. QED
    BY <2>1, <2>2
<1>4. CASE Receive \/ Return
  BY <1>4 DEF Receive, Return
<1>5. ASSUME NEW w \in Workers,
             \/ BaselinePasses(w) \/ Calibrated(w) \/ BaselineFails(w)
             \/ Take(w) \/ Test(w) \/ Send(w) \/ Cancel(w)
      PROVE  CancelInv'
  <2>1. \A v \in Workers \ {w} : pc'[v] = pc[v] /\ out'[v] = out[v]
    BY <1>5 DEF BaselinePasses, Calibrated, BaselineFails, Take, Test, Send, Cancel, TypeOK
  <2>2. pc'[w] # "send"
    BY <1>5 DEF BaselinePasses, Calibrated, BaselineFails, Take, Test, Send, Cancel, TypeOK
  <2>3. ctxDone => ctxDone'
    BY <1>5 DEF BaselinePasses, Calibrated, BaselineFails, Take, Test, Send, Cancel
  <2>4. QED
    BY <2>1, <2>2, <2>3
<1>6. ASSUME NEW w \in Workers, Apply(w) PROVE CancelInv'
  BY <1>6 DEF Apply, TypeOK
<1>7. ASSUME NEW w \in Workers, Restore(w) PROVE CancelInv'
  <2>1. out[w] \in Statuses
    BY <1>7 DEF Restore, CopyInv
  <2>2. "cancelled" \notin Statuses
    BY DEF Statuses
  <2>3. QED
    BY <1>7, <2>1, <2>2 DEF Restore, TypeOK
<1>8. QED
  BY <1>1, <1>2, <1>3, <1>4, <1>5, <1>6, <1>7, Steps
-----------------------------------------------------------------------------
LEMMA ErrorStep ==
  TypeOK /\ StageInv /\ BaselineInv /\ CopyInv /\ ErrorInv /\ CancelInv /\ [Next]_vars => ErrorInv'
<1> SUFFICES ASSUME TypeOK, StageInv, BaselineInv, CopyInv, ErrorInv, CancelInv, [Next]_vars
             PROVE  ErrorInv'
  OBVIOUS
<1> USE DEF ErrorInv, Failed, campaign, collector, Goto, Exit
<1>1. CASE UNCHANGED vars
  BY <1>1 DEF vars
<1>2. CASE Interrupt \/ Ended
  BY <1>2 DEF Interrupt, Ended, vars
<1>3. CASE Setup
  BY <1>3 DEF Setup
<1>4. CASE Ready
  <2>1. UNCHANGED <<interrupted, ctxDone, completed, baseErr>> /\ completed = <<>>
    BY <1>4 DEF Ready, BaselineInv
  <2>2. \A w \in Workers : pc'[w] # "cancel"
    BY <1>4 DEF Ready
  <2>3. main' = "collect" => (ctxDone => interrupted) /\ failure' = "none"
    BY <1>4 DEF Ready, BaselineInv
  <2>4. CASE main' = "collect"
    BY <2>1, <2>2, <2>3, <2>4
  <2>5. CASE main' # "collect"
    <3>1. main' = "done" /\ failure' # "none"
      BY <1>4, <2>5 DEF Ready
    <3>2. ctxDone
      BY <1>4, <2>5 DEF Ready, BaselineInv
    <3>3. ~ interrupted => \E w \in Workers : baseErr'[w] = "failed"
      BY <1>4, <2>1, <3>2 DEF Ready, BaselineInv
    <3>4. QED
      BY <2>1, <2>2, <3>1, <3>3
  <2>6. QED
    BY <2>4, <2>5
<1>5. CASE Return
  BY <1>5 DEF Return
<1>6. CASE Receive
  <2> DEFINE r == Head(completed)
  <2>1. /\ Len(completed) \in Nat \ {0} /\ Len(completed') = Len(completed) - 1
        /\ completed[1] = r
        /\ \A i \in 1..Len(completed') : completed'[i] = completed[i + 1]
    BY <1>6, Received
  <2>2. UNCHANGED <<interrupted, ctxDone, pc, main>>
    BY <1>6 DEF Receive
  <2>3. SUFFICES ASSUME ~interrupted
                 PROVE  ErrorInv'
    BY <2>2
  <2>4. failure \in {"none", "failed"}
    BY <1>6, <2>3 DEF TypeOK, Errors, Receive
  <2>5. /\ failure' = IF failure = "none" /\ r.out \in Errors THEN r.out ELSE failure
        /\ "failed" \in Errors
    BY <1>6 DEF Receive, Errors
  <2>6. r.out = "cancelled" => failure = "failed"
    BY <2>1, <2>3
  <2>7. failure = "failed" \/ r.out = "failed" <=> failure' = "failed"
    BY <2>4, <2>5
  <2>8. failure' # "cancelled"
    BY <2>4, <2>5, <2>6
  <2>9. Failed => Failed'
    <3>1. ASSUME NEW i \in 1..Len(completed), completed[i].out = "failed"
          PROVE  Failed'
      <4>1. CASE i = 1
        BY <2>1, <2>7, <3>1, <4>1
      <4>2. CASE i # 1
        <5>1. i - 1 \in 1..Len(completed') /\ completed'[i - 1] = completed[i]
          BY <2>1, <4>2
        <5>2. QED
          BY <3>1, <5>1
      <4>3. QED
        BY <4>1, <4>2
    <3>2. QED
      BY <2>7, <3>1
  <2>10. ASSUME NEW j \in 1..Len(completed'), completed'[j].out = "cancelled"
         PROVE  \/ failure' = "failed"
                \/ \E i \in 1..(j - 1) : completed'[i].out = "failed"
    <3>1. j + 1 \in 1..Len(completed) /\ completed[j + 1].out = "cancelled"
      BY <2>1, <2>10
    <3>2. ASSUME NEW i \in 1..j, completed[i].out = "failed", i # 1
          PROVE  \E k \in 1..(j - 1) : completed'[k].out = "failed"
      <4>1. i - 1 \in 1..(j - 1) /\ completed'[i - 1] = completed[i]
        BY <2>1, <3>2
      <4>2. QED
        BY <3>2, <4>1
    <3>3. failure = "failed" \/ \E i \in 1..j : completed[i].out = "failed"
      BY <2>3, <3>1
    <3>4. QED
      BY <2>1, <2>7, <3>2, <3>3
  <2>11. QED
    BY <2>2, <2>3, <2>8, <2>9, <2>10
<1>7. ASSUME NEW w \in Workers, BaselinePasses(w) \/ Calibrated(w) \/ BaselineFails(w)
      PROVE  ErrorInv'
  <2>1. pc[w] = "baseline" /\ UNCHANGED <<interrupted, completed, failure, main>>
    BY <1>7 DEF BaselinePasses, Calibrated, BaselineFails
  <2>2. pc'[w] # "cancel" /\ \A v \in Workers \ {w} : pc'[v] = pc[v]
    BY <1>7 DEF BaselinePasses, Calibrated, BaselineFails, TypeOK
  <2>3. main = "ready"
    BY <2>1, Working
  <2>4. QED
    BY <2>1, <2>2, <2>3
<1>8. ASSUME NEW w \in Workers, Take(w) \/ Apply(w) \/ Test(w) \/ Restore(w)
      PROVE  ErrorInv'
  <2>1. UNCHANGED <<interrupted, ctxDone, completed, failure, main>>
    BY <1>8 DEF Take, Apply, Test, Restore
  <2>2. pc'[w] # "cancel" /\ \A v \in Workers \ {w} : pc'[v] = pc[v]
    BY <1>8 DEF Take, Apply, Test, Restore, TypeOK
  <2>3. main # "done"
    BY <1>8, Working DEF Take, Apply, Test, Restore
  <2>4. QED
    BY <2>1, <2>2, <2>3
<1>9. ASSUME NEW w \in Workers, Send(w) PROVE ErrorInv'
  <2>1. pc[w] = "send" /\ UNCHANGED <<interrupted, ctxDone, failure, main>>
    BY <1>9 DEF Send
  <2>2. main = "collect"
    BY <2>1, Working
  <2>3. /\ Len(completed) \in Nat /\ Len(completed') = Len(completed) + 1
        /\ \A i \in 1..Len(completed) : completed'[i] = completed[i]
        /\ completed'[Len(completed')].out = out[w]
    <3>1. Len(completed) \in Nat
      BY LenProperties DEF TypeOK
    <3>2. /\ Len(completed') = Len(completed) + 1
          /\ \A i \in 1..Len(completed) : completed'[i] = completed[i]
          /\ completed'[Len(completed')] = [index |-> job[w], out |-> out[w]]
      BY ONLY TypeOK, CopyInv, w \in Workers, <1>9, Sent
    <3>3. QED
      BY <3>1, <3>2
  <2>4. SUFFICES ASSUME ~interrupted
                 PROVE  ErrorInv'
    BY <2>1
  <2>5. Failed => Failed'
    BY <2>1, <2>3
  <2>6. out[w] \in Errors => Failed'
    <3>1. CASE out[w] = "failed"
      <4>1. Len(completed') \in 1..Len(completed')
        BY <2>3
      <4>2. QED
        BY <2>3, <3>1, <4>1
    <3>2. CASE out[w] = "cancelled"
      BY <2>1, <2>2, <2>4, <2>5, <3>2 DEF CancelInv
    <3>3. QED
      BY <3>1, <3>2 DEF Errors
  <2>7. \A v \in Workers : pc'[v] = "cancel" => pc[v] = "cancel" \/ out[w] \in Errors
    BY <1>9 DEF Send, TypeOK
  <2>8. ASSUME NEW j \in 1..Len(completed'), completed'[j].out = "cancelled"
        PROVE  \/ failure = "failed"
               \/ \E i \in 1..(j - 1) : completed'[i].out = "failed"
    <3>1. CASE j \in 1..Len(completed)
      <4>1. completed[j].out = "cancelled"
        BY <2>3, <2>8, <3>1
      <4>2. \A i \in 1..(j - 1) : completed'[i] = completed[i]
        BY <2>3, <3>1
      <4>3. QED
        BY <2>4, <3>1, <4>1, <4>2
    <3>2. CASE j = Len(completed')
      <4>1. out[w] = "cancelled"
        BY <2>3, <2>8, <3>2
      <4>2. Failed
        BY <2>1, <2>2, <2>4, <4>1 DEF CancelInv
      <4>3. /\ Len(completed) = j - 1
            /\ \A i \in 1..Len(completed) : completed'[i] = completed[i]
        BY <2>3, <3>2
      <4>4. QED
        BY <4>2, <4>3
    <3>3. QED
      BY <2>3, <3>1, <3>2
  <2>9. QED
    BY <2>1, <2>2, <2>4, <2>5, <2>6, <2>7, <2>8
<1>10. ASSUME NEW w \in Workers, Cancel(w) PROVE ErrorInv'
  BY <1>10 DEF Cancel, TypeOK
<1>11. QED
  BY <1>1, <1>2, <1>3, <1>4, <1>5, <1>6, <1>7, <1>8, <1>9, <1>10, Steps
-----------------------------------------------------------------------------
LEMMA ReportStep ==
  TypeOK /\ StageInv /\ BaselineInv /\ CopyInv /\ ReportInv /\ [Next]_vars => ReportInv'
<1> SUFFICES ASSUME TypeOK, StageInv, BaselineInv, CopyInv, ReportInv, [Next]_vars
             PROVE  ReportInv'
  OBVIOUS
<1> USE CampaignAssumption DEF ReportInv, campaign, collector, Goto, Exit
<1>1. CASE UNCHANGED vars
  BY <1>1 DEF vars, Accounted
<1>2. CASE Interrupt \/ Ended
  BY <1>2 DEF Interrupt, Ended, vars, Accounted
<1>3. CASE Setup \/ Ready
  <2>1. /\ jobs = 1 /\ main \in {"setup", "ready"} /\ failure = "none"
        /\ UNCHANGED <<ctxDone, jobs, statuses, rows>>
    BY <1>3 DEF Setup, Ready, BaselineInv
  <2>2. main' = "collect" => \A w \in Workers : pc'[w] = "take"
    BY <1>3 DEF Setup, Ready
  <2>3. \A m \in Mutants : ~(m < jobs')
    BY <2>1 DEF Mutants
  <2>4. QED
    BY <2>1, <2>2, <2>3
<1>4. CASE Return
  BY <1>4 DEF Return
<1>5. CASE Receive
  <2> DEFINE r == Head(completed)
  <2>1. SUFFICES ASSUME failure' = "none" PROVE ReportInv'
    OBVIOUS
  <2>2. failure = "none" /\ r.out \notin Errors
    BY <1>5, <2>1 DEF Receive, Errors
  <2>3. r \in Results /\ r.out \in Statuses /\ "none" \notin Statuses
    BY <1>5, <2>2, Received DEF Results, Statuses
  <2>4. statuses' = [statuses EXCEPT ![r.index] = r.out]
    BY <1>5, <2>2 DEF Receive
  <2>5. \A m \in Mutants : statuses'[m] # "none" <=> m = r.index \/ statuses[m] # "none"
    BY <2>3, <2>4 DEF TypeOK, Results
  <2>6. main = "collect" /\ UNCHANGED <<ctxDone, pc, job, jobs, main>>
    BY <1>5 DEF Receive
  <2>7. ASSUME NEW m \in Mutants, Accounted(m) PROVE Accounted(m)'
    <3>1. CASE statuses[m] # "none"
      BY <2>5, <3>1 DEF Accounted
    <3>2. ASSUME NEW i \in 1..Len(completed), completed[i].index = m PROVE Accounted(m)'
      <4>1. CASE i = 1
        <5>1. m = r.index
          BY <1>5, <3>2, <4>1, Received
        <5>2. QED
          BY <2>5, <5>1 DEF Accounted
      <4>2. CASE i # 1
        <5>1. i - 1 \in 1..Len(completed') /\ completed'[i - 1] = completed[i]
          BY <1>5, <4>2, Received
        <5>2. QED
          BY <3>2, <5>1 DEF Accounted
      <4>3. QED
        BY <4>1, <4>2
    <3>3. ASSUME NEW w \in Workers, pc[w] \in Holding, job[w] = m PROVE Accounted(m)'
      BY <2>6, <3>3 DEF Accounted
    <3>4. QED
      BY <2>7, <3>1, <3>2, <3>3 DEF Accounted
  <2>8. /\ rows' \in rows..NumMutants
        /\ \A k \in (rows + 1)..rows' : statuses'[k] # "none"
        /\ rows' < NumMutants => statuses'[rows' + 1] = "none"
    BY <1>5 DEF Receive, Printable
  <2>9. \A k \in 1..rows : statuses'[k] # "none"
    <3>1. rows \in 0..NumMutants
      BY DEF TypeOK
    <3>2. \A k \in 1..rows : k \in Mutants /\ statuses[k] # "none"
      BY <2>2, <2>6, <3>1 DEF Mutants
    <3>3. QED
      BY <2>5, <3>2
  <2>10. \A k \in 1..rows' : statuses'[k] # "none"
    <3>1. rows \in 0..NumMutants
      BY DEF TypeOK
    <3>2. QED
      BY <2>8, <2>9, <3>1
  <2>11. QED
    BY <2>2, <2>6, <2>7, <2>8, <2>10
<1>6. ASSUME NEW w \in Workers, BaselinePasses(w) \/ Calibrated(w) \/ BaselineFails(w)
      PROVE  ReportInv'
  <2>1. pc[w] = "baseline" /\ UNCHANGED <<jobs, statuses, rows, failure, main>>
    BY <1>6 DEF BaselinePasses, Calibrated, BaselineFails
  <2>2. main = "ready" /\ jobs = 1
    BY <2>1, Working DEF BaselineInv
  <2>3. \A m \in Mutants : ~(m < jobs')
    BY <2>1, <2>2 DEF Mutants
  <2>4. QED
    BY <2>1, <2>2, <2>3
<1>7. ASSUME NEW w \in Workers, Take(w) PROVE ReportInv'
  <2>1. pc[w] = "take" /\ UNCHANGED <<ctxDone, completed, statuses, rows, failure, main>>
    BY <1>7 DEF Take
  <2>2. \A v \in Workers \ {w} : pc'[v] = pc[v] /\ job'[v] = job[v]
    BY <1>7 DEF Take, TypeOK
  <2>3. main = "collect"
    BY <2>1, Working
  <2>4. SUFFICES ASSUME failure = "none", ~ctxDone PROVE ReportInv'
    BY <2>1, <2>3
  <2>5. \A m \in Mutants : Accounted(m) => Accounted(m)'
    BY <2>1, <2>2 DEF Accounted, Holding
  <2>6. \/ jobs \in Mutants /\ jobs' = jobs + 1 /\ pc'[w] = "apply" /\ job'[w] = jobs
        \/ jobs > NumMutants /\ jobs' = jobs
    BY <1>7, <2>4 DEF Take, HasJob, TypeOK, Mutants
  <2>7. jobs \in Nat
    BY DEF TypeOK
  <2>8. \A m \in Mutants : m < jobs' => Accounted(m)'
    <3>1. CASE jobs \in Mutants /\ jobs' = jobs + 1 /\ pc'[w] = "apply" /\ job'[w] = jobs
      <4>1. \A m \in Mutants : m = jobs => Accounted(m)'
        BY <3>1 DEF Accounted, Holding
      <4>2. \A m \in Mutants : m < jobs' => m < jobs \/ m = jobs
        BY <2>7, <3>1 DEF Mutants
      <4>3. QED
        BY <2>1, <2>3, <2>4, <2>5, <4>1, <4>2
    <3>2. CASE jobs > NumMutants /\ jobs' = jobs
      BY <2>1, <2>3, <2>4, <2>5, <3>2
    <3>3. QED
      BY <2>6, <3>1, <3>2
  <2>9. \A v \in Workers : pc'[v] = "stopped" => jobs' > NumMutants
    BY <2>1, <2>2, <2>3, <2>4, <2>6, <2>7
  <2>10. QED
    BY <2>1, <2>3, <2>4, <2>8, <2>9
<1>8. ASSUME NEW w \in Workers, Apply(w) \/ Test(w) \/ Restore(w) PROVE ReportInv'
  <2>1. UNCHANGED <<ctxDone, job, jobs, completed, statuses, rows, failure, main>>
    BY <1>8 DEF Apply, Test, Restore
  <2>2. /\ pc[w] \in Holding /\ pc'[w] \in Holding
        /\ \A v \in Workers \ {w} : pc'[v] = pc[v]
    BY <1>8 DEF Apply, Test, Restore, TypeOK, Holding
  <2>3. \A m \in Mutants : Accounted(m) => Accounted(m)'
    BY <2>1, <2>2 DEF Accounted
  <2>4. \A v \in Workers : pc'[v] = "stopped" => pc[v] = "stopped"
    BY <2>2 DEF Holding
  <2>5. QED
    BY <2>1, <2>3, <2>4
<1>9. ASSUME NEW w \in Workers, Send(w) PROVE ReportInv'
  <2>1. UNCHANGED <<ctxDone, job, jobs, statuses, rows, failure, main>>
    BY <1>9 DEF Send
  <2>2. pc'[w] \in {"cancel", "take"} /\ \A v \in Workers \ {w} : pc'[v] = pc[v]
    BY <1>9 DEF Send, TypeOK
  <2>3. Len(completed) \in Nat
    BY LenProperties DEF TypeOK
  <2>4. /\ Len(completed') = Len(completed) + 1
        /\ \A i \in 1..Len(completed) : completed'[i] = completed[i]
        /\ completed'[Len(completed')] = [index |-> job[w], out |-> out[w]]
    BY ONLY TypeOK, CopyInv, w \in Workers, <1>9, Sent
  <2>5. Len(completed') \in 1..Len(completed') /\ 1..Len(completed) \subseteq 1..Len(completed')
    BY <2>3, <2>4
  <2>6. \A m \in Mutants : Accounted(m) => Accounted(m)'
    BY <2>1, <2>2, <2>4, <2>5 DEF Accounted
  <2>7. \A v \in Workers : pc'[v] = "stopped" => pc[v] = "stopped"
    BY <2>2
  <2>8. QED
    BY <2>1, <2>6, <2>7
<1>10. ASSUME NEW w \in Workers, Cancel(w) PROVE ReportInv'
  <2>1. ctxDone' /\ UNCHANGED <<statuses, rows, failure, main>>
    BY <1>10 DEF Cancel
  <2>2. QED
    BY <2>1
<1>11. QED
  BY <1>1, <1>2, <1>3, <1>4, <1>5, <1>6, <1>7, <1>8, <1>9, <1>10, Steps

\* A run that ends with anything but 2 has tested every mutant.
LEMMA ExitStep ==
  /\ TypeOK /\ StageInv /\ BaselineInv /\ VerdictInv /\ ReportInv /\ ExitIsConclusive
  /\ [Next]_vars
  => ExitIsConclusive'
<1> SUFFICES ASSUME TypeOK, StageInv, BaselineInv, VerdictInv, ReportInv, ExitIsConclusive,
                    [Next]_vars
             PROVE  ExitIsConclusive'
  OBVIOUS
<1> USE CampaignAssumption DEF campaign, collector, Goto, Exit
<1>1. CASE UNCHANGED vars
  BY <1>1 DEF vars, ExitIsConclusive
<1>2. CASE Interrupt \/ Ended
  BY <1>2 DEF Interrupt, Ended, vars, ExitIsConclusive
<1>3. CASE Setup \/ Ready
  BY <1>3 DEF Setup, Ready, StageInv, ExitIsConclusive
<1>4. CASE Receive
  <2>1. exit' = 4
    BY <1>4 DEF Receive, StageInv
  <2>2. QED
    BY <2>1 DEF ExitIsConclusive
<1>5. CASE Return
  <2>1. UNCHANGED <<truth, incomplete, statuses, rows>>
    BY <1>5 DEF Return
  <2>2. SUFFICES ASSUME exit' # 2 PROVE ExitIsConclusive'
    BY DEF ExitIsConclusive
  <2>3. failure = "none" /\ ~ctxDone
    BY <1>5, <2>2 DEF Return, RunError
  <2>4. /\ main = "collect" /\ completed = <<>>
        /\ \A w \in Workers : pc[w] = "stopped"
    BY <1>5 DEF Return, Drained
  <2>5. jobs > NumMutants
    <3>1. 1 \in Workers
      BY DEF Workers
    <3>2. QED
      BY <2>3, <2>4, <3>1 DEF ReportInv
  <2>6. \A m \in Mutants : statuses[m] # "none"
    <3>1. \A m \in Mutants : m < jobs
      BY <2>5 DEF Mutants, TypeOK
    <3>2. \A m \in Mutants : Accounted(m)
      BY <2>3, <2>4, <3>1 DEF ReportInv
    <3>3. 1..Len(completed) = {}
      BY <2>4, EmptySeq
    <3>4. QED
      BY <2>4, <3>2, <3>3 DEF Accounted, Holding
  <2>7. rows = NumMutants
    <3>1. rows \in 0..NumMutants
      BY DEF TypeOK
    <3>2. rows < NumMutants => statuses[rows + 1] = "none" /\ rows + 1 \in Mutants
      BY <2>3, <2>4, <3>1 DEF ReportInv, Mutants
    <3>3. QED
      BY <2>6, <3>1, <3>2
  <2>8. exit' = 0 => ~incomplete /\ \A m \in Mutants : statuses[m] = "KILLED"
    BY <1>5 DEF Return
  <2>9. exit' = 1 => \E m \in Mutants : statuses[m] = "LIVED"
    BY <1>5 DEF Return
  <2>10. \A m \in Mutants : statuses[m] \in {"KILLED", "LIVED"} => statuses[m] = truth[m]
    BY DEF VerdictInv, Own
  <2>11. QED
    BY <2>1, <2>6, <2>7, <2>8, <2>9, <2>10 DEF ExitIsConclusive
<1>6. ASSUME NEW w \in Workers,
             \/ BaselinePasses(w) \/ Calibrated(w) \/ BaselineFails(w) \/ Take(w) \/ Apply(w)
             \/ Test(w) \/ Restore(w) \/ Send(w) \/ Cancel(w)
      PROVE  ExitIsConclusive'
  <2>1. UNCHANGED <<campaign, collector>>
    BY <1>6 DEF BaselinePasses, Calibrated, BaselineFails, Take, Apply, Test, Restore, Send,
                Cancel
  <2>2. QED
    BY <2>1 DEF ExitIsConclusive
<1>7. QED
  BY <1>1, <1>2, <1>3, <1>4, <1>5, <1>6, Steps
-----------------------------------------------------------------------------
LEMMA InitInv == Init => Inv
<1> SUFFICES ASSUME Init PROVE Inv
  OBVIOUS
<1>1. TypeOK
  BY InitTypes
<1>2. Len(completed) = 0 /\ 1..Len(completed) = {}
  BY EmptySeq DEF Init
<1>3. StageInv /\ BaselineInv /\ CopyInv
  BY CampaignAssumption DEF Init, StageInv, BaselineInv, CopyInv, Holding
<1>4. VerdictInv /\ CancelInv
  BY <1>2 DEF Init, VerdictInv, Own, CancelInv
<1>5. ErrorInv
  BY <1>2 DEF Init, ErrorInv, Failed
<1>6. ReportInv
  <2>1. /\ jobs = 1 /\ rows = 0 /\ main = "setup"
        /\ \A m \in Mutants : statuses[m] = "none"
    BY DEF Init
  <2>2. \A m \in Mutants : ~(m < jobs)
    BY <2>1 DEF Mutants
  <2>3. rows < NumMutants => rows + 1 \in Mutants
    BY <2>1, CampaignAssumption DEF Mutants
  <2>4. QED
    BY <2>1, <2>2, <2>3 DEF ReportInv
<1>7. ExitIsConclusive
  BY DEF Init, ExitIsConclusive
<1>8. QED
  BY <1>1, <1>3, <1>4, <1>5, <1>6, <1>7 DEF Inv

\* Mutation keeps the inductive invariant.
THEOREM Invariance == Spec => []Inv
<1>1. Inv /\ [Next]_vars => Inv'
  BY TypeStep, StageStep, BaselineStep, CopyStep, VerdictStep, ErrorStep, CancelStep,
     ReportStep, ExitStep DEF Inv
<1>2. QED
  BY InitInv, <1>1, PTL DEF Spec

\* Every variable of runMutants keeps its type; the channel of results never
\* holds more than one result per worker, and no job is taken beyond the last.
THEOREM TypeCorrect == Spec => []TypeOK
<1>1. Inv => TypeOK
  BY DEF Inv
<1>2. QED
  BY <1>1, Invariance, PTL

\* A verdict that runMutants reports is the mutant's own: no other worker's
\* mutant, and none an earlier job left behind, was in the copy it tested.
THEOREM VerdictsAreOwn == Spec => []VerdictIsOwn
<1>1. Inv => VerdictIsOwn
  BY DEF Inv, VerdictInv, Own, VerdictIsOwn
<1>2. QED
  BY <1>1, Invariance, PTL

\* Without a signal runMutants returns an error of a worker's own, never one of
\* the cancellations it caused; only a failed baseline can be hidden behind a
\* baseline that it cancelled.
THEOREM CauseIsReported == Spec => []RootCause
<1>1. Inv => RootCause
  BY DEF Inv, ErrorInv, RootCause
<1>2. QED
  BY <1>1, Invariance, PTL

\* No suite is calibrated while a source is mutated, and the command answers
\* only when every worker has stopped.
THEOREM StagesAreOrdered == Spec => []StagesInOrder
<1>1. Inv => StagesInOrder
  <2>1. ASSUME Inv, NEW w \in Workers, tree[w] # {}, NEW v \in Workers
        PROVE  pc[v] # "baseline"
    BY <2>1 DEF Inv, TypeOK, StageInv, BaselineInv
  <2>2. Inv => (main = "done" => \A w \in Workers : pc[w] = "stopped")
    BY DEF Inv, StageInv
  <2>3. QED
    BY <2>1, <2>2 DEF StagesInOrder
<1>2. QED
  BY <1>1, Invariance, PTL

\* Exit statuses 0 and 1 of the command say the truth about the campaign, and
\* every status but 2 comes with a result and a row for every mutant.
THEOREM ExitStatusIsConclusive == Spec => []ExitIsConclusive
<1>1. Inv => ExitIsConclusive
  BY DEF Inv
<1>2. QED
  BY <1>1, Invariance, PTL
=============================================================================
