----------------------- MODULE EvidenceCommand_proofs -----------------------
(***************************************************************************)
(* The safety properties of EvidenceCommand for any set of processes, any  *)
(* process group, any number of commands and any pipe capacity.            *)
(***************************************************************************)
EXTENDS EvidenceCommand, SequenceTheorems, TLAPS

\* run is in progress.
Busy == {"start", "wait", "kill", "drain", "save"}

\* A pipe at its end: nobody can add to what was copied.
Complete(s) == holders[s] = {} /\ copied[s] = written[s]

\* The evidence on disk is that of n commands.
Counted(n) == /\ Len(rows) = n
              /\ logged = n
              /\ files = (1..n) \X Streams

\* Where run is says whether it has an answer and whether Child may run.
PhaseInv == /\ returned # "none" => main \in {"idle", "stopped"}
            /\ main \notin {"wait", "kill"} => Child \notin alive
            /\ expired => timedOut
            /\ main = "start" => ~expired

\* A copier that saw the end of its pipe, or whose result came without an
\* error, leaves a pipe at its end; nothing is saved before both results.
StreamInv == \A s \in Streams :
               /\ copier[s] = "eof" => Complete(s)
               /\ copier[s] = "received" /\ ~streamErr => Complete(s)
               /\ main = "start" => copier[s] = "off" /\ ~startErr
               /\ startErr => copier[s] = "off"
               /\ (main = "save" \/ returned # "none") /\ ~startErr => copier[s] = "received"

\* The kill reached the whole group and no dying process forks.
GroupInv == expired => alive \cap Group \subseteq doomed

\* All evidence counts the commands that returned, except after a write error.
LedgerInv == /\ main = "idle" \/ returned \in {"ok", "failed"} => Counted(begun)
             /\ main \in Busy => begun > 0 /\ Counted(begun - 1)

\* What an accepted command left behind stays as it was judged.
AcceptInv == returned = "ok" => /\ ~startErr /\ ~streamErr /\ ~timedOut
                                /\ status \in allowed
                                /\ rows[Len(rows)] = [code |-> status, timedOut |-> FALSE]

Inv == TypeOK /\ PhaseInv /\ StreamInv /\ GroupInv /\ LedgerInv /\ AcceptInv
-----------------------------------------------------------------------------
\* The steps, one per action, as the proofs below split them.
LEMMA Steps ==
  ASSUME Next
  PROVE  \/ Begin \/ StartFails \/ Start \/ Deadline \/ Exited \/ DrainTimeout \/ DrainEnds
         \/ Save \/ Ended
         \/ \E s \in Streams : Drain(s) \/ Copy(s) \/ CopyEnds(s)
         \/ \E p \in Procs : End(p)
         \/ \E p \in Procs, s \in Streams : Write(p, s) \/ Close(p, s)
         \/ \E p \in Procs, q \in Procs : Fork(p, q)
BY Zenon DEF Next, Run, Copying, Process

LEMMA InitTypes == Init => TypeOK
<1>1. <<>> \in Seq(Rows)
  BY EmptySeq
<1>2. ASSUME Init
      PROVE  /\ written \in [Streams -> 0..MaxBytes]
             /\ copied \in [Streams -> 0..MaxBytes]
             /\ holders \in [Streams -> SUBSET Procs]
             /\ copier \in [Streams -> {"off", "copying", "eof", "closed", "received"}]
             /\ begun \in 0..NumCommands
             /\ logged \in 0..NumCommands
  BY <1>2, CommandAssumption DEF Init
<1>3. Init => status \in Statuses
  BY DEF Init, Statuses
<1>4. QED
  BY <1>1, <1>2, <1>3 DEF Init, TypeOK

\* What Save appends.
LEMMA RowSaved ==
  ASSUME TypeOK, LedgerInv, Save
  PROVE  /\ rows' \in Seq(Rows)
         /\ Len(rows') = begun
         /\ rows'[Len(rows')] = [code |-> status, timedOut |-> timedOut]
<1>1. rows' = Append(rows, [code |-> status, timedOut |-> timedOut])
  BY DEF Save, WithRow
<1>2. [code |-> status, timedOut |-> timedOut] \in Rows
  BY DEF TypeOK, Rows
<1>3. Len(rows) = begun - 1
  BY DEF Save, LedgerInv, Counted, Busy
<1>4. QED
  BY <1>1, <1>2, <1>3, AppendProperties DEF TypeOK

LEMMA TypeStep == TypeOK /\ LedgerInv /\ [Next]_vars => TypeOK'
<1> SUFFICES ASSUME TypeOK, LedgerInv, [Next]_vars PROVE TypeOK'
  OBVIOUS
<1> USE CommandAssumption DEF TypeOK, procs, pipes, errors, evidence
<1>1. CASE UNCHANGED vars
  BY <1>1 DEF vars, TypeOK, procs, pipes, errors, evidence
<1>2. CASE Begin
  <2>1. /\ written' \in [Streams -> 0..MaxBytes]
        /\ copied' \in [Streams -> 0..MaxBytes]
        /\ holders' \in [Streams -> SUBSET Procs]
        /\ copier' \in [Streams -> {"off", "copying", "eof", "closed", "received"}]
    BY <1>2 DEF Begin
  <2>2. status' \in Statuses
    BY <1>2 DEF Begin, Statuses
  <2>3. begun' \in 0..NumCommands
    BY <1>2 DEF Begin
  <2>4. /\ UNCHANGED <<rows, files, logged>>
        /\ allowed' \in AllowedSets
        /\ alive' = {} /\ doomed' = {}
        /\ main' = "start" /\ timer' = "off" /\ returned' = "none"
    BY <1>2 DEF Begin
  <2>5. /\ open' \in BOOLEAN
        /\ expired' \in BOOLEAN /\ timedOut' \in BOOLEAN
        /\ startErr' \in BOOLEAN /\ streamErr' \in BOOLEAN
    BY <1>2 DEF Begin
  <2>6. QED
    BY <2>1, <2>2, <2>3, <2>4, <2>5
<1>3. CASE StartFails
  BY <1>3 DEF StartFails
<1>4. CASE Start
  BY <1>4 DEF Start
<1>5. CASE Deadline
  BY <1>5 DEF Deadline, Victims
<1>6. CASE Exited
  BY <1>6 DEF Exited
<1>7. CASE DrainTimeout
  BY <1>7 DEF DrainTimeout
<1>8. CASE DrainEnds
  BY <1>8 DEF DrainEnds
<1>9. CASE Save
  <2>1. /\ rows' \in Seq(Rows)
        /\ Len(rows') = begun
    BY <1>9, RowSaved
  <2>2. begun \in 1..NumCommands
    BY <1>9 DEF Save, LedgerInv, Busy
  <2>3. files' \subseteq (1..NumCommands) \X Streams
    BY <1>9, <2>2 DEF Save
  <2>4. logged' \in 0..NumCommands
    BY <1>9, <2>1, <2>2 DEF Save
  <2>5. /\ returned' \in {"none", "ok", "failed", "write"}
        /\ main' \in {"idle", "stopped"}
    BY <1>9 DEF Save
  <2>6. QED
    BY <1>9, <2>1, <2>3, <2>4, <2>5 DEF Save
<1>10. ASSUME NEW s \in Streams, Drain(s) \/ Copy(s) \/ CopyEnds(s) PROVE TypeOK'
  <2>1. CASE Drain(s)
    BY <2>1 DEF Drain
  <2>2. CASE Copy(s)
    <3>1. copied[s] + 1 \in 0..MaxBytes
      BY <2>2 DEF Copy, HasData
    <3>2. copied' \in [Streams -> 0..MaxBytes]
      BY <2>2, <3>1 DEF Copy
    <3>3. QED
      BY <2>2, <3>2 DEF Copy
  <2>3. CASE CopyEnds(s)
    BY <2>3 DEF CopyEnds
  <2>4. QED
    BY <1>10, <2>1, <2>2, <2>3
<1>11. ASSUME NEW p \in Procs, End(p) PROVE TypeOK'
  BY <1>11 DEF End, Statuses
<1>12. ASSUME NEW p \in Procs, NEW s \in Streams, Write(p, s) \/ Close(p, s) PROVE TypeOK'
  <2>1. CASE Write(p, s)
    <3>1. written' \in [Streams -> 0..MaxBytes]
      BY <2>1 DEF Write
    <3>2. QED
      BY <2>1, <3>1 DEF Write
  <2>2. CASE Close(p, s)
    BY <2>2 DEF Close
  <2>3. QED
    BY <1>12, <2>1, <2>2
<1>13. ASSUME NEW p \in Procs, NEW q \in Procs, Fork(p, q) PROVE TypeOK'
  BY <1>13 DEF Fork
<1>14. QED
  BY <1>1, <1>2, <1>3, <1>4, <1>5, <1>6, <1>7, <1>8, <1>9, <1>10, <1>11, <1>12, <1>13, Steps
  DEF Ended
-----------------------------------------------------------------------------
LEMMA InitInv == Init => Inv
BY InitTypes DEF Init, Inv, PhaseInv, StreamInv, GroupInv, LedgerInv, AcceptInv, Counted, Busy

LEMMA PhaseStep == Inv /\ [Next]_vars => PhaseInv'
<1> SUFFICES ASSUME Inv, [Next]_vars PROVE PhaseInv'
  OBVIOUS
<1> USE DEF Inv, TypeOK, PhaseInv, procs, pipes, errors, evidence
<1>1. CASE UNCHANGED vars
  BY <1>1 DEF vars
<1>2. CASE Begin
  BY <1>2 DEF Begin
<1>3. CASE StartFails
  BY <1>3 DEF StartFails
<1>4. CASE Start
  BY <1>4 DEF Start
<1>5. CASE Deadline
  BY <1>5 DEF Deadline
<1>6. CASE Exited
  BY <1>6 DEF Exited
<1>7. CASE DrainTimeout
  BY <1>7 DEF DrainTimeout
<1>8. CASE DrainEnds
  BY <1>8 DEF DrainEnds
<1>9. CASE Save
  BY <1>9 DEF Save
<1>10. ASSUME NEW s \in Streams, Drain(s) \/ Copy(s) \/ CopyEnds(s) PROVE PhaseInv'
  BY <1>10 DEF Drain, Copy, CopyEnds
<1>11. ASSUME NEW p \in Procs, End(p) PROVE PhaseInv'
  BY <1>11 DEF End
<1>12. ASSUME NEW p \in Procs, NEW s \in Streams, Write(p, s) \/ Close(p, s) PROVE PhaseInv'
  BY <1>12 DEF Write, Close
<1>13. ASSUME NEW p \in Procs, NEW q \in Procs, Fork(p, q) PROVE PhaseInv'
  BY <1>13 DEF Fork
<1>14. QED
  BY <1>1, <1>2, <1>3, <1>4, <1>5, <1>6, <1>7, <1>8, <1>9, <1>10, <1>11, <1>12, <1>13, Steps
  DEF Ended

LEMMA GroupStep == Inv /\ [Next]_vars => GroupInv'
<1> SUFFICES ASSUME Inv, [Next]_vars PROVE GroupInv'
  OBVIOUS
<1> USE DEF Inv, TypeOK, GroupInv, procs, pipes, errors, evidence
<1>1. CASE UNCHANGED <<alive, doomed, expired>>
  BY <1>1
<1>2. CASE Begin
  BY <1>2 DEF Begin
<1>3. CASE Start
  BY <1>3 DEF Start, PhaseInv
<1>4. CASE Deadline
  BY <1>4 DEF Deadline, Victims
<1>5. ASSUME NEW p \in Procs, End(p) PROVE GroupInv'
  BY <1>5 DEF End
<1>6. ASSUME NEW p \in Procs, NEW q \in Procs, Fork(p, q) PROVE GroupInv'
  BY <1>6 DEF Fork, Runs
<1>7. QED
  BY <1>1, <1>2, <1>3, <1>4, <1>5, <1>6, Steps
  DEF vars, StartFails, Exited, DrainTimeout, DrainEnds, Save, Ended, Drain, Copy, CopyEnds,
      Write, Close

LEMMA StreamStep == Inv /\ [Next]_vars => StreamInv'
<1> SUFFICES ASSUME Inv, [Next]_vars PROVE StreamInv'
  OBVIOUS
<1> USE DEF Inv, TypeOK, StreamInv, Complete, procs, pipes, errors, evidence
<1>1. CASE UNCHANGED vars
  BY <1>1 DEF vars
<1>2. CASE Begin
  BY <1>2 DEF Begin
<1>3. CASE StartFails
  BY <1>3 DEF StartFails
<1>4. CASE Start
  BY <1>4 DEF Start, PhaseInv
<1>5. CASE Deadline
  BY <1>5 DEF Deadline
<1>6. CASE Exited
  BY <1>6 DEF Exited
<1>7. CASE DrainTimeout
  BY <1>7 DEF DrainTimeout
<1>8. CASE DrainEnds
  BY <1>8 DEF DrainEnds, Drained
<1>9. CASE Save
  BY <1>9 DEF Save
<1>10. ASSUME NEW s \in Streams, Drain(s) \/ Copy(s) \/ CopyEnds(s) PROVE StreamInv'
  <2>1. CASE Drain(s)
    BY <2>1 DEF Drain, PhaseInv
  <2>2. CASE Copy(s)
    BY <2>2 DEF Copy, PhaseInv
  <2>3. CASE CopyEnds(s)
    BY <2>3 DEF CopyEnds, PhaseInv
  <2>4. QED
    BY <1>10, <2>1, <2>2, <2>3
<1>11. ASSUME NEW p \in Procs, End(p) PROVE StreamInv'
  BY <1>11 DEF End
<1>12. ASSUME NEW p \in Procs, NEW s \in Streams, Write(p, s) \/ Close(p, s) PROVE StreamInv'
  BY <1>12 DEF Write, Close
<1>13. ASSUME NEW p \in Procs, NEW q \in Procs, Fork(p, q) PROVE StreamInv'
  BY <1>13 DEF Fork
<1>14. QED
  BY <1>1, <1>2, <1>3, <1>4, <1>5, <1>6, <1>7, <1>8, <1>9, <1>10, <1>11, <1>12, <1>13, Steps
  DEF Ended

LEMMA LedgerStep == Inv /\ [Next]_vars => LedgerInv'
<1> SUFFICES ASSUME Inv, [Next]_vars PROVE LedgerInv'
  OBVIOUS
<1> USE DEF Inv, TypeOK, LedgerInv, Counted, Busy, procs, pipes, errors, evidence
<1>1. CASE UNCHANGED <<main, begun, rows, files, logged, returned>>
  BY <1>1
<1>2. CASE Begin
  BY <1>2 DEF Begin, PhaseInv
<1>3. CASE StartFails
  BY <1>3 DEF StartFails, PhaseInv
<1>4. CASE Start
  BY <1>4 DEF Start, PhaseInv
<1>5. CASE Deadline
  BY <1>5 DEF Deadline, PhaseInv
<1>6. CASE Exited
  BY <1>6 DEF Exited, PhaseInv
<1>7. CASE DrainEnds
  BY <1>7 DEF DrainEnds, PhaseInv
<1>8. CASE Save
  <2>1. Len(rows') = begun
    BY <1>8, RowSaved DEF Save
  <2>2. CASE returned' = "write"
    BY <1>8, <2>2 DEF Save
  <2>3. CASE returned' # "write"
    <3>1. /\ files' = files \cup ({begun} \X Streams)
          /\ logged' = Len(rows')
      BY <1>8, <2>3 DEF Save
    <3>2. files' = (1..begun) \X Streams
      BY <1>8, <3>1 DEF Save
    <3>3. QED
      BY <1>8, <2>1, <3>1, <3>2 DEF Save
  <2>4. QED
    BY <2>2, <2>3
<1>9. QED
  BY <1>1, <1>2, <1>3, <1>4, <1>5, <1>6, <1>7, <1>8, Steps
  DEF vars, DrainTimeout, Ended, Drain, Copy, CopyEnds, End, Write, Close, Fork

LEMMA AcceptStep == Inv /\ [Next]_vars => AcceptInv'
<1> SUFFICES ASSUME Inv, [Next]_vars PROVE AcceptInv'
  OBVIOUS
<1> USE DEF Inv, TypeOK, AcceptInv, PhaseInv, procs, pipes, errors, evidence
<1>1. CASE UNCHANGED <<allowed, status, startErr, streamErr, timedOut, rows, returned>>
  BY <1>1
<1>2. CASE Begin
  BY <1>2 DEF Begin
<1>3. CASE main \in {"start", "wait", "kill", "drain"} /\ UNCHANGED returned
  BY <1>3
<1>4. CASE Save
  <2>1. returned' = "ok" => ~Rejected
    BY <1>4 DEF Save
  <2>2. UNCHANGED <<allowed, status, startErr, streamErr, timedOut>>
    BY <1>4 DEF Save
  <2>3. rows'[Len(rows')] = [code |-> status, timedOut |-> timedOut]
    BY <1>4, RowSaved
  <2>4. QED
    BY <2>1, <2>2, <2>3 DEF Rejected
<1>5. ASSUME NEW p \in Procs, End(p) PROVE AcceptInv'
  BY <1>5 DEF End
<1>6. QED
  BY <1>1, <1>2, <1>3, <1>4, <1>5, Steps
  DEF vars, StartFails, Start, Deadline, Exited, DrainTimeout, DrainEnds, Ended, Drain, Copy,
      CopyEnds, Write, Close, Fork
-----------------------------------------------------------------------------
LEMMA InvStep == Inv /\ [Next]_vars => Inv'
BY TypeStep, PhaseStep, GroupStep, StreamStep, LedgerStep, AcceptStep DEF Inv

LEMMA Invariance == Spec => []Inv
BY InitInv, InvStep, PTL DEF Spec

\* The variables keep their types.
THEOREM CommandTypes == Spec => []TypeOK
BY Invariance, PTL DEF Inv

\* Output that counts as evidence is all there is: the process ended by itself
\* in an allowed way, and nothing can add to what was copied.
THEOREM EvidenceIsComplete == Spec => []AcceptedIsComplete
<1>1. Inv => AcceptedIsComplete
  BY DEF Inv, AcceptInv, PhaseInv, StreamInv, Complete, AcceptedIsComplete
<1>2. QED
  BY <1>1, Invariance, PTL

\* run returns when both copiers have ended and, after an execution timeout,
\* every member of the group was killed.
THEOREM NothingOutlivesRun == Spec => []NothingRunsOn
<1>1. Inv => NothingRunsOn
  BY DEF Inv, GroupInv, StreamInv, NothingRunsOn
<1>2. QED
  BY <1>1, Invariance, PTL

\* Every command that returns without a write error has left its row, and
\* both outputs.
THEOREM EvidenceStays == Spec => []EvidenceIsRetained
<1>1. Inv => EvidenceIsRetained
  BY DEF Inv, LedgerInv, Counted, EvidenceIsRetained
<1>2. QED
  BY <1>1, Invariance, PTL
=============================================================================
