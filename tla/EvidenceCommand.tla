--------------------------- MODULE EvidenceCommand ---------------------------
(***************************************************************************)
(* Commands.run of .github/scripts/verify-diagnostics.go: a command in a   *)
(* process group of its own, its two output pipes read by a goroutine      *)
(* each, a deadline for the process and another one for draining the       *)
(* pipes, and the evidence that is written whatever happened.  The caller  *)
(* runs one command after the other and stops at the first error.          *)
(*                                                                         *)
(* A command is Child and the processes it may leave behind: the rest of   *)
(* Group share its process group, the others left it (setsid).  They hold  *)
(* the write ends of the pipes they inherited until they close them or     *)
(* end, and nothing makes them end but a signal.                           *)
(***************************************************************************)
EXTENDS Integers, Sequences

CONSTANTS Procs, Child, Group,
          NumCommands,   \* commands the caller runs
          AllowedSets,   \* the exit codes a caller may allow
          Codes,         \* exit codes a process may have
          MaxBytes,      \* output of one stream, in writes
          Capacity       \* of a pipe, in writes

Streams == {"stdout", "stderr"}
Signalled == -9          \* the row's code after SIGKILL
NotStarted == 1          \* the row's code when the command did not start

ASSUME CommandAssumption == /\ Child \in Group
                            /\ Group \subseteq Procs
                            /\ NumCommands \in Nat
                            /\ Codes \subseteq Nat
                            /\ \A codes \in AllowedSets : codes \subseteq Nat
                            /\ MaxBytes \in Nat
                            /\ Capacity \in Nat \ {0}

VARIABLES main,       \* "idle", "start", "wait", "kill", "drain", "save" or "stopped"
          begun,      \* commands begun
          allowed,    \* exit codes the caller allows
          alive,      \* processes of this command
          doomed,     \* those a SIGKILL was sent to
          status,     \* the exit status of Child
          holders,    \* processes that hold the write end of each pipe
          written,    \* bytes written to each pipe
          copied,     \* bytes in each buffer
          open,       \* the read ends are open
          copier,     \* each copying goroutine, and what it sent to drained
          timer,      \* the drain timer: "off", "running" or "fired"
          expired,    \* the deadline of the process passed
          timedOut, startErr, streamErr,
          rows,       \* c.rows
          files,      \* output files written: <<command, stream>>
          logged,     \* rows in commands.json
          returned    \* "ok", "failed" or "write", "none" while it runs

procs == <<alive, doomed, status, holders, written>>
pipes == <<copied, open, copier>>
errors == <<expired, timedOut, startErr, streamErr>>
evidence == <<rows, files, logged, returned>>
vars == <<main, begun, allowed, procs, pipes, timer, errors, evidence>>

Statuses == Codes \cup {Signalled, NotStarted}
Rows == [code : Statuses, timedOut : BOOLEAN]

TypeOK == /\ main \in {"idle", "start", "wait", "kill", "drain", "save", "stopped"}
          /\ begun \in 0..NumCommands
          /\ allowed \in AllowedSets
          /\ alive \subseteq Procs
          /\ doomed \subseteq Group
          /\ status \in Statuses
          /\ holders \in [Streams -> SUBSET Procs]
          /\ written \in [Streams -> 0..MaxBytes]
          /\ copied \in [Streams -> 0..MaxBytes]
          /\ open \in BOOLEAN
          /\ copier \in [Streams -> {"off", "copying", "eof", "closed", "received"}]
          /\ timer \in {"off", "running", "fired"}
          /\ expired \in BOOLEAN /\ timedOut \in BOOLEAN
          /\ startErr \in BOOLEAN /\ streamErr \in BOOLEAN
          /\ rows \in Seq(Rows)
          /\ files \subseteq (1..NumCommands) \X Streams
          /\ logged \in 0..NumCommands
          /\ returned \in {"none", "ok", "failed", "write"}

Init == /\ main = "idle"
        /\ begun = 0
        /\ allowed \in AllowedSets
        /\ rows = <<>>
        /\ files = {}
        /\ logged = 0
        /\ alive = {}
        /\ doomed = {}
        /\ status = NotStarted
        /\ holders = [s \in Streams |-> {}]
        /\ written = [s \in Streams |-> 0]
        /\ copied = [s \in Streams |-> 0]
        /\ open = TRUE
        /\ copier = [s \in Streams |-> "off"]
        /\ timer = "off"
        /\ expired = FALSE
        /\ timedOut = FALSE
        /\ startErr = FALSE
        /\ streamErr = FALSE
        /\ returned = "none"
-----------------------------------------------------------------------------
\* The caller runs the next command.  What is left of the one before has
\* pipes of its own.
Begin == /\ main = "idle"
         /\ begun < NumCommands
         /\ main' = "start"
         /\ begun' = begun + 1
         /\ allowed' \in AllowedSets
         /\ alive' = {}
         /\ doomed' = {}
         /\ status' = NotStarted
         /\ holders' = [s \in Streams |-> {}]
         /\ written' = [s \in Streams |-> 0]
         /\ copied' = [s \in Streams |-> 0]
         /\ open' = TRUE
         /\ copier' = [s \in Streams |-> "off"]
         /\ timer' = "off"
         /\ expired' = FALSE
         /\ timedOut' = FALSE
         /\ startErr' = FALSE
         /\ streamErr' = FALSE
         /\ returned' = "none"
         /\ UNCHANGED <<rows, files, logged>>

\* os.Pipe or cmd.Start fails.
StartFails == /\ main = "start"
              /\ main' = "save"
              /\ startErr' = TRUE
              /\ UNCHANGED <<begun, allowed, procs, pipes, timer, expired, timedOut,
                             streamErr, evidence>>

\* cmd.Start; the parent closes its write ends and copies what comes.
Start == /\ main = "start"
         /\ main' = "wait"
         /\ alive' = {Child}
         /\ holders' = [s \in Streams |-> {Child}]
         /\ copier' = [s \in Streams |-> "copying"]
         /\ UNCHANGED <<begun, allowed, doomed, status, written, copied, open, timer, errors,
                        evidence>>

\* Mutant: the process is killed, not its group.
Victims_Child == {Child}

\* kill(-pid): the members of the group, as one step for a fork among them.
Victims == Group

\* The deadline passes first; an exit that is ready too may lose the select.
Deadline == /\ main = "wait"
            /\ main' = "kill"
            /\ expired' = TRUE
            /\ timedOut' = TRUE
            /\ doomed' = alive \cap Victims
            /\ UNCHANGED <<begun, allowed, alive, status, holders, written, pipes, timer,
                           startErr, streamErr, evidence>>

\* cmd.Wait returns, with or without a kill, and the drain timer starts.
Exited == /\ main \in {"wait", "kill"}
          /\ Child \notin alive
          /\ main' = "drain"
          /\ timer' = "running"
          /\ UNCHANGED <<begun, allowed, procs, pipes, errors, evidence>>

\* One of the copiers has sent its result.
Drain(s) == /\ main = "drain"
            /\ copier[s] \in {"eof", "closed"}
            /\ copier' = [copier EXCEPT ![s] = "received"]
            /\ streamErr' = (streamErr \/ copier[s] = "closed")
            /\ UNCHANGED <<main, begun, allowed, procs, copied, open, timer, expired, timedOut,
                           startErr, evidence>>

\* Mutant: the loop ends at the timeout.
Drained_OnTimeout == timer = "fired" \/ \A s \in Streams : copier[s] = "received"

Drained == \A s \in Streams : copier[s] = "received"

\* Mutant: the read ends stay open.
DrainTimeout_KeepsPipes == /\ main = "drain"
                           /\ ~Drained
                           /\ timer = "running"
                           /\ timer' = "fired"
                           /\ timedOut' = TRUE
                           /\ UNCHANGED <<begun, allowed, main, procs, pipes, expired,
                                          startErr, streamErr, evidence>>

\* Somebody still holds a pipe: the read ends are closed under the copiers,
\* and the loop goes on until both have answered.
DrainTimeout == /\ main = "drain"
                /\ ~Drained
                /\ timer = "running"
                /\ timer' = "fired"
                /\ timedOut' = TRUE
                /\ open' = FALSE
                /\ UNCHANGED <<begun, allowed, main, procs, copied, copier, expired, startErr,
                               streamErr, evidence>>

DrainEnds == /\ main = "drain"
             /\ Drained
             /\ main' = "save"
             /\ UNCHANGED <<begun, allowed, procs, pipes, timer, errors, evidence>>

\* Mutant: only the exit code decides.
Rejected_CodeOnly == status \notin allowed

Rejected == startErr \/ streamErr \/ timedOut \/ status \notin allowed

\* Mutant: only accepted commands get a row.
WithRow_Accepted == IF Rejected THEN rows
                    ELSE Append(rows, [code |-> status, timedOut |-> timedOut])

WithRow == Append(rows, [code |-> status, timedOut |-> timedOut])

\* Both outputs and the list of rows are written; each write may fail, and
\* any failure is an error of its own.  Then the read ends are closed.
Save == /\ main = "save"
        /\ rows' = WithRow
        /\ \E done \in SUBSET (Streams \cup {"log"}) :
             /\ files' = files \cup ({begun} \X (done \cap Streams))
             /\ logged' = IF "log" \in done THEN Len(rows') ELSE logged
             /\ returned' = IF done # Streams \cup {"log"} THEN "write"
                            ELSE IF Rejected THEN "failed" ELSE "ok"
        /\ main' = IF returned' = "ok" THEN "idle" ELSE "stopped"
        /\ open' = FALSE
        /\ UNCHANGED <<begun, allowed, procs, copied, copier, timer, errors>>

Run == \/ Begin \/ StartFails \/ Start \/ Deadline \/ Exited \/ DrainTimeout \/ DrainEnds \/ Save
       \/ \E s \in Streams : Drain(s)
-----------------------------------------------------------------------------
\* Mutant: what is not there is read.
HasData_Always(s) == TRUE

HasData(s) == copied[s] < written[s]

\* io.Copy of one stream.
Copy(s) == /\ copier[s] = "copying"
           /\ open
           /\ HasData(s)
           /\ copied' = [copied EXCEPT ![s] = @ + 1]
           /\ UNCHANGED <<main, begun, allowed, procs, open, copier, timer, errors, evidence>>

\* Nobody holds the write end and all was read, or the read end was closed.
CopyEnds(s) ==
  /\ copier[s] = "copying"
  /\ \/ /\ open /\ holders[s] = {} /\ copied[s] = written[s]
        /\ copier' = [copier EXCEPT ![s] = "eof"]
     \/ /\ ~open
        /\ copier' = [copier EXCEPT ![s] = "closed"]
  /\ UNCHANGED <<main, begun, allowed, procs, copied, open, timer, errors, evidence>>

Copying(s) == Copy(s) \/ CopyEnds(s)
-----------------------------------------------------------------------------
Runs(p) == p \in alive \ doomed

\* A write blocks while the pipe is full.
Write(p, s) == /\ Runs(p)
               /\ p \in holders[s]
               /\ open
               /\ written[s] < MaxBytes
               /\ written[s] - copied[s] < Capacity
               /\ written' = [written EXCEPT ![s] = @ + 1]
               /\ UNCHANGED <<main, begun, allowed, alive, doomed, status, holders, pipes,
                              timer, errors, evidence>>

\* A fork inherits the pipes; only a member of the group forks another one.
Fork(p, q) == /\ Runs(p)
              /\ q \in Procs \ ({Child} \cup alive)
              /\ q \in Group => p \in Group
              /\ alive' = alive \cup {q}
              /\ holders' = [s \in Streams |-> IF p \in holders[s] THEN holders[s] \cup {q}
                                               ELSE holders[s]]
              /\ UNCHANGED <<main, begun, allowed, doomed, status, written, pipes, timer,
                             errors, evidence>>

Close(p, s) == /\ Runs(p)
               /\ p \in holders[s]
               /\ holders' = [holders EXCEPT ![s] = @ \ {p}]
               /\ UNCHANGED <<main, begun, allowed, alive, doomed, status, written, pipes,
                              timer, errors, evidence>>

\* A process ends by itself, or because of the signal.
End(p) == /\ p \in alive
          /\ alive' = alive \ {p}
          /\ doomed' = doomed \ {p}
          /\ holders' = [s \in Streams |-> holders[s] \ {p}]
          /\ IF p # Child THEN UNCHANGED status
             ELSE status' \in IF p \in doomed THEN {Signalled} ELSE Codes \cup {Signalled}
          /\ UNCHANGED <<main, begun, allowed, written, pipes, timer, errors, evidence>>

Dies(p) == p \in doomed /\ End(p)

Process(p) == \/ End(p)
              \/ \E s \in Streams : Write(p, s) \/ Close(p, s)
              \/ \E q \in Procs : Fork(p, q)

Ended == (main = "stopped" \/ (main = "idle" /\ begun = NumCommands)) /\ UNCHANGED vars

Next == \/ Run
        \/ \E s \in Streams : Copying(s)
        \/ \E p \in Procs : Process(p)
        \/ Ended

Spec == Init /\ [][Next]_vars
\* Goroutines run, timers fire and a SIGKILL ends a process.  A process need
\* not end, write or close anything.
FairSpec == /\ Spec
            /\ WF_vars(Run)
            /\ \A s \in Streams : WF_vars(Copying(s))
            /\ \A p \in Procs : WF_vars(Dies(p))
-----------------------------------------------------------------------------
\* Output that counts as evidence is all there is: the process ran, ended by
\* itself in an allowed way, its row says so, and no process can add to what
\* was copied of either stream.
AcceptedIsComplete ==
  returned = "ok" => /\ ~startErr /\ ~expired
                     /\ status \in allowed
                     /\ rows[Len(rows)] = [code |-> status, timedOut |-> FALSE]
                     /\ \A s \in Streams : holders[s] = {} /\ copied[s] = written[s]

\* run returns with nothing of its own at work: no goroutine still fills the
\* buffers it hands out, and after an execution timeout every member of the
\* group is dead or dying (docs/project/diagnostic-diff.md:40).
NothingRunsOn ==
  returned # "none" => /\ \A s \in Streams : copier[s] # "copying"
                       /\ expired => alive \cap Group \subseteq doomed

\* A command leaves its row and both outputs, however it ended, unless the
\* error it returns says that they could not be written.
EvidenceIsRetained ==
  returned \in {"ok", "failed"} => /\ Len(rows) = begun
                                   /\ logged = begun
                                   /\ files = (1..begun) \X Streams

\* Every command returns, also when a process it started never ends, keeps
\* a pipe open or fills it.
EveryCommandReturns == (main = "start") ~> (returned # "none")
=============================================================================
