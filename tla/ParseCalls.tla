----------------------------- MODULE ParseCalls -----------------------------
(***************************************************************************)
(* Concurrent calls of internal/parse.Parse.  A call parses its source     *)
(* once with the typed reading of nested assignment targets, under the     *)
(* read lock, and once more with the process-wide setting nestedAssignRaw, *)
(* under the write lock, when the first pass rejected the source and some  *)
(* pass (its own or a concurrent one) counted a typed read meanwhile.      *)
(*                                                                         *)
(* A pass (parseSource) is a sequence of whole-source and fragment parses, *)
(* one per adapter retry; each of them loads the setting when it starts    *)
(* and counts itself in nestedAssignReads when it ends.  What the grammar  *)
(* makes of a source is data: a source is a record of the outcome of each  *)
(* reading and of whether a typed pass meets a nested target at all.       *)
(***************************************************************************)
EXTENDS RWMutex

CONSTANTS Sources,    \* the sources callers parse
          MaxCalls,   \* bound: calls per caller
          MaxTrees    \* bound: tree parses in one pass

Outcomes == {"tree", "error", "panic"}

\* A source without a nested target reads the same both ways.
ASSUME SourcesAssumption ==
  /\ Sources \subseteq [nested : BOOLEAN, typed : Outcomes, raw : Outcomes]
  /\ \A s \in Sources : ~s.nested => s.typed = s.raw
ASSUME BoundsAssumption == MaxCalls \in Nat /\ MaxTrees \in Nat \ {0}

VARIABLES nestedAssignRaw,    \* atomic.Bool
          nestedAssignReads,  \* atomic.Int64
          pc,                 \* where each caller is in Parse
          src,                \* the source of its current or last call
          reads,              \* its local copy of nestedAssignReads
          setting,            \* the setting its current tree parse loaded
          seen,               \* settings the tree parses of this pass loaded
          trees,              \* tree parses begun in this pass
          hit,                \* a tree parse of this pass counted a typed read
          result,             \* what its current pass, then its last call, returned
          calls               \* calls begun

callVars == <<src, calls>>
passVars == <<setting, seen, trees, hit>>
vars == <<nestedAssignRaw, nestedAssignReads, pc, src, reads, setting, seen,
          trees, hit, result, calls, lockVars>>

PCs == {"idle", "load", "rlock", "parked", "typed", "typedTree", "runlock",
        "check", "lock", "drain", "store", "raw", "rawTree", "clear", "unlock"}

TypeOK == /\ LockTypeOK
          /\ nestedAssignRaw \in BOOLEAN
          /\ nestedAssignReads \in Nat
          /\ pc \in [Callers -> PCs]
          /\ src \in [Callers -> Sources]
          /\ reads \in [Callers -> Nat]
          /\ setting \in [Callers -> BOOLEAN]
          /\ seen \in [Callers -> SUBSET BOOLEAN]
          /\ trees \in [Callers -> 0..MaxTrees]
          /\ hit \in [Callers -> BOOLEAN]
          /\ result \in [Callers -> Outcomes \cup {"none"}]
          /\ calls \in [Callers -> 0..MaxCalls]

Init == /\ LockInit
        /\ nestedAssignRaw = FALSE
        /\ nestedAssignReads = 0
        /\ pc = [c \in Callers |-> "idle"]
        /\ src \in [Callers -> Sources]
        /\ reads = [c \in Callers |-> 0]
        /\ setting = [c \in Callers |-> FALSE]
        /\ seen = [c \in Callers |-> {}]
        /\ trees = [c \in Callers |-> 0]
        /\ hit = [c \in Callers |-> FALSE]
        /\ result = [c \in Callers |-> "none"]
        /\ calls = [c \in Callers |-> 0]

-----------------------------------------------------------------------------
Goto(c, l) == pc' = [pc EXCEPT ![c] = l]

StartPass(c) == /\ seen' = [seen EXCEPT ![c] = {}]
                /\ trees' = [trees EXCEPT ![c] = 0]
                /\ hit' = [hit EXCEPT ![c] = FALSE]
                /\ UNCHANGED setting

\* Parse is entered; io.ReadAll has read the source.
Call(c) == /\ pc[c] = "idle"
           /\ calls[c] < MaxCalls
           /\ calls' = [calls EXCEPT ![c] = @ + 1]
           /\ \E s \in Sources : src' = [src EXCEPT ![c] = s]
           /\ result' = [result EXCEPT ![c] = "none"]
           /\ Goto(c, "load")
           /\ UNCHANGED <<nestedAssignRaw, nestedAssignReads, reads, passVars, lockVars>>

LoadReads(c) == /\ pc[c] = "load"
                /\ reads' = [reads EXCEPT ![c] = nestedAssignReads]
                /\ Goto(c, "rlock")
                /\ UNCHANGED <<nestedAssignRaw, nestedAssignReads, callVars, passVars,
                               result, lockVars>>

\* nestedAssignMu.RLock(): enter the typed pass, or park behind a writer.
EnterTyped(c) == /\ pc[c] = "rlock"
                 /\ \/ RLock(c) /\ Goto(c, "typed")
                    \/ RPark(c) /\ Goto(c, "parked")
                 /\ StartPass(c)
                 /\ UNCHANGED <<nestedAssignRaw, nestedAssignReads, callVars, reads, result>>

\* A parked reader runs again once a writer's Unlock has admitted it.
Wake(c) == /\ pc[c] = "parked"
           /\ c \notin rwait
           /\ Goto(c, "typed")
           /\ UNCHANGED <<nestedAssignRaw, nestedAssignReads, callVars, reads, passVars,
                          result, lockVars>>

\* parseTree (or a fragment parse): the parser is built with the setting loaded now.
BeginTree(c) == /\ \/ pc[c] = "typed" /\ Goto(c, "typedTree")
                   \/ pc[c] = "raw" /\ Goto(c, "rawTree")
                /\ trees[c] < MaxTrees
                /\ trees' = [trees EXCEPT ![c] = @ + 1]
                /\ setting' = [setting EXCEPT ![c] = nestedAssignRaw]
                /\ seen' = [seen EXCEPT ![c] = @ \cup {nestedAssignRaw}]
                /\ UNCHANGED <<nestedAssignRaw, nestedAssignReads, callVars, reads, hit,
                               result, lockVars>>

\* The parser returns; it has read a nested target the typed way only when the
\* source has one and the setting it loaded asked for it.  A masked retry may
\* hide the target; some tree parse of the pass meets it.
EndTree(c) == /\ \/ pc[c] = "typedTree" /\ Goto(c, "typed")
                 \/ pc[c] = "rawTree" /\ Goto(c, "raw")
              /\ \E h \in BOOLEAN :
                   /\ h => src[c].nested /\ ~setting[c]
                   /\ trees[c] = MaxTrees /\ src[c].nested /\ ~setting[c] => h \/ hit[c]
                   /\ hit' = [hit EXCEPT ![c] = @ \/ h]
                   /\ nestedAssignReads' = IF h THEN nestedAssignReads + 1
                                                ELSE nestedAssignReads
              /\ UNCHANGED <<nestedAssignRaw, callVars, reads, setting, seen, trees,
                             result, lockVars>>

\* What parseSource can return: the outcome of the reading its tree parses
\* used, and anything when they used both.
PassOutcomes(c) == IF seen[c] = {FALSE} THEN {src[c].typed}
                   ELSE IF seen[c] = {TRUE} THEN {src[c].raw}
                   ELSE {"tree", "error"}

PassDone(c) == /\ trees[c] > 0
               /\ src[c].nested /\ seen[c] = {FALSE} => hit[c]

\* parseSource returns a tree or an error from the typed pass.
EndTyped(c) == /\ pc[c] = "typed"
               /\ PassDone(c)
               /\ \E r \in PassOutcomes(c) \ {"panic"} : result' = [result EXCEPT ![c] = r]
               /\ Goto(c, "runlock")
               /\ UNCHANGED <<nestedAssignRaw, nestedAssignReads, callVars, reads, passVars,
                              lockVars>>

\* A panic in the typed pass unwinds through Parse to a caller that recovers
\* it (survey's BuildVerdict).  RUnlock is not deferred: it does not run.
PanicTyped(c) == /\ pc[c] = "typed"
                 /\ PassDone(c)
                 /\ "panic" \in PassOutcomes(c)
                 /\ result' = [result EXCEPT ![c] = "panic"]
                 /\ Goto(c, "idle")
                 /\ UNCHANGED <<nestedAssignRaw, nestedAssignReads, callVars, reads,
                                passVars, lockVars>>

LeaveTyped(c) == /\ pc[c] = "runlock"
                 /\ RUnlock(c)
                 /\ Goto(c, "check")
                 /\ UNCHANGED <<nestedAssignRaw, nestedAssignReads, callVars, reads,
                                passVars, result>>

\* err == nil || nestedAssignReads.Load() == reads
Settled(c) == result[c] = "tree" \/ nestedAssignReads = reads[c]

\* Mutant: the setting is stored before the lock is taken.
Check_StoreFirst(c) ==
  /\ pc[c] = "check"
  /\ Goto(c, IF Settled(c) THEN "idle" ELSE "lock")
  /\ nestedAssignRaw' = ~Settled(c)
  /\ UNCHANGED <<nestedAssignReads, callVars, reads, passVars, result, lockVars>>

Check(c) == /\ pc[c] = "check"
            /\ Goto(c, IF Settled(c) THEN "idle" ELSE "lock")
            /\ UNCHANGED <<nestedAssignRaw, nestedAssignReads, callVars, reads, passVars,
                           result, lockVars>>

\* nestedAssignMu.Lock()
AnnounceRaw(c) == /\ pc[c] = "lock"
                  /\ Announce(c)
                  /\ Goto(c, "drain")
                  /\ UNCHANGED <<nestedAssignRaw, nestedAssignReads, callVars, reads,
                                 passVars, result>>

EnterRaw(c) == /\ pc[c] = "drain"
               /\ Drained
               /\ Goto(c, "store")
               /\ UNCHANGED <<nestedAssignRaw, nestedAssignReads, callVars, reads, passVars,
                              result, lockVars>>

\* Mutant: the second pass runs without the setting.
StoreRaw_Missing(c) ==
  /\ pc[c] = "store"
  /\ StartPass(c)
  /\ Goto(c, "raw")
  /\ UNCHANGED <<nestedAssignRaw, nestedAssignReads, callVars, reads, result, lockVars>>

StoreRaw(c) == /\ pc[c] = "store"
               /\ nestedAssignRaw' = TRUE
               /\ StartPass(c)
               /\ Goto(c, "raw")
               /\ UNCHANGED <<nestedAssignReads, callVars, reads, result, lockVars>>

\* Mutant: the raw pass is repeated while it rejects the source.
EndRaw_Retry(c) ==
  /\ pc[c] = "raw"
  /\ PassDone(c)
  /\ \E r \in PassOutcomes(c) : /\ result' = [result EXCEPT ![c] = r]
                               /\ Goto(c, IF r = "error" THEN "store" ELSE "clear")
  /\ UNCHANGED <<nestedAssignRaw, nestedAssignReads, callVars, reads, passVars, lockVars>>

\* The raw pass returns or panics: both run the two deferred calls.
EndRaw(c) == /\ pc[c] = "raw"
             /\ PassDone(c)
             /\ \E r \in PassOutcomes(c) : result' = [result EXCEPT ![c] = r]
             /\ Goto(c, "clear")
             /\ UNCHANGED <<nestedAssignRaw, nestedAssignReads, callVars, reads, passVars,
                            lockVars>>

\* Mutant: the reset of the setting is missing.
ClearRaw_Missing(c) ==
  /\ pc[c] = "clear"
  /\ Goto(c, "unlock")
  /\ UNCHANGED <<nestedAssignRaw, nestedAssignReads, callVars, reads, passVars, result,
                 lockVars>>

\* Deferred calls run last in, first out: Store(false), then Unlock.
ClearRaw(c) == /\ pc[c] = "clear"
               /\ nestedAssignRaw' = FALSE
               /\ Goto(c, "unlock")
               /\ UNCHANGED <<nestedAssignReads, callVars, reads, passVars, result, lockVars>>

\* Mutant: the deferred call releases the wrong side of the lock.
LeaveRaw_WrongSide(c) ==
  /\ pc[c] = "unlock"
  /\ RUnlock(c)
  /\ Goto(c, "idle")
  /\ UNCHANGED <<nestedAssignRaw, nestedAssignReads, callVars, reads, passVars, result>>

LeaveRaw(c) == /\ pc[c] = "unlock"
               /\ Unlock(c)
               /\ Goto(c, "idle")
               /\ UNCHANGED <<nestedAssignRaw, nestedAssignReads, callVars, reads, passVars,
                              result>>

\* One step of the code of Parse, once a call has begun.
Step(c) == \/ LoadReads(c) \/ EnterTyped(c) \/ Wake(c) \/ BeginTree(c) \/ EndTree(c)
           \/ EndTyped(c) \/ PanicTyped(c) \/ LeaveTyped(c) \/ Check(c)
           \/ AnnounceRaw(c) \/ EnterRaw(c) \/ StoreRaw(c) \/ EndRaw(c) \/ ClearRaw(c)
           \/ LeaveRaw(c)

\* Every caller has made its MaxCalls calls.
Finished == /\ \A c \in Callers : pc[c] = "idle" /\ calls[c] = MaxCalls
            /\ UNCHANGED vars

Next == (\E c \in Callers : Call(c) \/ Step(c)) \/ Finished

Spec == Init /\ [][Next]_vars

\* Goroutines are scheduled; an adapter chain is finite; a goroutine that waits
\* for a mutex others keep taking gets it (sync.Mutex hands over to a starving
\* waiter), hence strong fairness for the announcement.
Fairness == \A c \in Callers : /\ WF_vars(Step(c))
                               /\ SF_vars(AnnounceRaw(c))
FairSpec == Spec /\ Fairness
-----------------------------------------------------------------------------
InTyped(c) == pc[c] \in {"typed", "typedTree"}
InRaw(c) == pc[c] \in {"raw", "rawTree"}

\* A pass is read one way throughout: a concurrent call never flips the
\* reading of a pass that is under way (parse.go:101).
OneReading == \A c \in Callers : /\ InTyped(c) => seen[c] \subseteq {FALSE}
                                 /\ InRaw(c) => seen[c] \subseteq {TRUE}

\* Between calls nothing is left behind: the setting is off and the lock free,
\* but for the read lock of a caller whose source made the typed pass panic.
CleanWhenQuiet == (\A c \in Callers : pc[c] = "idle") =>
                    /\ ~nestedAssignRaw
                    /\ writer = NoCaller
                    /\ \A c \in Callers : readers[c] = 0 \/ src[c].typed = "panic"

\* Concurrent calls answer as if each ran alone on its source (parse.go:97-105).
Contract == INSTANCE ParseContract
              WITH pending <- [c \in Callers |-> pc[c] # "idle"],
                   asked <- src,
                   answer <- [c \in Callers |-> IF pc[c] = "idle" THEN result[c] ELSE "none"]
ImplementsContract == Contract!Spec

\* Every call of Parse returns.
EveryCallReturns == \A c \in Callers : pc[c] # "idle" ~> pc[c] = "idle"

\* Nothing but the read lock that a panic left behind (parse.go:134-136) keeps a
\* call from returning: not a parked reader, not a waiting writer, and not a
\* panic in the raw pass, which gives its lock back.
OnlyALeakBlocks ==
  \A c \in Callers :
    pc[c] # "idle" ~> \/ pc[c] = "idle"
                      \/ \E d \in Callers : pc[d] = "idle" /\ readers[d] > 0
=============================================================================
