------------------------------ MODULE RWMutex ------------------------------
(***************************************************************************)
(* Go's sync.RWMutex as internal/parse uses it (the package is outside the *)
(* repository).  RLock and RUnlock are counts, owned by nobody: the count  *)
(* of a caller that never unlocks stays.  Lock is two steps: the writer    *)
(* first announces itself, which shuts new readers out, then waits until   *)
(* the readers it found have left.  Unlock admits every reader that queued *)
(* behind the writer before the next writer can announce itself.           *)
(***************************************************************************)
EXTENDS Naturals

CONSTANTS Callers,      \* the goroutines that use the lock
          NoCaller      \* "no writer"

ASSUME NoCallerAssumption == NoCaller \notin Callers

VARIABLES readers,      \* readers[c]: read locks c has taken and not released
          writer,       \* the announced writer, waiting for readers or active
          rwait         \* readers parked behind the announced writer

lockVars == <<readers, writer, rwait>>

LockTypeOK == /\ readers \in [Callers -> Nat]
              /\ writer \in Callers \cup {NoCaller}
              /\ rwait \in SUBSET Callers

LockInit == /\ readers = [c \in Callers |-> 0]
            /\ writer = NoCaller
            /\ rwait = {}

\* RLock with no writer in sight: the reader enters.
RLock(c) == /\ writer = NoCaller
            /\ readers' = [readers EXCEPT ![c] = @ + 1]
            /\ UNCHANGED <<writer, rwait>>

\* RLock behind a writer: the reader parks; the writer's Unlock admits it.
RPark(c) == /\ writer # NoCaller
            /\ rwait' = rwait \cup {c}
            /\ UNCHANGED <<readers, writer>>

RUnlock(c) == /\ readers' = [readers EXCEPT ![c] = @ - 1]
              /\ UNCHANGED <<writer, rwait>>

\* Lock, first half: own the writers' mutex and shut new readers out.
Announce(c) == /\ writer = NoCaller
               /\ writer' = c
               /\ UNCHANGED <<readers, rwait>>

\* Lock, second half: nobody reads any more.
Drained == \A d \in Callers : readers[d] = 0

Unlock(c) == /\ writer' = NoCaller
             /\ readers' = [d \in Callers |->
                              IF d \in rwait THEN readers[d] + 1 ELSE readers[d]]
             /\ rwait' = {}
=============================================================================
