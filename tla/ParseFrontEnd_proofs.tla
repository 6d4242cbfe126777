------------------------- MODULE ParseFrontEnd_proofs -------------------------
(***************************************************************************)
(* Proofs about the front end of internal/parse: ParseCalls for any set of *)
(* callers and sources and any bounds, then AdapterChain for any set of    *)
(* goroutines and any files.                                               *)
(*                                                                         *)
(* Of ParseCalls, IInv is the inductive invariant: who may hold which side *)
(* of the lock where, which settings a pass has loaded, why a caller that  *)
(* counted a typed read finds the counter changed, and what the result of  *)
(* a pass is at each later point of the call.                              *)
(*                                                                         *)
(* Of AdapterChain it is ChainInv: an error is at a site of the level that *)
(* got it, the edits of an adapter are not masked yet where they are made, *)
(* a level called by another is over its sites under its mask and edits,   *)
(* and the nesting counts the levels of every stack.                       *)
(***************************************************************************)
EXTENDS ParseCalls, AdapterChain, SequenceFacts, TLAPS

TypedPass == {"typed", "typedTree", "runlock"}
WriteSide == {"drain", "store", "raw", "rawTree", "clear", "unlock"}
Exclusive == WriteSide \ {"drain"}

\* Writers: one at a time, and the announced caller is on the write side.
WriterInv == /\ \A c \in Callers : pc[c] \in WriteSide <=> writer = c
             /\ \A c \in rwait : pc[c] = "parked" /\ writer # NoCaller

\* Readers: a typed pass is covered by a read lock, the raw pass by none.
ReaderInv == /\ \A c \in Callers : pc[c] \in TypedPass => readers[c] > 0
             /\ \A c \in Callers : pc[c] = "parked" /\ c \notin rwait => readers[c] > 0
             /\ \A c, d \in Callers : pc[c] \in Exclusive => readers[d] = 0

\* The setting is on exactly while the caller in its raw pass has it on.
SettingInv == /\ \A c \in Callers : pc[c] \in {"raw", "rawTree", "clear"} => nestedAssignRaw
              /\ nestedAssignRaw =>
                   \E c \in Callers : pc[c] \in {"raw", "rawTree", "clear"}

\* Every tree parse of a pass has loaded the setting of that pass.
SeenInv == \A c \in Callers :
             /\ InTyped(c) => seen[c] \subseteq {FALSE}
             /\ InRaw(c) => seen[c] \subseteq {TRUE}
             /\ InTyped(c) \/ InRaw(c) => (trees[c] > 0 => seen[c] # {})
             /\ pc[c] = "typedTree" => FALSE \in seen[c] /\ ~setting[c]
             /\ pc[c] = "rawTree" => TRUE \in seen[c] /\ setting[c]
             /\ pc[c] = "parked" => seen[c] = {} /\ trees[c] = 0 /\ ~hit[c]

\* The counter never falls, and it rose since the caller's snapshot when the
\* caller's own typed pass met a nested target.
CountInv == \A c \in Callers :
              /\ pc[c] \notin {"idle", "load"} => reads[c] <= nestedAssignReads
              /\ pc[c] \in TypedPass \cup {"check"} /\ hit[c] => reads[c] < nestedAssignReads

\* What is known of the result at each point of the call.
ResultInv == \A c \in Callers :
               /\ pc[c] \in {"runlock", "check"} =>
                    /\ result[c] = src[c].typed
                    /\ result[c] # "panic"
                    /\ src[c].nested => hit[c]
               /\ pc[c] \in {"lock"} \cup WriteSide => src[c].typed = "error"
               /\ pc[c] \in {"clear", "unlock"} => result[c] = src[c].raw
               /\ pc[c] = "idle" => result[c] \in {"none", Contract!Verdict(src[c])}

IInv == TypeOK /\ WriterInv /\ ReaderInv /\ SettingInv /\ SeenInv /\ CountInv /\ ResultInv

USE DEF PCs, Outcomes, callVars, passVars, lockVars

\* A non-empty set with no element but x.
LEMMA Singleton == ASSUME NEW S, NEW x, S # {}, S \subseteq {x} PROVE S = {x}
OBVIOUS

\* The initial states satisfy the inductive invariant.
LEMMA InitInv == Init => IInv
<1> SUFFICES ASSUME Init PROVE IInv
  OBVIOUS
<1> USE SourcesAssumption, BoundsAssumption, NoCallerAssumption DEF Init, LockInit
<1>1. TypeOK
  <2>1. LockTypeOK
    BY DEF LockTypeOK
  <2>2. /\ trees \in [Callers -> 0..MaxTrees]
        /\ calls \in [Callers -> 0..MaxCalls]
    OBVIOUS
  <2>3. seen \in [Callers -> SUBSET BOOLEAN]
    OBVIOUS
  <2> QED
    BY <2>1, <2>2, <2>3 DEF TypeOK
<1>2. WriterInv
  BY DEF WriterInv, WriteSide
<1>3. ReaderInv
  BY DEF ReaderInv, TypedPass, WriteSide, Exclusive
<1>4. SettingInv
  BY DEF SettingInv
<1>5. SeenInv
  BY DEF SeenInv, InTyped, InRaw
<1>6. CountInv
  BY DEF CountInv, TypedPass
<1>7. ResultInv
  BY DEF ResultInv, WriteSide, Contract!Verdict
<1> QED
  BY <1>1, <1>2, <1>3, <1>4, <1>5, <1>6, <1>7 DEF IInv

\* Every step of a caller preserves the inductive invariant.
LEMMA StepInv == ASSUME IInv, NEW c \in Callers, Call(c) \/ Step(c) PROVE IInv'
<1> USE SourcesAssumption, BoundsAssumption, NoCallerAssumption DEF IInv, Goto
<1>1. CASE Call(c)
  <2> USE <1>1 DEF Call
  <2>1. TypeOK'
    BY DEF LockTypeOK, TypeOK
  <2>2. WriterInv'
    BY DEF LockTypeOK, TypeOK, WriteSide, WriterInv
  <2>3. ReaderInv'
    BY DEF Exclusive, LockTypeOK, ReaderInv, TypeOK, TypedPass, WriteSide
  <2>4. SettingInv'
    BY DEF LockTypeOK, SettingInv, TypeOK
  <2>5. SeenInv'
    BY DEF InRaw, InTyped, LockTypeOK, SeenInv, TypeOK
  <2>6. CountInv'
    BY DEF CountInv, LockTypeOK, TypeOK, TypedPass
  <2>7. ResultInv'
    BY DEF Contract!Verdict, LockTypeOK, ResultInv, TypeOK, WriteSide
  <2> QED
    BY <2>1, <2>2, <2>3, <2>4, <2>5, <2>6, <2>7
<1>2. CASE LoadReads(c)
  <2> USE <1>2 DEF LoadReads
  <2>1. TypeOK'
    BY DEF LockTypeOK, TypeOK
  <2>2. WriterInv'
    BY DEF LockTypeOK, TypeOK, WriteSide, WriterInv
  <2>3. ReaderInv'
    BY DEF Exclusive, LockTypeOK, ReaderInv, TypeOK, TypedPass, WriteSide
  <2>4. SettingInv'
    BY DEF LockTypeOK, SettingInv, TypeOK
  <2>5. SeenInv'
    BY DEF InRaw, InTyped, LockTypeOK, SeenInv, TypeOK
  <2>6. CountInv'
    BY DEF CountInv, LockTypeOK, TypeOK, TypedPass
  <2>7. ResultInv'
    BY DEF Contract!Verdict, LockTypeOK, ResultInv, TypeOK, WriteSide
  <2> QED
    BY <2>1, <2>2, <2>3, <2>4, <2>5, <2>6, <2>7
<1>3. CASE EnterTyped(c)
  <2> USE <1>3 DEF EnterTyped, StartPass, RLock, RPark
  <2>1. TypeOK'
    BY DEF LockTypeOK, TypeOK
  <2>2. WriterInv'
    BY DEF LockTypeOK, TypeOK, WriteSide, WriterInv
  <2>3. ReaderInv'
    <3>1. CASE RLock(c) /\ Goto(c, "typed")
      BY <3>1 DEF RLock, Exclusive, LockTypeOK, ReaderInv, TypeOK, TypedPass, WriteSide, WriterInv
    <3>2. CASE RPark(c) /\ Goto(c, "parked")
      BY <3>2 DEF RPark, Exclusive, LockTypeOK, ReaderInv, TypeOK, TypedPass, WriteSide, WriterInv
    <3> QED
      BY <3>1, <3>2
  <2>4. SettingInv'
    BY DEF LockTypeOK, SettingInv, TypeOK
  <2>5. SeenInv'
    <3> SUFFICES ASSUME NEW d \in Callers
                 PROVE  /\ InTyped(d)' => seen'[d] \subseteq {FALSE}
                        /\ InRaw(d)' => seen'[d] \subseteq {TRUE}
                        /\ InTyped(d)' \/ InRaw(d)' => (trees'[d] > 0 => seen'[d] # {})
                        /\ pc'[d] = "typedTree" => FALSE \in seen'[d] /\ ~setting'[d]
                        /\ pc'[d] = "rawTree" => TRUE \in seen'[d] /\ setting'[d]
                        /\ pc'[d] = "parked" => seen'[d] = {} /\ trees'[d] = 0 /\ ~hit'[d]
      BY DEF SeenInv
    <3>1. CASE d = c
      BY <3>1 DEF InRaw, InTyped, LockTypeOK, SeenInv, TypeOK, ReaderInv, SettingInv, TypedPass, Exclusive, WriteSide
    <3>2. CASE d # c
      BY <3>2 DEF InRaw, InTyped, LockTypeOK, SeenInv, TypeOK
    <3> QED
      BY <3>1, <3>2
  <2>6. CountInv'
    BY DEF CountInv, LockTypeOK, TypeOK, TypedPass
  <2>7. ResultInv'
    BY DEF Contract!Verdict, LockTypeOK, ResultInv, TypeOK, WriteSide
  <2> QED
    BY <2>1, <2>2, <2>3, <2>4, <2>5, <2>6, <2>7
<1>4. CASE Wake(c)
  <2> USE <1>4 DEF Wake
  <2>1. TypeOK'
    BY DEF LockTypeOK, TypeOK
  <2>2. WriterInv'
    BY DEF LockTypeOK, TypeOK, WriteSide, WriterInv
  <2>3. ReaderInv'
    BY DEF Exclusive, LockTypeOK, ReaderInv, TypeOK, TypedPass, WriteSide
  <2>4. SettingInv'
    BY DEF LockTypeOK, SettingInv, TypeOK
  <2>5. SeenInv'
    <3> SUFFICES ASSUME NEW d \in Callers
                 PROVE  /\ InTyped(d)' => seen'[d] \subseteq {FALSE}
                        /\ InRaw(d)' => seen'[d] \subseteq {TRUE}
                        /\ InTyped(d)' \/ InRaw(d)' => (trees'[d] > 0 => seen'[d] # {})
                        /\ pc'[d] = "typedTree" => FALSE \in seen'[d] /\ ~setting'[d]
                        /\ pc'[d] = "rawTree" => TRUE \in seen'[d] /\ setting'[d]
                        /\ pc'[d] = "parked" => seen'[d] = {} /\ trees'[d] = 0 /\ ~hit'[d]
      BY DEF SeenInv
    <3>1. CASE d = c
      <4>1. pc'[d] = "typed" /\ seen'[d] = {} /\ trees'[d] = 0
        BY <3>1 DEF SeenInv, TypeOK
      <4> QED
        BY <4>1 DEF InTyped, InRaw
    <3>2. CASE d # c
      BY <3>2 DEF InRaw, InTyped, LockTypeOK, SeenInv, TypeOK
    <3> QED
      BY <3>1, <3>2
  <2>6. CountInv'
    BY DEF CountInv, LockTypeOK, TypeOK, TypedPass, SeenInv
  <2>7. ResultInv'
    BY DEF Contract!Verdict, LockTypeOK, ResultInv, TypeOK, WriteSide
  <2> QED
    BY <2>1, <2>2, <2>3, <2>4, <2>5, <2>6, <2>7
<1>5. CASE BeginTree(c)
  <2> USE <1>5 DEF BeginTree
  <2>1. TypeOK'
    BY DEF LockTypeOK, TypeOK
  <2>2. WriterInv'
    BY DEF LockTypeOK, TypeOK, WriteSide, WriterInv
  <2>3. ReaderInv'
    BY DEF Exclusive, LockTypeOK, ReaderInv, TypeOK, TypedPass, WriteSide
  <2>4. SettingInv'
    BY DEF LockTypeOK, SettingInv, TypeOK
  <2>5. SeenInv'
    <3> SUFFICES ASSUME NEW d \in Callers
                 PROVE  /\ InTyped(d)' => seen'[d] \subseteq {FALSE}
                        /\ InRaw(d)' => seen'[d] \subseteq {TRUE}
                        /\ InTyped(d)' \/ InRaw(d)' => (trees'[d] > 0 => seen'[d] # {})
                        /\ pc'[d] = "typedTree" => FALSE \in seen'[d] /\ ~setting'[d]
                        /\ pc'[d] = "rawTree" => TRUE \in seen'[d] /\ setting'[d]
                        /\ pc'[d] = "parked" => seen'[d] = {} /\ trees'[d] = 0 /\ ~hit'[d]
      BY DEF SeenInv
    <3>1. CASE d = c
      <4>1. CASE pc[c] = "typed"
        <5>1. ~nestedAssignRaw
          BY <4>1 DEF SettingInv, ReaderInv, TypedPass, Exclusive, WriteSide, TypeOK, LockTypeOK
        <5>2. pc'[d] = "typedTree" /\ seen'[d] = seen[d] \cup {FALSE} /\ ~setting'[d]
          BY <3>1, <4>1, <5>1 DEF TypeOK
        <5> QED
          BY <3>1, <4>1, <5>2 DEF InTyped, InRaw, SeenInv
      <4>2. CASE pc[c] = "raw"
        <5>1. nestedAssignRaw = TRUE
          BY <4>2 DEF SettingInv, TypeOK
        <5>2. pc'[d] = "rawTree" /\ seen'[d] = seen[d] \cup {TRUE} /\ setting'[d]
          BY <3>1, <4>2, <5>1 DEF TypeOK
        <5> QED
          BY <3>1, <4>2, <5>2 DEF InTyped, InRaw, SeenInv
      <4> QED
        BY <4>1, <4>2
    <3>2. CASE d # c
      BY <3>2 DEF InRaw, InTyped, LockTypeOK, SeenInv, TypeOK
    <3> QED
      BY <3>1, <3>2
  <2>6. CountInv'
    BY DEF CountInv, LockTypeOK, TypeOK, TypedPass
  <2>7. ResultInv'
    BY DEF Contract!Verdict, LockTypeOK, ResultInv, TypeOK, WriteSide
  <2> QED
    BY <2>1, <2>2, <2>3, <2>4, <2>5, <2>6, <2>7
<1>6. CASE EndTree(c)
  <2> USE <1>6 DEF EndTree
  <2>1. TypeOK'
    BY DEF LockTypeOK, TypeOK
  <2>2. WriterInv'
    BY DEF LockTypeOK, TypeOK, WriteSide, WriterInv
  <2>3. ReaderInv'
    BY DEF Exclusive, LockTypeOK, ReaderInv, TypeOK, TypedPass, WriteSide
  <2>4. SettingInv'
    BY DEF LockTypeOK, SettingInv, TypeOK
  <2>5. SeenInv'
    <3> SUFFICES ASSUME NEW d \in Callers
                 PROVE  /\ InTyped(d)' => seen'[d] \subseteq {FALSE}
                        /\ InRaw(d)' => seen'[d] \subseteq {TRUE}
                        /\ InTyped(d)' \/ InRaw(d)' => (trees'[d] > 0 => seen'[d] # {})
                        /\ pc'[d] = "typedTree" => FALSE \in seen'[d] /\ ~setting'[d]
                        /\ pc'[d] = "rawTree" => TRUE \in seen'[d] /\ setting'[d]
                        /\ pc'[d] = "parked" => seen'[d] = {} /\ trees'[d] = 0 /\ ~hit'[d]
      BY DEF SeenInv
    <3>1. CASE d = c
      BY <3>1 DEF InRaw, InTyped, LockTypeOK, SeenInv, TypeOK, ReaderInv, SettingInv, TypedPass, Exclusive, WriteSide
    <3>2. CASE d # c
      BY <3>2 DEF InRaw, InTyped, LockTypeOK, SeenInv, TypeOK
    <3> QED
      BY <3>1, <3>2
  <2>6. CountInv'
    BY DEF CountInv, LockTypeOK, TypeOK, TypedPass
  <2>7. ResultInv'
    BY DEF Contract!Verdict, LockTypeOK, ResultInv, TypeOK, WriteSide
  <2> QED
    BY <2>1, <2>2, <2>3, <2>4, <2>5, <2>6, <2>7
<1>7. CASE EndTyped(c)
  <2> USE <1>7 DEF EndTyped, PassOutcomes, PassDone
  <2>0. /\ src[c] \in Sources
        /\ src[c].typed \in Outcomes /\ src[c].raw \in Outcomes
        /\ ~src[c].nested => src[c].typed = src[c].raw
    BY DEF TypeOK
  <2>out. /\ seen[c] = {FALSE}
        /\ result' = [result EXCEPT ![c] = src[c].typed]
    <3>1. seen[c] # {} /\ seen[c] \subseteq {FALSE}
      BY DEF TypeOK, SeenInv, InTyped, InRaw
    <3>2. PassOutcomes(c) = {src[c].typed}
      <4>1. seen[c] = {FALSE}
        BY <3>1, Singleton
      <4> QED
        BY <4>1 DEF PassOutcomes
    <3>3. seen[c] = {FALSE}
      BY <3>1, Singleton
    <3> QED
      BY <3>2, <3>3
  <2>1. TypeOK'
    BY <2>0, <2>out DEF TypeOK, LockTypeOK
  <2>2. WriterInv'
    BY DEF LockTypeOK, TypeOK, WriteSide, WriterInv
  <2>3. ReaderInv'
    BY DEF Exclusive, LockTypeOK, ReaderInv, TypeOK, TypedPass, WriteSide
  <2>4. SettingInv'
    BY DEF LockTypeOK, SettingInv, TypeOK
  <2>5. SeenInv'
    BY DEF InRaw, InTyped, LockTypeOK, SeenInv, TypeOK
  <2>6. CountInv'
    BY DEF CountInv, LockTypeOK, TypeOK, TypedPass
  <2>7. ResultInv'
    BY <2>0, <2>out DEF ResultInv, WriteSide, TypeOK, Contract!Verdict
  <2> QED
    BY <2>1, <2>2, <2>3, <2>4, <2>5, <2>6, <2>7
<1>8. CASE PanicTyped(c)
  <2> USE <1>8 DEF PanicTyped, PassOutcomes, PassDone
  <2>0. /\ src[c] \in Sources
        /\ src[c].typed \in Outcomes /\ src[c].raw \in Outcomes
        /\ ~src[c].nested => src[c].typed = src[c].raw
    BY DEF TypeOK
  <2>1. TypeOK'
    BY DEF LockTypeOK, TypeOK
  <2>2. WriterInv'
    BY DEF LockTypeOK, TypeOK, WriteSide, WriterInv
  <2>3. ReaderInv'
    BY DEF Exclusive, LockTypeOK, ReaderInv, TypeOK, TypedPass, WriteSide
  <2>4. SettingInv'
    BY DEF LockTypeOK, SettingInv, TypeOK
  <2>5. SeenInv'
    BY DEF InRaw, InTyped, LockTypeOK, SeenInv, TypeOK
  <2>6. CountInv'
    BY DEF CountInv, LockTypeOK, TypeOK, TypedPass
  <2>7. ResultInv'
    BY <2>0 DEF ResultInv, WriteSide, TypeOK, SeenInv, InTyped, Contract!Verdict
  <2> QED
    BY <2>1, <2>2, <2>3, <2>4, <2>5, <2>6, <2>7
<1>9. CASE LeaveTyped(c)
  <2> USE <1>9 DEF LeaveTyped, RUnlock
  <2>1. TypeOK'
    BY DEF LockTypeOK, TypeOK, ReaderInv, TypedPass
  <2>2. WriterInv'
    BY DEF LockTypeOK, TypeOK, WriteSide, WriterInv
  <2>3. ReaderInv'
    BY DEF Exclusive, LockTypeOK, ReaderInv, TypeOK, TypedPass, WriteSide
  <2>4. SettingInv'
    BY DEF LockTypeOK, SettingInv, TypeOK
  <2>5. SeenInv'
    BY DEF InRaw, InTyped, LockTypeOK, SeenInv, TypeOK
  <2>6. CountInv'
    BY DEF CountInv, LockTypeOK, TypeOK, TypedPass
  <2>7. ResultInv'
    BY DEF Contract!Verdict, LockTypeOK, ResultInv, TypeOK, WriteSide
  <2> QED
    BY <2>1, <2>2, <2>3, <2>4, <2>5, <2>6, <2>7
<1>10. CASE Check(c)
  <2> USE <1>10 DEF Check, Settled
  <2>0. /\ src[c] \in Sources
        /\ src[c].typed \in Outcomes /\ src[c].raw \in Outcomes
        /\ ~src[c].nested => src[c].typed = src[c].raw
    BY DEF TypeOK
  <2>1. TypeOK'
    BY DEF LockTypeOK, TypeOK
  <2>2. WriterInv'
    BY DEF LockTypeOK, TypeOK, WriteSide, WriterInv
  <2>3. ReaderInv'
    BY DEF Exclusive, LockTypeOK, ReaderInv, TypeOK, TypedPass, WriteSide
  <2>4. SettingInv'
    BY DEF LockTypeOK, SettingInv, TypeOK
  <2>5. SeenInv'
    BY DEF InRaw, InTyped, LockTypeOK, SeenInv, TypeOK
  <2>6. CountInv'
    BY DEF CountInv, LockTypeOK, TypeOK, TypedPass
  <2>7. ResultInv'
    BY <2>0 DEF ResultInv, WriteSide, TypeOK, CountInv, TypedPass, Contract!Verdict
  <2> QED
    BY <2>1, <2>2, <2>3, <2>4, <2>5, <2>6, <2>7
<1>11. CASE AnnounceRaw(c)
  <2> USE <1>11 DEF AnnounceRaw, Announce
  <2>1. TypeOK'
    BY DEF LockTypeOK, TypeOK
  <2>2. WriterInv'
    BY DEF LockTypeOK, TypeOK, WriteSide, WriterInv
  <2>3. ReaderInv'
    BY DEF Exclusive, LockTypeOK, ReaderInv, TypeOK, TypedPass, WriteSide
  <2>4. SettingInv'
    BY DEF LockTypeOK, SettingInv, TypeOK
  <2>5. SeenInv'
    BY DEF InRaw, InTyped, LockTypeOK, SeenInv, TypeOK
  <2>6. CountInv'
    BY DEF CountInv, LockTypeOK, TypeOK, TypedPass
  <2>7. ResultInv'
    BY DEF Contract!Verdict, LockTypeOK, ResultInv, TypeOK, WriteSide
  <2> QED
    BY <2>1, <2>2, <2>3, <2>4, <2>5, <2>6, <2>7
<1>12. CASE EnterRaw(c)
  <2> USE <1>12 DEF EnterRaw, Drained
  <2>1. TypeOK'
    BY DEF LockTypeOK, TypeOK
  <2>2. WriterInv'
    BY DEF LockTypeOK, TypeOK, WriteSide, WriterInv
  <2>3. ReaderInv'
    BY DEF Exclusive, LockTypeOK, ReaderInv, TypeOK, TypedPass, WriteSide
  <2>4. SettingInv'
    BY DEF LockTypeOK, SettingInv, TypeOK
  <2>5. SeenInv'
    BY DEF InRaw, InTyped, LockTypeOK, SeenInv, TypeOK
  <2>6. CountInv'
    BY DEF CountInv, LockTypeOK, TypeOK, TypedPass
  <2>7. ResultInv'
    BY DEF Contract!Verdict, LockTypeOK, ResultInv, TypeOK, WriteSide
  <2> QED
    BY <2>1, <2>2, <2>3, <2>4, <2>5, <2>6, <2>7
<1>13. CASE StoreRaw(c)
  <2> USE <1>13 DEF StoreRaw, StartPass
  <2>1. TypeOK'
    BY DEF LockTypeOK, TypeOK
  <2>2. WriterInv'
    BY DEF LockTypeOK, TypeOK, WriteSide, WriterInv
  <2>3. ReaderInv'
    BY DEF Exclusive, LockTypeOK, ReaderInv, TypeOK, TypedPass, WriteSide
  <2>4. SettingInv'
    BY DEF LockTypeOK, SettingInv, TypeOK
  <2>5. SeenInv'
    <3> SUFFICES ASSUME NEW d \in Callers
                 PROVE  /\ InTyped(d)' => seen'[d] \subseteq {FALSE}
                        /\ InRaw(d)' => seen'[d] \subseteq {TRUE}
                        /\ InTyped(d)' \/ InRaw(d)' => (trees'[d] > 0 => seen'[d] # {})
                        /\ pc'[d] = "typedTree" => FALSE \in seen'[d] /\ ~setting'[d]
                        /\ pc'[d] = "rawTree" => TRUE \in seen'[d] /\ setting'[d]
                        /\ pc'[d] = "parked" => seen'[d] = {} /\ trees'[d] = 0 /\ ~hit'[d]
      BY DEF SeenInv
    <3>1. CASE d = c
      BY <3>1 DEF InRaw, InTyped, LockTypeOK, SeenInv, TypeOK, ReaderInv, SettingInv, TypedPass, Exclusive, WriteSide
    <3>2. CASE d # c
      BY <3>2 DEF InRaw, InTyped, LockTypeOK, SeenInv, TypeOK
    <3> QED
      BY <3>1, <3>2
  <2>6. CountInv'
    BY DEF CountInv, LockTypeOK, TypeOK, TypedPass
  <2>7. ResultInv'
    BY DEF Contract!Verdict, LockTypeOK, ResultInv, TypeOK, WriteSide
  <2> QED
    BY <2>1, <2>2, <2>3, <2>4, <2>5, <2>6, <2>7
<1>14. CASE EndRaw(c)
  <2> USE <1>14 DEF EndRaw, PassOutcomes, PassDone
  <2>0. /\ src[c] \in Sources
        /\ src[c].typed \in Outcomes /\ src[c].raw \in Outcomes
        /\ ~src[c].nested => src[c].typed = src[c].raw
    BY DEF TypeOK
  <2>out. /\ seen[c] = {TRUE}
        /\ result' = [result EXCEPT ![c] = src[c].raw]
    <3>1. seen[c] # {} /\ seen[c] \subseteq {TRUE}
      BY DEF TypeOK, SeenInv, InTyped, InRaw
    <3>2. PassOutcomes(c) = {src[c].raw}
      <4>1. seen[c] = {TRUE}
        BY <3>1, Singleton
      <4> QED
        BY <4>1 DEF PassOutcomes
    <3>3. seen[c] = {TRUE}
      BY <3>1, Singleton
    <3> QED
      BY <3>2, <3>3
  <2>1. TypeOK'
    BY <2>0, <2>out DEF TypeOK, LockTypeOK
  <2>2. WriterInv'
    BY DEF LockTypeOK, TypeOK, WriteSide, WriterInv
  <2>3. ReaderInv'
    BY DEF Exclusive, LockTypeOK, ReaderInv, TypeOK, TypedPass, WriteSide
  <2>4. SettingInv'
    BY DEF LockTypeOK, SettingInv, TypeOK
  <2>5. SeenInv'
    BY DEF InRaw, InTyped, LockTypeOK, SeenInv, TypeOK
  <2>6. CountInv'
    BY DEF CountInv, LockTypeOK, TypeOK, TypedPass
  <2>7. ResultInv'
    BY <2>0, <2>out DEF ResultInv, WriteSide, TypeOK, Contract!Verdict
  <2> QED
    BY <2>1, <2>2, <2>3, <2>4, <2>5, <2>6, <2>7
<1>15. CASE ClearRaw(c)
  <2> USE <1>15 DEF ClearRaw
  <2>1. TypeOK'
    BY DEF LockTypeOK, TypeOK
  <2>2. WriterInv'
    BY DEF LockTypeOK, TypeOK, WriteSide, WriterInv
  <2>3. ReaderInv'
    BY DEF Exclusive, LockTypeOK, ReaderInv, TypeOK, TypedPass, WriteSide
  <2>4. SettingInv'
    BY DEF LockTypeOK, SettingInv, TypeOK, WriterInv, WriteSide
  <2>5. SeenInv'
    BY DEF InRaw, InTyped, LockTypeOK, SeenInv, TypeOK
  <2>6. CountInv'
    BY DEF CountInv, LockTypeOK, TypeOK, TypedPass
  <2>7. ResultInv'
    BY DEF Contract!Verdict, LockTypeOK, ResultInv, TypeOK, WriteSide
  <2> QED
    BY <2>1, <2>2, <2>3, <2>4, <2>5, <2>6, <2>7
<1>16. CASE LeaveRaw(c)
  <2> USE <1>16 DEF LeaveRaw, Unlock
  <2>1. TypeOK'
    BY DEF LockTypeOK, TypeOK
  <2>2. WriterInv'
    BY DEF LockTypeOK, TypeOK, WriteSide, WriterInv
  <2>3. ReaderInv'
    BY DEF Exclusive, LockTypeOK, ReaderInv, TypeOK, TypedPass, WriteSide, WriterInv
  <2>4. SettingInv'
    BY DEF LockTypeOK, SettingInv, TypeOK
  <2>5. SeenInv'
    BY DEF InRaw, InTyped, LockTypeOK, SeenInv, TypeOK
  <2>6. CountInv'
    BY DEF CountInv, LockTypeOK, TypeOK, TypedPass
  <2>7. ResultInv'
    BY DEF Contract!Verdict, LockTypeOK, ResultInv, TypeOK, WriteSide
  <2> QED
    BY <2>1, <2>2, <2>3, <2>4, <2>5, <2>6, <2>7
<1> QED
  BY <1>1, <1>2, <1>3, <1>4, <1>5, <1>6, <1>7, <1>8, <1>9, <1>10, <1>11, <1>12, <1>13, <1>14, <1>15, <1>16 DEF Step

\* The inductive invariant holds of every behaviour.
LEMMA Invariance == Spec => []IInv
<1>1. IInv /\ [Next]_vars => IInv'
  <2> SUFFICES ASSUME IInv, [Next]_vars PROVE IInv'
    OBVIOUS
  <2>1. CASE \E c \in Callers : Call(c) \/ Step(c)
    BY <2>1, StepInv
  <2>2. CASE UNCHANGED vars
    BY <2>2 DEF vars, IInv, TypeOK, LockTypeOK, WriterInv, ReaderInv, SettingInv, SeenInv,
                CountInv, ResultInv, InTyped, InRaw, Contract!Verdict
  <2> QED
    BY <2>1, <2>2 DEF Next, Finished
<1> QED
  BY <1>1, InitInv, PTL DEF Spec

\* The variables of ParseCalls keep their types.
THEOREM TypeCorrect == Spec => []TypeOK
<1>1. IInv => TypeOK
  BY DEF IInv
<1> QED
  BY <1>1, Invariance, PTL

\* No pass mixes the typed and the raw reading, however calls interleave.
THEOREM ReadingIsUniform == Spec => []OneReading
<1>1. IInv => OneReading
  BY DEF IInv, SeenInv, OneReading
<1> QED
  BY <1>1, Invariance, PTL

-----------------------------------------------------------------------------
\* Each caller's read locks, when no typed pass panics.
LockCount == \A c \in Callers :
               readers[c] = IF pc[c] \in TypedPass \/ (pc[c] = "parked" /\ c \notin rwait)
                              THEN 1 ELSE 0

\* With no panic in a typed pass, nothing is left behind between calls: the
\* setting is off and nobody holds the lock.
THEOREM QuietIsClean == ASSUME \A s \in Sources : s.typed # "panic"
                        PROVE  Spec => []CleanWhenQuiet
<1>1. Init => LockCount
  BY DEF Init, LockInit, LockCount, TypedPass
<1>2. IInv /\ LockCount /\ [Next]_vars => LockCount'
  <2> SUFFICES ASSUME IInv, LockCount, [Next]_vars PROVE LockCount'
    OBVIOUS
  <2> USE DEF LockCount, TypedPass, Goto, TypeOK, LockTypeOK, IInv
  <2>1. ASSUME NEW c \in Callers, Call(c) \/ Step(c) PROVE LockCount'
    <3>1. CASE EnterTyped(c)
      BY <3>1 DEF EnterTyped, RLock, RPark, WriterInv
    <3>2. CASE LeaveTyped(c)
      BY <3>2 DEF LeaveTyped, RUnlock
    <3>3. CASE LeaveRaw(c)
      BY <3>3 DEF LeaveRaw, Unlock, WriterInv
    <3>4. CASE PanicTyped(c)
      <4>1. src[c] \in Sources /\ src[c].typed # "panic"
        OBVIOUS
      <4>2. seen[c] # {} /\ seen[c] \subseteq {FALSE}
        BY <3>4 DEF PanicTyped, PassDone, SeenInv, InTyped
      <4>3. seen[c] = {FALSE}
        BY <4>2, Singleton
      <4> QED
        BY <3>4, <4>1, <4>3 DEF PanicTyped, PassOutcomes
    <3>5. CASE Call(c) \/ LoadReads(c) \/ Wake(c) \/ BeginTree(c) \/ EndTree(c) \/ EndTyped(c)
      BY <3>5 DEF Call, LoadReads, Wake, BeginTree, EndTree, EndTyped
    <3>6. CASE Check(c) \/ AnnounceRaw(c) \/ EnterRaw(c) \/ StoreRaw(c) \/ EndRaw(c) \/ ClearRaw(c)
      BY <3>6 DEF Check, AnnounceRaw, Announce, EnterRaw, StoreRaw, EndRaw, ClearRaw
    <3> QED
      BY <2>1, <3>1, <3>2, <3>3, <3>4, <3>5, <3>6 DEF Step
  <2>2. CASE UNCHANGED vars
    BY <2>2 DEF vars
  <2> QED
    BY <2>1, <2>2 DEF Next, Finished
<1>3. IInv /\ LockCount => CleanWhenQuiet
  BY NoCallerAssumption
     DEF IInv, LockCount, CleanWhenQuiet, TypedPass, WriterInv, WriteSide, SettingInv,
         TypeOK, LockTypeOK
<1> QED
  BY <1>1, <1>2, <1>3, Invariance, PTL DEF Spec

-----------------------------------------------------------------------------
\* Concurrent Parse implements the one-caller contract: every answer is the
\* verdict of its source, and between call and answer nothing shows.
THEOREM ParseImplementsContract == Spec => ImplementsContract
<1>1. Init => Contract!Init
  BY DEF Init, Contract!Init
<1>2. IInv /\ IInv' /\ [Next]_vars => [Contract!Next]_(Contract!vars)
  <2> SUFFICES ASSUME IInv, IInv', [Next]_vars PROVE [Contract!Next]_(Contract!vars)
    OBVIOUS
  <2> USE DEF IInv, TypeOK, Goto
  <2>1. ASSUME NEW c \in Callers, Call(c) PROVE Contract!Ask(c)
    BY <2>1 DEF Call, Contract!Ask
  <2>2. ASSUME NEW c \in Callers, Step(c), pc'[c] # "idle" PROVE UNCHANGED Contract!vars
    <3>1. src' = src /\ pc[c] # "idle" /\ \A d \in Callers \ {c} : pc'[d] = pc[d] /\ result'[d] = result[d]
      BY <2>2 DEF Step, LoadReads, EnterTyped, Wake, BeginTree, EndTree, EndTyped, PanicTyped,
                  LeaveTyped, Check, AnnounceRaw, EnterRaw, StoreRaw, EndRaw, ClearRaw, LeaveRaw
    <3> QED
      BY <2>2, <3>1 DEF Contract!vars
  <2>3. ASSUME NEW c \in Callers, Step(c), pc'[c] = "idle" PROVE Contract!Answer(c)
    <3>1. /\ src' = src /\ pc[c] # "idle"
          /\ \A d \in Callers \ {c} : pc'[d] = pc[d] /\ result'[d] = result[d]
      BY <2>3 DEF Step, LoadReads, EnterTyped, Wake, BeginTree, EndTree, EndTyped, PanicTyped,
                  LeaveTyped, Check, AnnounceRaw, EnterRaw, StoreRaw, EndRaw, ClearRaw, LeaveRaw
    <3>2. result'[c] # "none"
      <4>1. src[c].typed \in Outcomes /\ src[c].raw \in Outcomes
        BY SourcesAssumption
      <4> QED
        BY <2>3, <4>1 DEF ResultInv, WriteSide, Step, LoadReads, EnterTyped, Wake, BeginTree,
           EndTree, EndTyped, PanicTyped, LeaveTyped, Check, AnnounceRaw, EnterRaw, StoreRaw,
           EndRaw, ClearRaw, LeaveRaw
    <3>3. result'[c] = Contract!Verdict(src[c])
      BY <2>3, <3>1, <3>2 DEF ResultInv, Contract!Verdict
    <3> QED
      BY <2>3, <3>1, <3>3 DEF Contract!Answer
  <2>4. CASE UNCHANGED vars
    BY <2>4 DEF vars, Contract!vars
  <2> QED
    BY <2>1, <2>2, <2>3, <2>4 DEF Next, Finished, Contract!Next
<1> QED
  BY <1>1, <1>2, Invariance, PTL DEF Spec, ImplementsContract, Contract!Spec
-----------------------------------------------------------------------------
(***************************************************************************)
(* AdapterChain.                                                           *)
(***************************************************************************)
(***************************************************************************)
(* The scans of a pattern and of a key: what they mask is punctuation.     *)
(***************************************************************************)
Punctuation == {"[", "]", ",", " "} \cup isBareKeyPunctuation

\* The states of a scan of the text t, whose bytes are in T.
Scans(t, T) ==
  [at : Nat, brackets : Int, braces : Int, parens : Int, quote : T \cup {"none"},
   edits : SUBSET At(t, Punctuation), close : 0..Len(t)]

\* What a step-over of the text t returns.
Spans(t) == [edits : SUBSET At(t, Punctuation), close : 0..Len(t)]

LEMMA TextOf ==
  ASSUME NEW T, NEW t \in Seq(T)
  PROVE  Len(t) \in Nat /\ DOMAIN t = 1..Len(t) /\ \A n \in 1..Len(t) : t[n] \in T
BY LenProperties, ElementOfSeq

LEMMA LeastIs ==
  ASSUME NEW S, S \subseteq Nat, S # {}
  PROVE  Least(S) \in S /\ \A n \in S : Least(S) <= n
BY LeastOf DEF Least

LEMMA Moves ==
  ASSUME NEW T, NEW t \in Seq(T), NEW s \in Scans(t, T), s.at \in 1..Len(t)
  PROVE  /\ Refuse(s) \in Scans(t, T) /\ Close(s) \in Scans(t, T)
         /\ Skip(s) \in Scans(t, T) /\ Escape(t, s) \in Scans(t, T)
         /\ t[s.at] \in Punctuation => Mask(s) \in Scans(t, T)
         /\ \A span \in Spans(t) : Over(s, span) \in Scans(t, T)
<1>1. Len(t) \in Nat
  BY TextOf
<1>2. Refuse(s) \in Scans(t, T) /\ Close(s) \in Scans(t, T) /\ Skip(s) \in Scans(t, T)
  <2>1. Refuse(s) \in Scans(t, T)
    BY DEF Scans, Refuse
  <2>2. Close(s) \in Scans(t, T)
    <3>1. s.at \in 0..Len(t)
      BY <1>1
    <3>. DEFINE here == s.at
    <3>2. Close(s) = [s EXCEPT !.at = 0, !.close = here]
      BY DEF Close
    <3>. HIDE DEF here
    <3>3. [s EXCEPT !.at = 0, !.close = here] \in Scans(t, T)
      BY <3>1 DEF Scans, here
    <3>. QED
      BY <3>2, <3>3
  <2>3. Skip(s) \in Scans(t, T)
    BY DEF Scans, Skip
  <2>. QED
    BY <2>1, <2>2, <2>3
<1>3. Escape(t, s) \in Scans(t, T)
  <2>1. At(t, {"[", "]"}) \subseteq At(t, Punctuation)
    BY DEF At, Punctuation
  <2>. DEFINE more == At(t, {"[", "]"}) \cap {s.at + 1}
  <2>2. more \subseteq At(t, Punctuation)
    BY <2>1
  <2>. HIDE DEF more
  <2>3. [s EXCEPT !.at = @ + 2, !.edits = @ \cup more] \in Scans(t, T)
    <3>1. s.at + 2 \in Nat
      OBVIOUS
    <3>2. s.edits \cup more \in SUBSET At(t, Punctuation)
      BY <2>2 DEF Scans
    <3>. QED
      BY <3>1, <3>2 DEF Scans
  <2>. QED
    BY <1>2, <2>3 DEF Escape, more
<1>4. ASSUME t[s.at] \in Punctuation PROVE Mask(s) \in Scans(t, T)
  <2>1. s.at \in At(t, Punctuation)
    BY <1>4 DEF At
  <2>. QED
    BY <1>2, <2>1 DEF Scans, Mask, Skip
<1>5. ASSUME NEW span \in Spans(t) PROVE Over(s, span) \in Scans(t, T)
  <2>1. span.close \in Nat /\ span.edits \subseteq At(t, Punctuation)
    BY <1>1 DEF Spans
  <2>2. [s EXCEPT !.at = span.close + 1, !.edits = @ \cup span.edits] \in Scans(t, T)
    <3>1. span.close + 1 \in Nat
      BY <2>1
    <3>2. s.edits \cup span.edits \in SUBSET At(t, Punctuation)
      BY <2>1 DEF Scans
    <3>. QED
      BY <3>1, <3>2 DEF Scans
  <2>. QED
    BY <1>2, <2>2 DEF Over
<1>. QED
  BY <1>2, <1>3, <1>4, <1>5

LEMMA FoundOf ==
  ASSUME NEW T, NEW t \in Seq(T), NEW s \in Scans(t, T)
  PROVE  Found(s) \in Spans(t)
BY TextOf DEF Scans, Spans, Found, Refused

LEMMA ScanningOf ==
  ASSUME NEW T, NEW t \in Seq(T), NEW start \in Nat
  PROVE  Scanning(start) \in Scans(t, T)
BY TextOf DEF Scans, Scanning

\* The two step-overs without a loop of brackets.
LEMMA KeyOver ==
  ASSUME NEW T, NEW t \in Seq(T), NEW quote \in 1..Len(t)
  PROVE  maskSingleQuotedKey(t, quote) \in Spans(t)
<1>. DEFINE ends == {j \in quote + 1..Len(t) : t[j] = "'"}
            key == quote + 1..Least(ends) - 1
<1>1. Len(t) \in Nat
  BY TextOf
<1>2. Refused \in Spans(t)
  BY <1>1 DEF Refused, Spans
<1>3. CASE ends # {}
  <2>1. Least(ends) \in 1..Len(t)
    <3>1. ends \subseteq 1..Len(t) /\ ends \subseteq Nat
      BY <1>1
    <3>. HIDE DEF ends
    <3>. QED
      BY <1>3, <3>1, LeastIs
  <2>. HIDE DEF ends
  <2>. DEFINE end == Least(ends)
              commas == {k \in key : t[k] = ","}
  <2>2. commas \subseteq At(t, Punctuation)
    <3>1. end \in 1..Len(t)
      BY <2>1
    <3>. HIDE DEF end
    <3>2. \A k \in quote + 1..end - 1 : k \in 1..Len(t)
      BY <1>1, <3>1
    <3>. QED
      BY <3>2 DEF At, Punctuation, end
  <2>. HIDE DEF commas
  <2>3. [edits |-> commas, close |-> Least(ends)] \in Spans(t)
    BY <2>1, <2>2 DEF Spans
  <2>. QED
    BY <1>2, <2>3 DEF maskSingleQuotedKey, ends, commas
<1>. QED
  BY <1>2, <1>3 DEF maskSingleQuotedKey

LEMMA SubstitutionOver ==
  ASSUME NEW T, NEW t \in Seq(T), NEW start \in 1..Len(t)
  PROVE  maskPatternSubstitution(t, start) \in Spans(t)
<1>. DEFINE depth(j) == Cardinality({k \in start..j : t[k] \in {"(", "$("}})
                          - Cardinality({k \in start..j : t[k] = ")"})
            ends == {j \in start + 1..Len(t) :
                       IF t[start] = "bq" THEN t[j] = "bq" ELSE t[j] = ")" /\ depth(j) = 0}
            end == Least(ends)
            over == [edits |-> {k \in start..end : t[k] = ","}, close |-> end]
<1>. HIDE DEF depth
<1>1. Len(t) \in Nat
  BY TextOf
<1>2. Refused \in Spans(t)
  BY <1>1 DEF Refused, Spans
<1>3. ends # {} => over \in Spans(t)
  <2>1. ASSUME ends # {} PROVE end \in 1..Len(t)
    <3>1. ends \subseteq 1..Len(t) /\ ends \subseteq Nat
      BY <1>1
    <3>. HIDE DEF ends
    <3>. QED
      BY <2>1, <3>1, LeastIs
  <2>. HIDE DEF ends, end
  <2>. DEFINE commas == {k \in start..end : t[k] = ","}
  <2>2. end \in 1..Len(t) => commas \subseteq At(t, Punctuation)
    <3>1. ASSUME end \in 1..Len(t) PROVE \A k \in start..end : k \in 1..Len(t)
      BY <1>1, <3>1
    <3>. QED
      BY <3>1 DEF At, Punctuation
  <2>. HIDE DEF commas
  <2>3. over = [edits |-> commas, close |-> end]
    BY DEF commas
  <2>. HIDE DEF over
  <2>. QED
    BY <2>1, <2>2, <2>3 DEF Spans
<1>4. maskPatternSubstitution(t, start) \in {Refused, over} /\ (ends = {} => maskPatternSubstitution(t, start) = Refused)
  BY DEF maskPatternSubstitution, depth
<1>. HIDE DEF ends, over
<1>. QED
  BY <1>2, <1>3, <1>4
\* Counting keeps a state a state.
LEMMA Counts ==
  ASSUME NEW T, NEW t \in Seq(T), NEW s \in Scans(t, T)
  PROVE  /\ [s EXCEPT !.brackets = @ + 1] \in Scans(t, T)
         /\ [s EXCEPT !.brackets = @ - 1] \in Scans(t, T)
         /\ [s EXCEPT !.braces = @ + 1] \in Scans(t, T)
         /\ [s EXCEPT !.braces = @ - 1] \in Scans(t, T)
         /\ [s EXCEPT !.parens = @ + 1] \in Scans(t, T)
         /\ [s EXCEPT !.parens = @ - 1] \in Scans(t, T)
         /\ \A q \in T \cup {"none"} : [s EXCEPT !.quote = q] \in Scans(t, T)
<1>1. [s EXCEPT !.brackets = @ + 1] \in Scans(t, T)
  BY DEF Scans
<1>2. [s EXCEPT !.brackets = @ - 1] \in Scans(t, T)
  BY DEF Scans
<1>3. [s EXCEPT !.braces = @ + 1] \in Scans(t, T)
  BY DEF Scans
<1>4. [s EXCEPT !.braces = @ - 1] \in Scans(t, T)
  BY DEF Scans
<1>5. [s EXCEPT !.parens = @ + 1] \in Scans(t, T)
  BY DEF Scans
<1>6. [s EXCEPT !.parens = @ - 1] \in Scans(t, T)
  BY DEF Scans
<1>7. ASSUME NEW q \in T \cup {"none"} PROVE [s EXCEPT !.quote = q] \in Scans(t, T)
  BY <1>7 DEF Scans
<1>. QED
  BY <1>1, <1>2, <1>3, <1>4, <1>5, <1>6, <1>7

LEMMA NestedStepOf ==
  ASSUME NEW T, NEW t \in Seq(T), NEW s \in Scans(t, T)
  PROVE  NestedStep(t, s) \in Scans(t, T)
<1>. DEFINE key == maskSingleQuotedKey(t, s.at)
<1>1. CASE s.at \notin 1..Len(t)
  BY <1>1 DEF NestedStep
<1>2. CASE s.at \in 1..Len(t)
  <2>1. /\ Refuse(s) \in Scans(t, T) /\ Close(s) \in Scans(t, T)
        /\ Skip(s) \in Scans(t, T) /\ Escape(t, s) \in Scans(t, T)
        /\ Over(s, key) \in Scans(t, T)
        /\ t[s.at] \in Punctuation => Mask(s) \in Scans(t, T)
    BY <1>2, Moves, KeyOver
  <2>. HIDE DEF key
  <2>2. /\ [Skip(s) EXCEPT !.braces = @ + 1] \in Scans(t, T)
        /\ [Skip(s) EXCEPT !.braces = @ - 1] \in Scans(t, T)
    BY <2>1, Counts
  <2>3. t[s.at] \in Punctuation =>
          /\ [Mask(s) EXCEPT !.brackets = @ + 1] \in Scans(t, T)
          /\ [Mask(s) EXCEPT !.brackets = @ - 1] \in Scans(t, T)
    BY <2>1, Counts
  <2>. QED
    BY <1>2, <2>1, <2>2, <2>3 DEF NestedStep, Punctuation, key
<1>. QED
  BY <1>1, <1>2

\* What a loop reaches from a set of states it does not leave.
Iterates(f, m, S, base, step) ==
  /\ f \in [0..m -> S]
  /\ f[0] = base
  /\ \A n \in 1..m : f[n] = step[f[n - 1]]

LEMMA Iterate ==
  ASSUME NEW m \in Nat, NEW S, NEW base \in S, NEW step \in [S -> S]
  PROVE  \E f : Iterates(f, m, S, base, step)
<1>. DEFINE next == [p \in (1..m) \X S |-> step[p[2]]]
<1>1. next \in [(1..m) \X S -> S]
  OBVIOUS
<1>2. PICK f : Computes(f, m, S, base, next)
  <2>. HIDE DEF next
  <2>. QED
    BY <1>1, Recursion
<1>3. f \in [0..m -> S] /\ f[0] = base /\ \A n \in 1..m : f[n] = next[<<n, f[n - 1]>>]
  <2>. HIDE DEF next
  <2>. QED
    BY <1>2 DEF Computes
<1>4. ASSUME NEW n \in 1..m PROVE f[n] = step[f[n - 1]]
  <2>1. f[n - 1] \in S
    BY <1>3
  <2>. QED
    BY <1>3, <2>1
<1>. QED
  BY <1>3, <1>4 DEF Iterates

LEMMA StaysIn ==
  ASSUME NEW m \in Nat, NEW S, NEW f, f[0] \in S,
         \A n \in 1..m : f[n - 1] \in S => f[n] \in S
  PROVE  f[m] \in S
<1>. DEFINE Good == {n \in 0..m : f[n] \in S}
<1>1. 0 \in Good /\ \A n \in 1..m : n - 1 \in Good => n \in Good
  OBVIOUS
<1>2. m \in Good
  <2>. HIDE DEF Good
  <2>. QED
    BY <1>1, SetInductionUpTo
<1>. QED
  BY <1>2

LEMMA NestedOver ==
  ASSUME NEW T, NEW t \in Seq(T), NEW brace \in 1..Len(t)
  PROVE  maskNestedExpansion(t, brace) \in Spans(t)
<1>. DEFINE m == Len(t)
            S == Scans(t, T)
            scan == CHOOSE f : f = [n \in 0..m |->
                      IF n = 0 THEN Scanning(brace) ELSE NestedStep(t, f[n - 1])]
            base == Scanning(brace)
            step == [s \in S |-> NestedStep(t, s)]
<1>1. m \in Nat
  BY TextOf
<1>2. base \in S
  BY ScanningOf
<1>3. step \in [S -> S]
  BY NestedStepOf
<1>4. maskNestedExpansion(t, brace) = Found(scan[m])
  BY DEF maskNestedExpansion
<1>. HIDE DEF S, m
<1>5. scan = [n \in 0..m |-> IF n = 0 THEN Scanning(brace) ELSE NestedStep(t, scan[n - 1])]
  <2>1. PICK f : Iterates(f, m, S, base, step)
    <3>. HIDE DEF step, base
    <3>. QED
      BY <1>1, <1>2, <1>3, Iterate
  <2>2. f \in [0..m -> S] /\ f[0] = base /\ \A n \in 1..m : f[n] = step[f[n - 1]]
    <3>. HIDE DEF step, base
    <3>. QED
      BY <2>1 DEF Iterates
  <2>3. ASSUME NEW n \in 1..m PROVE f[n] = NestedStep(t, f[n - 1])
    <3>1. f[n - 1] \in S
      BY <1>1, <2>2
    <3>2. f[n] = step[f[n - 1]]
      <4>. HIDE DEF step, base
      <4>. QED
        BY <2>2
    <3>. QED
      BY <3>1, <3>2
  <2>4. f = [n \in 0..m |-> IF n = 0 THEN Scanning(brace) ELSE NestedStep(t, f[n - 1])]
    BY <1>1, <2>2, <2>3
  <2>. QED
    BY <2>4
<1>6. scan[0] = Scanning(brace) /\ \A n \in 1..m : scan[n] = NestedStep(t, scan[n - 1])
  <2>. HIDE DEF scan
  <2>. QED
    BY <1>1, <1>5
<1>7. scan[m] \in S
  <2>1. \A n \in 1..m : scan[n - 1] \in S => scan[n] \in S
    <3>. HIDE DEF scan
    <3>. QED
      BY <1>6, NestedStepOf DEF S
  <2>. HIDE DEF scan
  <2>. QED
    BY <1>1, <1>2, <1>6, <2>1, StaysIn
<1>. HIDE DEF scan
<1>. QED
  BY <1>4, <1>7, FoundOf DEF S

LEMMA PatternStepOf ==
  ASSUME NEW T, NEW t \in Seq(T), NEW s \in Scans(t, T)
  PROVE  PatternStep(t, s) \in Scans(t, T)
<1>. DEFINE body == maskPatternSubstitution(t, s.at)
            nested == maskNestedExpansion(t, s.at)
<1>1. CASE s.at \notin 1..Len(t)
  BY <1>1 DEF PatternStep
<1>2. CASE s.at \in 1..Len(t)
  <2>1. /\ Refuse(s) \in Scans(t, T) /\ Close(s) \in Scans(t, T)
        /\ Skip(s) \in Scans(t, T) /\ Escape(t, s) \in Scans(t, T)
        /\ Over(s, body) \in Scans(t, T) /\ Over(s, nested) \in Scans(t, T)
        /\ t[s.at] \in Punctuation => Mask(s) \in Scans(t, T)
    BY <1>2, Moves, SubstitutionOver, NestedOver
  <2>. HIDE DEF body, nested
  <2>2. /\ [Skip(s) EXCEPT !.parens = @ + 1] \in Scans(t, T)
        /\ [Skip(s) EXCEPT !.parens = @ - 1] \in Scans(t, T)
    BY <2>1, Counts
  <2>3. t[s.at] \in Punctuation =>
          /\ [Mask(s) EXCEPT !.brackets = @ + 1] \in Scans(t, T)
          /\ [Mask(s) EXCEPT !.brackets = @ - 1] \in Scans(t, T)
    BY <2>1, Counts
  <2>. QED
    BY <1>2, <2>1, <2>2, <2>3 DEF PatternStep, Punctuation, body, nested
<1>. QED
  BY <1>1, <1>2

\* What the adapter for flagged patterns masks is punctuation of the pattern.
LEMMA PatternScanned ==
  ASSUME NEW T, NEW t \in Seq(T)
  PROVE  scanFlagPatternBrackets(t) \in Spans(t)
<1>. DEFINE m == Len(t)
            S == Scans(t, T)
            scan == CHOOSE f : f = [n \in 0..m |->
                      IF n = 0 THEN Scanning(1) ELSE PatternStep(t, f[n - 1])]
            base == Scanning(1)
            step == [s \in S |-> PatternStep(t, s)]
<1>1. m \in Nat
  BY TextOf
<1>2. base \in S
  BY ScanningOf
<1>3. step \in [S -> S]
  BY PatternStepOf
<1>4. scanFlagPatternBrackets(t) = Found(scan[m])
  BY DEF scanFlagPatternBrackets
<1>. HIDE DEF S, m
<1>5. scan = [n \in 0..m |-> IF n = 0 THEN Scanning(1) ELSE PatternStep(t, scan[n - 1])]
  <2>1. PICK f : Iterates(f, m, S, base, step)
    <3>. HIDE DEF step, base
    <3>. QED
      BY <1>1, <1>2, <1>3, Iterate
  <2>2. f \in [0..m -> S] /\ f[0] = base /\ \A n \in 1..m : f[n] = step[f[n - 1]]
    <3>. HIDE DEF step, base
    <3>. QED
      BY <2>1 DEF Iterates
  <2>3. ASSUME NEW n \in 1..m PROVE f[n] = PatternStep(t, f[n - 1])
    <3>1. f[n - 1] \in S
      BY <1>1, <2>2
    <3>2. f[n] = step[f[n - 1]]
      <4>. HIDE DEF step, base
      <4>. QED
        BY <2>2
    <3>. QED
      BY <3>1, <3>2
  <2>4. f = [n \in 0..m |-> IF n = 0 THEN Scanning(1) ELSE PatternStep(t, f[n - 1])]
    BY <1>1, <2>2, <2>3
  <2>. QED
    BY <2>4
<1>6. scan[0] = Scanning(1) /\ \A n \in 1..m : scan[n] = PatternStep(t, scan[n - 1])
  <2>. HIDE DEF scan
  <2>. QED
    BY <1>1, <1>5
<1>7. scan[m] \in S
  <2>1. \A n \in 1..m : scan[n - 1] \in S => scan[n] \in S
    <3>. HIDE DEF scan
    <3>. QED
      BY <1>6, PatternStepOf DEF S
  <2>. HIDE DEF scan
  <2>. QED
    BY <1>1, <1>2, <1>6, <2>1, StaysIn
<1>. HIDE DEF scan
<1>. QED
  BY <1>4, <1>7, FoundOf DEF S

LEMMA EndStepOf ==
  ASSUME NEW T, NEW t \in Seq(T), NEW s \in Scans(t, T)
  PROVE  EndStep(t, s) \in Scans(t, T)
<1>1. CASE s.at \notin 1..Len(t)
  BY <1>1 DEF EndStep
<1>2. CASE s.at \in 1..Len(t)
  <2>1. /\ Refuse(s) \in Scans(t, T) /\ Close(s) \in Scans(t, T)
        /\ Skip(s) \in Scans(t, T) /\ Escape(t, s) \in Scans(t, T)
    BY <1>2, Moves
  <2>2. /\ [Skip(s) EXCEPT !.brackets = @ + 1] \in Scans(t, T)
        /\ [Skip(s) EXCEPT !.brackets = @ - 1] \in Scans(t, T)
    BY <2>1, Counts
  <2>. QED
    BY <1>2, <2>1, <2>2 DEF EndStep
<1>. QED
  BY <1>1, <1>2

LEMMA PatternEnds ==
  ASSUME NEW T, NEW t \in Seq(T)
  PROVE  flagPatternEnd(t) \in 0..Len(t)
<1>. DEFINE m == Len(t)
            S == Scans(t, T)
            scan == CHOOSE f : f = [n \in 0..m |->
                      IF n = 0 THEN Scanning(1) ELSE EndStep(t, f[n - 1])]
            base == Scanning(1)
            step == [s \in S |-> EndStep(t, s)]
<1>1. m \in Nat
  BY TextOf
<1>2. base \in S
  BY ScanningOf
<1>3. step \in [S -> S]
  BY EndStepOf
<1>4. flagPatternEnd(t) = scan[m].close
  BY DEF flagPatternEnd
<1>. HIDE DEF S, m
<1>5. scan = [n \in 0..m |-> IF n = 0 THEN Scanning(1) ELSE EndStep(t, scan[n - 1])]
  <2>1. PICK f : Iterates(f, m, S, base, step)
    <3>. HIDE DEF step, base
    <3>. QED
      BY <1>1, <1>2, <1>3, Iterate
  <2>2. f \in [0..m -> S] /\ f[0] = base /\ \A n \in 1..m : f[n] = step[f[n - 1]]
    <3>. HIDE DEF step, base
    <3>. QED
      BY <2>1 DEF Iterates
  <2>3. ASSUME NEW n \in 1..m PROVE f[n] = EndStep(t, f[n - 1])
    <3>1. f[n - 1] \in S
      BY <1>1, <2>2
    <3>2. f[n] = step[f[n - 1]]
      <4>. HIDE DEF step, base
      <4>. QED
        BY <2>2
    <3>. QED
      BY <3>1, <3>2
  <2>4. f = [n \in 0..m |-> IF n = 0 THEN Scanning(1) ELSE EndStep(t, f[n - 1])]
    BY <1>1, <2>2, <2>3
  <2>. QED
    BY <2>4
<1>6. scan[0] = Scanning(1) /\ \A n \in 1..m : scan[n] = EndStep(t, scan[n - 1])
  <2>. HIDE DEF scan
  <2>. QED
    BY <1>1, <1>5
<1>7. scan[m] \in S
  <2>1. \A n \in 1..m : scan[n - 1] \in S => scan[n] \in S
    <3>. HIDE DEF scan
    <3>. QED
      BY <1>6, EndStepOf DEF S
  <2>. HIDE DEF scan
  <2>. QED
    BY <1>1, <1>2, <1>6, <2>1, StaysIn
<1>. HIDE DEF scan
<1>. QED
  BY <1>4, <1>7 DEF S, Scans

LEMMA AfterStepOf ==
  ASSUME NEW T, NEW t \in Seq(T), NEW s \in Scans(t, T), NEW start
  PROVE  AfterStep(t, start, s) \in Scans(t, T)
<1>1. CASE s.at \notin 1..Len(t)
  BY <1>1 DEF AfterStep
<1>2. CASE s.at \in 1..Len(t)
  <2>1. /\ Refuse(s) \in Scans(t, T) /\ Close(s) \in Scans(t, T)
        /\ Skip(s) \in Scans(t, T) /\ Escape(t, s) \in Scans(t, T)
    BY <1>2, Moves
  <2>2. t[s.at] \in T
    BY <1>2, TextOf
  <2>3. /\ [Skip(s) EXCEPT !.brackets = @ + 1] \in Scans(t, T)
        /\ [Skip(s) EXCEPT !.brackets = @ - 1] \in Scans(t, T)
        /\ [Skip(s) EXCEPT !.quote = "none"] \in Scans(t, T)
        /\ [Skip(s) EXCEPT !.quote = t[s.at]] \in Scans(t, T)
    BY <2>1, <2>2, Counts
  <2>. QED
    BY <1>2, <2>1, <2>3 DEF AfterStep
<1>. QED
  BY <1>1, <1>2

LEMMA AfterComma ==
  ASSUME NEW T, NEW t \in Seq(T), NEW comma \in Nat
  PROVE  /\ scanPatternAfterComma(t, comma).edits \subseteq 1..Len(t)
         /\ scanPatternAfterComma(t, comma).close \in 0..Len(t)
<1>. DEFINE m == Len(t)
            S == Scans(t, T)
            scan == CHOOSE f : f = [n \in 0..m |->
                      IF n = 0 THEN Scanning(comma + 1) ELSE AfterStep(t, comma + 1, f[n - 1])]
            base == Scanning(comma + 1)
            step == [s \in S |-> AfterStep(t, comma + 1, s)]
<1>1. m \in Nat
  BY TextOf
<1>2. base \in S
  BY ScanningOf
<1>3. step \in [S -> S]
  BY AfterStepOf
<1>4. scanPatternAfterComma(t, comma) =
        IF scan[m].close = 0 THEN Refused
        ELSE [edits |-> comma + 1..scan[m].close - 1, close |-> scan[m].close]
  BY DEF scanPatternAfterComma
<1>. HIDE DEF S, m
<1>5. scan = [n \in 0..m |-> IF n = 0 THEN Scanning(comma + 1) ELSE AfterStep(t, comma + 1, scan[n - 1])]
  <2>1. PICK f : Iterates(f, m, S, base, step)
    <3>. HIDE DEF step, base
    <3>. QED
      BY <1>1, <1>2, <1>3, Iterate
  <2>2. f \in [0..m -> S] /\ f[0] = base /\ \A n \in 1..m : f[n] = step[f[n - 1]]
    <3>. HIDE DEF step, base
    <3>. QED
      BY <2>1 DEF Iterates
  <2>3. ASSUME NEW n \in 1..m PROVE f[n] = AfterStep(t, comma + 1, f[n - 1])
    <3>1. f[n - 1] \in S
      BY <1>1, <2>2
    <3>2. f[n] = step[f[n - 1]]
      <4>. HIDE DEF step, base
      <4>. QED
        BY <2>2
    <3>. QED
      BY <3>1, <3>2
  <2>4. f = [n \in 0..m |-> IF n = 0 THEN Scanning(comma + 1) ELSE AfterStep(t, comma + 1, f[n - 1])]
    BY <1>1, <2>2, <2>3
  <2>. QED
    BY <2>4
<1>6. scan[0] = Scanning(comma + 1) /\ \A n \in 1..m : scan[n] = AfterStep(t, comma + 1, scan[n - 1])
  <2>. HIDE DEF scan
  <2>. QED
    BY <1>1, <1>5
<1>7. scan[m] \in S
  <2>1. \A n \in 1..m : scan[n - 1] \in S => scan[n] \in S
    <3>. HIDE DEF scan
    <3>. QED
      BY <1>6, AfterStepOf DEF S
  <2>. HIDE DEF scan
  <2>. QED
    BY <1>1, <1>2, <1>6, <2>1, StaysIn
<1>. HIDE DEF scan
<1>8. scan[m].close \in 0..Len(t)
  BY <1>7 DEF S, Scans
<1>. QED
  BY <1>1, <1>4, <1>8 DEF Refused, m

LEMMA GreatestIs ==
  ASSUME NEW m \in Nat, NEW S, S \subseteq 0..m, S # {}
  PROVE  Greatest(S) \in S /\ \A n \in S : n <= Greatest(S)
BY MaxOf DEF Greatest

\* An expansion in a key is stepped over, with nothing of it masked.
LEMMA ExpansionOver ==
  ASSUME NEW T, NEW t \in Seq(T), NEW start \in 1..Len(t)
  PROVE  skipKeyExpansion(t, start) \in Spans(t)
<1>. DEFINE openers == IF t[start] = "${" THEN {"${"} ELSE {"$(", "("}
            closer == IF t[start] = "${" THEN "}" ELSE ")"
            depth(j) == Cardinality(At(t, openers) \cap start..j)
                          - Cardinality(At(t, {closer}) \cap start..j)
            ends == {j \in start + 1..Len(t) : t[j] = closer /\ depth(j) = 0}
            over == [edits |-> {}, close |-> Least(ends)]
<1>1. Len(t) \in Nat
  BY TextOf
<1>2. Refused \in Spans(t)
  BY <1>1 DEF Refused, Spans
<1>3. ends \subseteq 1..Len(t) /\ ends \subseteq Nat
  <2>. HIDE DEF depth, closer
  <2>. QED
    BY <1>1
<1>4. skipKeyExpansion(t, start) \in {Refused, over}
      /\ (ends = {} => skipKeyExpansion(t, start) = Refused)
  BY DEF skipKeyExpansion
<1>. HIDE DEF ends
<1>5. ends # {} => over \in Spans(t)
  <2>. DEFINE end == Least(ends)
  <2>1. ends # {} => end \in 1..Len(t)
    BY <1>3, LeastIs
  <2>. HIDE DEF end
  <2>2. end \in 1..Len(t) => [edits |-> {}, close |-> end] \in Spans(t)
    BY <1>1 DEF Spans
  <2>. QED
    BY <2>1, <2>2 DEF end
<1>. HIDE DEF over
<1>. QED
  BY <1>2, <1>4, <1>5

LEMMA KeyStepOf ==
  ASSUME NEW T, NEW t \in Seq(T), NEW s \in Scans(t, T), NEW open, NEW braced
  PROVE  KeyStep(t, open, braced, s) \in Scans(t, T)
<1>. DEFINE nested == skipKeyExpansion(t, s.at)
<1>1. CASE s.at \notin 1..Len(t)
  BY <1>1 DEF KeyStep
<1>2. CASE s.at \in 1..Len(t)
  <2>1. /\ Refuse(s) \in Scans(t, T) /\ Close(s) \in Scans(t, T)
        /\ Skip(s) \in Scans(t, T) /\ Over(s, nested) \in Scans(t, T)
        /\ t[s.at] \in Punctuation => Mask(s) \in Scans(t, T)
    BY <1>2, Moves, ExpansionOver
  <2>2. t[s.at] \in isBareKeyPunctuation \cup {" "} => t[s.at] \in Punctuation
    BY DEF Punctuation
  <2>. HIDE DEF nested
  <2>3. KeyStep(t, open, braced, s) \in {Refuse(s), Close(s), Skip(s), Over(s, nested)}
        \/ (KeyStep(t, open, braced, s) = Mask(s) /\ t[s.at] \in isBareKeyPunctuation \cup {" "})
    BY <1>2 DEF KeyStep, nested, isIdentByte, isBareKeyPunctuation
  <2>. QED
    BY <2>1, <2>2, <2>3
<1>. QED
  BY <1>1, <1>2

\* What the adapter for bare keys masks is punctuation and blanks.
LEMMA KeyScanned ==
  ASSUME NEW T, NEW t \in Seq(T), NEW open \in Nat, NEW braced
  PROVE  scanBareAssociativeKey(t, open, braced) \in Spans(t)
<1>. DEFINE m == Len(t)
            S == Scans(t, T)
            scan == CHOOSE f : f = [n \in 0..m |->
                      IF n = 0 THEN Scanning(open + 1) ELSE KeyStep(t, open, braced, f[n - 1])]
            base == Scanning(open + 1)
            step == [s \in S |-> KeyStep(t, open, braced, s)]
<1>1. m \in Nat
  BY TextOf
<1>2. base \in S
  <2>1. open + 1 \in Nat
    OBVIOUS
  <2>. QED
    BY <2>1, ScanningOf
<1>3. step \in [S -> S]
  BY KeyStepOf
<1>4. scanBareAssociativeKey(t, open, braced) = Found(scan[m])
  BY DEF scanBareAssociativeKey
<1>. HIDE DEF S, m
<1>5. scan = [n \in 0..m |-> IF n = 0 THEN Scanning(open + 1) ELSE KeyStep(t, open, braced, scan[n - 1])]
  <2>1. PICK f : Iterates(f, m, S, base, step)
    <3>. HIDE DEF step, base
    <3>. QED
      BY <1>1, <1>2, <1>3, Iterate
  <2>2. f \in [0..m -> S] /\ f[0] = base /\ \A n \in 1..m : f[n] = step[f[n - 1]]
    <3>. HIDE DEF step, base
    <3>. QED
      BY <2>1 DEF Iterates
  <2>3. ASSUME NEW n \in 1..m PROVE f[n] = KeyStep(t, open, braced, f[n - 1])
    <3>1. f[n - 1] \in S
      BY <1>1, <2>2
    <3>2. f[n] = step[f[n - 1]]
      <4>. HIDE DEF step, base
      <4>. QED
        BY <2>2
    <3>. QED
      BY <3>1, <3>2
  <2>4. f = [n \in 0..m |-> IF n = 0 THEN Scanning(open + 1) ELSE KeyStep(t, open, braced, f[n - 1])]
    BY <1>1, <2>2, <2>3
  <2>. QED
    BY <2>4
<1>6. scan[0] = Scanning(open + 1) /\ \A n \in 1..m : scan[n] = KeyStep(t, open, braced, scan[n - 1])
  <2>. HIDE DEF scan
  <2>. QED
    BY <1>1, <1>5
<1>7. scan[m] \in S
  <2>1. \A n \in 1..m : scan[n - 1] \in S => scan[n] \in S
    <3>. HIDE DEF scan
    <3>. QED
      BY <1>6, KeyStepOf DEF S
  <2>. HIDE DEF scan
  <2>. QED
    BY <1>1, <1>2, <1>6, <2>1, StaysIn
<1>. HIDE DEF scan
<1>. QED
  BY <1>4, <1>7, FoundOf DEF S

-----------------------------------------------------------------------------
(***************************************************************************)
(* An adapter that takes an error masks something of the call that was not *)
(* masked yet.                                                             *)
(***************************************************************************)
Adds(c, edits) == /\ edits \subseteq c.span \X Nat
                  /\ edits # {} => \E m \in edits : m \notin c.mask

\* The call is over sites of the file, and its error at one of them.
Served(f, c) == /\ f \in Seq(Site)
                /\ c.span \subseteq DOMAIN f
                /\ c.err.site \in c.span

LEMMA SitesOf ==
  ASSUME NEW f \in Seq(Site)
  PROVE  /\ Len(f) \in Nat /\ DOMAIN f = 1..Len(f) /\ DOMAIN f \subseteq Nat \ {0}
         /\ \A i \in DOMAIN f : f[i].text \in Seq(STRING)
<1>1. Len(f) \in Nat /\ DOMAIN f = 1..Len(f) /\ \A n \in 1..Len(f) : f[n] \in Site
  BY TextOf
<1>. QED
  BY <1>1 DEF Site

LEMMA OffsetsOf ==
  ASSUME NEW mask, NEW i, NEW p, <<i, p>> \in mask
  PROVE  p \in Offsets(mask, i)
BY DEF Offsets

\* A masked byte is the byte it was masked with.
LEMMA MaskedOf ==
  ASSUME NEW t \in Seq(STRING), NEW offsets
  PROVE  /\ Masked(t, offsets) \in Seq(STRING \cup {"_"})
         /\ Len(Masked(t, offsets)) = Len(t)
         /\ \A p \in 1..Len(t) : p \in offsets => Masked(t, offsets)[p] = "_"
<1>. DEFINE T == STRING \cup {"_"}
<1>1. Len(t) \in Nat /\ \A n \in 1..Len(t) : t[n] \in T
  BY TextOf
<1>2. Masked(t, offsets) \in [1..Len(t) -> T]
  BY <1>1 DEF Masked
<1>. HIDE DEF T
<1>3. Masked(t, offsets) \in Seq(T)
  BY <1>1, <1>2
<1>4. DOMAIN Masked(t, offsets) = 1..Len(Masked(t, offsets))
      /\ Len(Masked(t, offsets)) \in Nat
  BY <1>3, TextOf
<1>5. DOMAIN Masked(t, offsets) = 1..Len(t)
  BY <1>2
<1>6. Len(Masked(t, offsets)) = Len(t)
  BY <1>1, <1>4, <1>5
<1>. QED
  BY <1>3, <1>6 DEF Masked, T

\* Offsets of a text that read as something else than a mask.
Unmasked(t, edits) == \A p \in edits : p \in 1..Len(t) /\ t[p] # "_"

\* Such bytes of a site are new.
LEMMA TextedAdds ==
  ASSUME NEW f, NEW c, Served(f, c), NEW edits,
         NEW i \in c.span, NEW t, t = Masked(f[i].text, Offsets(c.mask, i)),
         Unmasked(t, edits)
  PROVE  Adds(c, Texted(i, edits))
<1>1. f[i].text \in Seq(STRING)
  BY SitesOf DEF Served
<1>2. Len(t) \in Nat /\ \A p \in 1..Len(t) : p \in Offsets(c.mask, i) => t[p] = "_"
  <2>. DEFINE text == f[i].text
              offsets == Offsets(c.mask, i)
  <2>. HIDE DEF text, offsets
  <2>1. text \in Seq(STRING) /\ t = Masked(text, offsets)
    BY <1>1 DEF text, offsets
  <2>. DEFINE masked == Masked(text, offsets)
  <2>2. Len(masked) = Len(text) /\ \A p \in 1..Len(text) : p \in offsets => masked[p] = "_"
    BY <2>1, MaskedOf
  <2>3. t = masked
    BY <2>1
  <2>4. Len(text) \in Nat
    BY <2>1, TextOf
  <2>. HIDE DEF masked
  <2>. QED
    BY <2>2, <2>3, <2>4 DEF offsets
<1>3. \A p \in edits : <<i, p>> \notin c.mask
  BY <1>2, OffsetsOf DEF Unmasked
<1>4. ASSUME NEW p \in edits PROVE p \in Nat /\ <<i, p>> \notin c.mask
  <2>1. p \in 1..Len(t)
    BY <1>4 DEF Unmasked
  <2>. DEFINE n == Len(t)
  <2>2. n \in Nat /\ p \in 1..n
    BY <1>2, <2>1
  <2>. HIDE DEF n
  <2>3. p \in Nat
    BY <2>2
  <2>. QED
    BY <1>3, <2>3
<1>. HIDE DEF Served
<1>. QED
  <2>1. Texted(i, edits) \subseteq c.span \X Nat
    <3>1. \A p \in edits : <<i, p>> \in c.span \X Nat
      BY <1>4
    <3>. QED
      BY <3>1 DEF Texted
  <2>2. \A m \in Texted(i, edits) : m \notin c.mask
    BY <1>4 DEF Texted
  <2>. QED
    BY <2>1, <2>2 DEF Adds

LEMMA NothingAdds ==
  ASSUME NEW c
  PROVE  Adds(c, {})
BY DEF Adds

\* A site that is not masked at all is new.
LEMMA WholeAdds ==
  ASSUME NEW f, NEW c, Served(f, c), NEW S, S \subseteq c.span,
         S # {} => \E i \in S : Offsets(c.mask, i) = {}
  PROVE  Adds(c, Whole(S))
<1>1. Whole(S) \subseteq c.span \X Nat
  BY DEF Whole
<1>2. ASSUME S # {} PROVE \E m \in Whole(S) : m \notin c.mask
  <2>1. PICK i \in S : Offsets(c.mask, i) = {}
    BY <1>2
  <2>2. <<i, 0>> \notin c.mask
    BY <2>1, OffsetsOf
  <2>. QED
    BY <2>2 DEF Whole
<1>. QED
  BY <1>1, <1>2 DEF Adds, Whole

LEMMA ActiveOf ==
  ASSUME NEW f, NEW c, NEW kind
  PROVE  /\ Active(f, c, kind) \subseteq c.span
         /\ \A i \in Active(f, c, kind) : Offsets(c.mask, i) = {}
BY DEF Active, Seen

LEMMA OpenBeforeOf ==
  ASSUME NEW T, NEW t \in Seq(T), NEW seed \in 0..Len(t)
  PROVE  OpenBefore(t, seed) \in Nat
<1>. DEFINE opener(p) == t[p] = "(" \/ (t[p] \in {"${", "$("} /\ p < seed)
            depth(p) == Cardinality(At(t, {"}", ")"}) \cap p..seed)
                          - Cardinality({k \in p..seed : k > 0 /\ opener(k)})
            opens == {p \in 0..seed : (p = 0 \/ t[p] = "[") /\ depth(p) = 0}
            open == Greatest(opens)
<1>1. Len(t) \in Nat
  BY TextOf
<1>2. OpenBefore(t, seed) = Len(t) + 1 \/ (opens # {} /\ OpenBefore(t, seed) = open)
  BY DEF OpenBefore
<1>3. opens \subseteq 0..seed
  <2>. HIDE DEF depth
  <2>. QED
    OBVIOUS
<1>. HIDE DEF opens
<1>4. opens # {} => open \in 0..seed
  <2>1. seed \in Nat
    BY <1>1
  <2>. QED
    BY <1>3, <2>1, GreatestIs
<1>. HIDE DEF open
<1>. QED
  BY <1>1, <1>2, <1>4

LEMMA KeyAdds ==
  ASSUME NEW f, NEW c, Served(f, c)
  PROVE  Adds(c, KeyEdits(f, c))
<1>. DEFINE i == c.err.site
            t == Masked(f[i].text, Offsets(c.mask, i))
            braced == f[i].form = "braced"
            seed == c.err.at
            edits == findBareAssociativeKey(t, braced, f[i].kind = "flag", c.err.class, seed)
<1>1. i \in c.span /\ f[i].text \in Seq(STRING)
  BY SitesOf DEF Served
<1>2. KeyEdits(f, c) \in {Texted(i, edits), {}}
  BY DEF KeyEdits
<1>3. Adds(c, Texted(i, edits))
  <2>. DEFINE T == STRING \cup {"_"}
              offsets == Offsets(c.mask, i)
  <2>. HIDE DEF i, T, offsets
  <2>1. t \in Seq(T)
    BY <1>1, MaskedOf DEF T
  <2>2. t = Masked(f[i].text, offsets)
    BY DEF offsets
  <2>. HIDE DEF t
  <2>. DEFINE open == IF seed \in 0..Len(t) THEN OpenBefore(t, seed) ELSE Len(t) + 1
              key == scanBareAssociativeKey(t, open, braced)
  <2>3. edits \in {key.edits, {}}
    BY DEF findBareAssociativeKey
  <2>4. open \in Nat
    BY <2>1, TextOf, OpenBeforeOf
  <2>. HIDE DEF open
  <2>5. key.edits \subseteq At(t, Punctuation)
    BY <2>1, <2>4, KeyScanned DEF Spans
  <2>. HIDE DEF edits, key
  <2>6. \A p \in At(t, Punctuation) : p \in 1..Len(t) /\ t[p] # "_"
    BY DEF At, Punctuation, isBareKeyPunctuation
  <2>7. \A p \in edits : p \in 1..Len(t) /\ t[p] # "_"
    BY <2>3, <2>5, <2>6
  <2>. QED
    BY <1>1, <2>2, <2>7, TextedAdds DEF offsets, Unmasked
<1>. QED
  BY <1>2, <1>3, NothingAdds

LEMMA FlagAdds ==
  ASSUME NEW f, NEW c, Served(f, c)
  PROVE  Adds(c, FlagEdits(f, c))
<1>. DEFINE i == c.err.site
            t == Masked(f[i].text, Offsets(c.mask, i))
            edits == scanFlagPatternBrackets(t).edits
<1>1. i \in c.span /\ f[i].text \in Seq(STRING)
  BY SitesOf DEF Served
<1>2. FlagEdits(f, c) \in {Texted(i, edits), {}}
  BY DEF FlagEdits
<1>3. Adds(c, Texted(i, edits))
  <2>. DEFINE T == STRING \cup {"_"}
              offsets == Offsets(c.mask, i)
  <2>. HIDE DEF i, T, offsets
  <2>1. t \in Seq(T)
    BY <1>1, MaskedOf DEF T
  <2>2. t = Masked(f[i].text, offsets)
    BY DEF offsets
  <2>. HIDE DEF t
  <2>3. edits \subseteq At(t, Punctuation)
    BY <2>1, PatternScanned DEF Spans
  <2>. HIDE DEF edits
  <2>4. \A p \in edits : p \in 1..Len(t) /\ t[p] # "_"
    BY <2>3 DEF At, Punctuation, isBareKeyPunctuation
  <2>. QED
    BY <1>1, <2>2, <2>4, TextedAdds DEF offsets, Unmasked
<1>. QED
  BY <1>2, <1>3, NothingAdds

LEMMA CommaAdds ==
  ASSUME NEW f, NEW c, Served(f, c)
  PROVE  Adds(c, CommaEdits(f, c))
<1>. DEFINE i == c.err.site
            t == Masked(f[i].text, Offsets(c.mask, i))
            after == locatePatternAfterComma(t, c.err.at)
            edits == {p \in after.edits : t[p] # "_"}
<1>1. i \in c.span /\ f[i].text \in Seq(STRING)
  BY SitesOf DEF Served
<1>2. CommaEdits(f, c) \in {Texted(i, edits), {}}
  BY DEF CommaEdits
<1>3. Adds(c, Texted(i, edits))
  <2>. DEFINE T == STRING \cup {"_"}
              offsets == Offsets(c.mask, i)
  <2>. HIDE DEF i, T, offsets
  <2>1. t \in Seq(T)
    BY <1>1, MaskedOf DEF T
  <2>2. t = Masked(f[i].text, offsets)
    BY DEF offsets
  <2>. HIDE DEF t
  <2>. DEFINE end == flagPatternEnd(t)
              own == scanPatternAfterComma(t, end)
              later == scanPatternAfterComma(t, end + 1)
  <2>3. end \in Nat /\ end + 1 \in Nat
    <3>1. Len(t) \in Nat /\ end \in 0..Len(t)
      BY <2>1, TextOf, PatternEnds
    <3>. QED
      BY <3>1
  <2>4. after \in {own, later, Refused}
    BY DEF locatePatternAfterComma
  <2>. HIDE DEF end
  <2>5. own.edits \subseteq 1..Len(t)
    BY <2>1, <2>3, AfterComma
  <2>6. later.edits \subseteq 1..Len(t)
    <3>. DEFINE next == end + 1
    <3>. HIDE DEF next
    <3>1. scanPatternAfterComma(t, next).edits \subseteq 1..Len(t)
      <4>1. next \in Nat
        BY <2>3 DEF next
      <4>. QED
        BY <2>1, <4>1, AfterComma
    <3>. QED
      BY <3>1 DEF next
  <2>. HIDE DEF own, later, after
  <2>7. after.edits \subseteq 1..Len(t)
    BY <2>4, <2>5, <2>6 DEF Refused
  <2>8. \A p \in edits : p \in 1..Len(t) /\ t[p] # "_"
    BY <2>7
  <2>. HIDE DEF edits
  <2>. QED
    BY <1>1, <2>2, <2>8, TextedAdds DEF offsets, Unmasked
<1>. QED
  BY <1>2, <1>3, NothingAdds

LEMMA AlternationAdds ==
  ASSUME NEW f, NEW c, Served(f, c)
  PROVE  Adds(c, AlternationEdits(f, c)) /\ Islands(f, c) \subseteq c.span
<1>. DEFINE active == Active(f, c, "alternation")
            S == active \cup Islands(f, c)
<1>1. Islands(f, c) \subseteq c.span
  BY DEF Islands
<1>2. CASE c.err.site \in active
  <2>1. S \subseteq c.span /\ \E i \in S : Offsets(c.mask, i) = {}
    BY <1>1, <1>2, ActiveOf
  <2>. HIDE DEF S
  <2>2. Adds(c, Whole(S))
    BY <2>1, WholeAdds
  <2>. QED
    BY <1>1, <2>2, NothingAdds DEF AlternationEdits, S
<1>3. CASE c.err.site \notin active
  BY <1>1, <1>3, NothingAdds DEF AlternationEdits
<1>. QED
  BY <1>2, <1>3

\* A set of the active sites, or none.
LEMMA ActiveAdds ==
  ASSUME NEW f, NEW c, Served(f, c), NEW kind, NEW S, S \subseteq Active(f, c, kind)
  PROVE  Adds(c, Whole(S))
<1>1. S \subseteq c.span /\ \A i \in S : Offsets(c.mask, i) = {}
  BY ActiveOf
<1>. QED
  BY <1>1, WholeAdds

\* The adapters of one site.
LEMMA OneAdds ==
  ASSUME NEW f, NEW c, Served(f, c)
  PROVE  Adds(c, SemiEdits(f, c)) /\ Adds(c, MultiEdits(f, c)) /\ Adds(c, AssignEdits(f, c))
<1>1. Adds(c, SemiEdits(f, c))
  <2>. DEFINE later == {i \in Seen(f, c.span, c.mask) : f[i].kind = "semi" /\ i >= c.err.site}
              found == {i \in Active(f, c, "semi") :
                          c.err.site # 0 /\ i \in later /\ \A j \in later : i <= j}
  <2>1. SemiEdits(f, c) \in {Whole(found), {}}
    BY DEF SemiEdits
  <2>2. found \subseteq Active(f, c, "semi")
    OBVIOUS
  <2>. HIDE DEF found
  <2>. QED
    BY <2>1, <2>2, ActiveAdds, NothingAdds
<1>2. ASSUME NEW kind, c.err.site \in Active(f, c, kind) PROVE Adds(c, Whole({c.err.site}))
  <2>. DEFINE S == {c.err.site}
  <2>1. S \subseteq Active(f, c, kind)
    BY <1>2
  <2>. HIDE DEF S
  <2>2. Adds(c, Whole(S))
    BY <2>1, ActiveAdds
  <2>. QED
    BY <2>2 DEF S
<1>3. Adds(c, MultiEdits(f, c))
  BY <1>2, NothingAdds DEF MultiEdits
<1>4. Adds(c, AssignEdits(f, c))
  BY <1>2, NothingAdds DEF AssignEdits
<1>. QED
  BY <1>1, <1>3, <1>4

LEMMA AlwaysAdds ==
  ASSUME NEW f, NEW c, Served(f, c)
  PROVE  Adds(c, AlwaysEdits(f, c)) /\ Adds(c, MathEdits(f, c))
<1>1. Adds(c, Whole(Active(f, c, "always"))) /\ Adds(c, Whole(Active(f, c, "math")))
  BY ActiveAdds
<1>. QED
  BY <1>1, NothingAdds DEF AlwaysEdits, MathEdits

LEMMA BraceAdds ==
  ASSUME NEW f, NEW c, Served(f, c)
  PROVE  Adds(c, BraceEdits(f, c))
<1>. DEFINE braces == Active(f, c, "brace")
            sites == CASE c.err.class = "unclosed" -> { i \in braces : i >= c.err.site }
                       [] c.err.class = "keyword"  -> { i \in braces : i <= c.err.site }
                       [] OTHER -> {}
            S == {Least(sites)}
<1>1. sites \subseteq braces
  OBVIOUS
<1>2. BraceEdits(f, c) = IF sites = {} THEN {} ELSE Whole(S)
  BY DEF BraceEdits
<1>3. braces \subseteq c.span /\ \A i \in braces : Offsets(c.mask, i) = {}
  BY ActiveOf
<1>4. c.span \subseteq Nat
  BY SitesOf DEF Served
<1>. HIDE DEF braces, sites
<1>5. sites # {} => Least(sites) \in sites
  BY <1>1, <1>3, <1>4, LeastIs
<1>6. sites # {} => S \subseteq c.span /\ \A i \in S : Offsets(c.mask, i) = {}
  BY <1>1, <1>3, <1>5
<1>. HIDE DEF S
<1>7. sites # {} => Adds(c, Whole(S))
  BY <1>6, WholeAdds
<1>. QED
  BY <1>2, <1>7, NothingAdds

LEMMA NestedAdds ==
  ASSUME NEW f, NEW c, Served(f, c)
  PROVE  Adds(c, NestedEdits(f, c))
<1>. DEFINE i == c.err.site
            hosts == {h \in Active(f, c, "nested") : h = i \/ i \in Inside(f, h)}
            S == {Greatest(hosts)}
<1>1. NestedEdits(f, c) = IF hosts = {} THEN {} ELSE Whole(S)
  BY DEF NestedEdits
<1>2. hosts \subseteq Active(f, c, "nested")
  OBVIOUS
<1>3. Active(f, c, "nested") \subseteq 0..Len(f) /\ Len(f) \in Nat
  <2>1. c.span \subseteq 1..Len(f) /\ Len(f) \in Nat
    BY SitesOf DEF Served
  <2>. QED
    BY <2>1, ActiveOf
<1>. HIDE DEF hosts
<1>4. hosts # {} => Greatest(hosts) \in hosts
  BY <1>2, <1>3, GreatestIs
<1>5. hosts # {} => S \subseteq Active(f, c, "nested")
  BY <1>2, <1>4
<1>. HIDE DEF S
<1>. QED
  BY <1>1, <1>5, ActiveAdds, NothingAdds

Adapters == {"alternation", "key", "flag", "comma", "always", "semi",
             "multi", "assign", "brace", "math", "nested"}

LEMMA EditsAdd ==
  ASSUME NEW f, NEW c, Served(f, c), NEW a \in Adapters
  PROVE  Adds(c, Edits(a, f, c))
<1>1. /\ Adds(c, {}) /\ Adds(c, AlternationEdits(f, c)) /\ Adds(c, KeyEdits(f, c))
      /\ Adds(c, FlagEdits(f, c)) /\ Adds(c, CommaEdits(f, c)) /\ Adds(c, AlwaysEdits(f, c))
      /\ Adds(c, BraceEdits(f, c)) /\ Adds(c, MathEdits(f, c)) /\ Adds(c, NestedEdits(f, c))
      /\ Adds(c, SemiEdits(f, c)) /\ Adds(c, MultiEdits(f, c)) /\ Adds(c, AssignEdits(f, c))
  BY NothingAdds, AlternationAdds, KeyAdds, FlagAdds, CommaAdds, AlwaysAdds, BraceAdds,
     NestedAdds, OneAdds
<1>2. Edits(a, f, c) \in
        {{}, AlternationEdits(f, c), KeyEdits(f, c), FlagEdits(f, c), CommaEdits(f, c),
         AlwaysEdits(f, c), SemiEdits(f, c), MultiEdits(f, c), AssignEdits(f, c),
         BraceEdits(f, c), MathEdits(f, c), NestedEdits(f, c)}
  BY DEF Edits, Adapters
<1>. QED
  BY <1>1, <1>2
-----------------------------------------------------------------------------
(***************************************************************************)
(* The base parser's error is at a site it was given.                      *)
(***************************************************************************)
LEMMA AnswersAt ==
  ASSUME NEW f, NEW span, NEW mask, NEW i, NEW e \in Answers(f, span, mask, i), e # NoErr
  PROVE  e.site = i
<1>. DEFINE s == f[i]
            texted == {ErrorAt(q[1], i, q[2]) : q \in Named(Masked(s.text, Offsets(mask, i)))}
            said == {ErrorAt(class, i, 0) : class \in s.says}
            silent == IF s.says = {} \/ s.host \in {h \in span : f[h].kind = "nested"}
                      THEN {NoErr} ELSE {}
            errors == silent \cup said
            other == {ErrorAt("other", i, 0)}
<1>1. Answers(f, span, mask, i) \subseteq {NoErr} \cup texted \cup errors \cup other
  <2>. DEFINE words == {0} \cup {j \in DOMAIN f : f[j].host = i}
  <2>1. Answers(f, span, mask, i) =
          CASE s.text # <<>> -> {NoErr} \cup texted
            [] s.text = <<>> /\ s.kind = "anon" ->
                 IF words \subseteq Offsets(mask, i) THEN {NoErr} ELSE errors
            [] s.text = <<>> /\ s.kind = "cr" ->
                 IF <<i, 0>> \in mask /\ s.form = "word" THEN other ELSE {NoErr}
            [] OTHER -> IF Offsets(mask, i) # {} THEN {NoErr} ELSE errors
    BY DEF Answers
  <2>. HIDE DEF texted, errors, other, words
  <2>. QED
    BY <2>1
<1>2. /\ \A q \in texted \cup said \cup other : q.site = i
      /\ silent \subseteq {NoErr}
  BY DEF ErrorAt
<1>. HIDE DEF texted, said, silent, other
<1>. QED
  BY <1>1, <1>2

LEMMA BaseErrorOf ==
  ASSUME NEW f, NEW span, NEW mask, NEW e \in BaseErrors(f, span, mask), e # NoErr
  PROVE  e.site \in span
<1>. DEFINE sites == Seen(f, span, mask)
            errors == UNION {Answers(f, span, mask, i) : i \in sites}
<1>1. e \in errors
  <2>1. BaseErrors(f, span, mask) \subseteq errors \cup {NoErr}
    BY DEF BaseErrors
  <2>. HIDE DEF errors
  <2>. QED
    BY <2>1
<1>2. PICK i \in sites : e \in Answers(f, span, mask, i)
  BY <1>1
<1>3. i \in span
  BY DEF Seen
<1>. QED
  BY <1>2, <1>3, AnswersAt
-----------------------------------------------------------------------------
(***************************************************************************)
(* The inductive invariant.                                                *)
(***************************************************************************)
Masks == SUBSET (Nat \X Nat)
Trees == [read : Masks, left : Masks]

\* What the base parser answers, and the errors the chain builds itself.
Readings == UNION {BaseErrors(q[1], q[2], q[3]) : q \in Seq(Site) \X (SUBSET Nat) \X Masks}
Errors == {e \in Readings \cup [class : {"none", "restore", "island"}, site : Nat, at : {0}] :
             e.site \in Nat}
Results == [ok : BOOLEAN, tree : Trees, err : Errors]

Stages == {"enter", "load", "swap", "parse", "attempt", "settle", "graft", "leave"}
Levels == [span : SUBSET Nat, mask : Masks, stage : Stages, depth : Nat, seen : Nat,
           err : Errors, next : Nat \ {0}, adapter : Adapters \cup {"none"}, edits : Masks,
           islands : SUBSET Nat, result : Results]

Works == [cut : Masks, kept : BOOLEAN, anonymous : BOOLEAN, tree : Trees, mask : Masks,
          candidates : Seq(Errors),
          words : [site : Nat, end : Nat, tree : Trees, cut : Masks],
          err : Errors, closers : Masks, previous : Errors, appended : Nat]

Phases == {"reset", "resetDepth", "start", "chain", "cuts", "anonymous", "words",
           "wordCuts", "wordRepair", "bind", "validate", "prefix", "resolve", "resolved", "conditional", "returns", "probe",
           "loopWords", "braces", "patterns", "file", "done"}

ChainTypes == /\ file \in [Goroutines -> Seq(Site)]
              /\ phase \in [Goroutines -> Phases]
              /\ stack \in [Goroutines -> Seq(Levels)]
              /\ answer \in [Goroutines -> Results]
              /\ work \in [Goroutines -> Works]
              /\ maxAdapterDepth \in Nat
              /\ entered \subseteq Nat

\* A level of the chain: its error is at a site of its own, the edits of the
\* adapter it is in are new, and it saw a maximum below its depth.
LevelOk(f, call) ==
  /\ call.span \subseteq DOMAIN f
  /\ call.stage \in {"attempt", "settle", "graft"} => call.err.site \in call.span
  /\ call.stage \in {"settle", "graft"} =>
       /\ Adds(call, call.edits) /\ call.edits # {}
       /\ call.islands \subseteq call.span
  /\ call.stage = "leave" /\ ~call.result.ok => call.result.err.site \in call.span
  /\ call.stage = "swap" => call.seen < call.depth

\* A level and the one it was called from.
NestedOk(inner, outer) ==
  /\ inner.span \subseteq outer.span
  /\ outer.stage \in {"settle", "graft"}
  /\ outer.stage = "settle" => inner.mask = outer.mask \cup outer.edits

StackOk(f, s) == /\ \A k \in 1..Len(s) : LevelOk(f, s[k])
                 /\ \A k \in 1..Len(s) - 1 : NestedOk(s[k], s[k + 1])
StacksInv == \A c \in Goroutines : StackOk(file[c], stack[c])

\* What the phases around the chain rely on.
PhaseInv == \A c \in Goroutines :
  /\ phase[c] = "resolved" => Unresolved(c) # {}
  /\ phase[c] = "prefix" => work[c].candidates # <<>>

StatsInv == /\ IsFiniteSet(Calls) /\ adapterNesting = Cardinality(Calls)
            /\ \A d \in entered : d <= maxAdapterDepth

ChainInv == ChainTypes /\ StacksInv /\ PhaseInv /\ StatsInv
-----------------------------------------------------------------------------
(***************************************************************************)
(* The stack of one caller.                                                *)
(***************************************************************************)
\* Two levels that lie over the same sites under the same mask.
Alike(x, y) == x.span = y.span /\ x.mask = y.mask

\* The top changes.
LEMMA TopStack ==
  ASSUME NEW f, NEW s \in Seq(Levels), s # <<>>, StackOk(f, s),
         NEW call \in Levels, LevelOk(f, call), Alike(call, s[1])
  PROVE  /\ [s EXCEPT ![1] = call] \in Seq(Levels) /\ Len([s EXCEPT ![1] = call]) = Len(s)
         /\ [s EXCEPT ![1] = call][1] = call
         /\ StackOk(f, [s EXCEPT ![1] = call])
<1>. DEFINE t == [s EXCEPT ![1] = call]
<1>1. Len(s) \in Nat /\ DOMAIN s = 1..Len(s) /\ 1 \in 1..Len(s)
  BY TextOf, EmptySeq
<1>2. t \in Seq(Levels) /\ Len(t) = Len(s)
  BY ExceptSeq
<1>3. t[1] = call /\ \A k \in 1..Len(s) : k # 1 => t[k] = s[k]
  BY <1>1
<1>. HIDE DEF t
<1>4. \A k \in 1..Len(t) : LevelOk(f, t[k])
  BY <1>2, <1>3 DEF StackOk
<1>5. ASSUME NEW k \in 1..Len(t) - 1 PROVE NestedOk(t[k], t[k + 1])
  <2>1. NestedOk(s[k], s[k + 1]) /\ t[k + 1] = s[k + 1] /\ Alike(t[k], s[k])
    <3>1. k \in 1..Len(s) /\ k + 1 \in 1..Len(s) /\ k + 1 # 1
      BY <1>1, <1>2
    <3>. QED
      BY <1>2, <1>3, <3>1 DEF StackOk, Alike
  <2>. QED
    BY <2>1 DEF NestedOk, Alike
<1>. QED
  BY <1>2, <1>3, <1>4, <1>5 DEF StackOk, t

\* A level is called.
LEMMA PushStack ==
  ASSUME NEW f, NEW s \in Seq(Levels), s # <<>>, StackOk(f, s),
         NEW inner \in Levels, LevelOk(f, inner),
         NEW outer \in Levels, LevelOk(f, outer), Alike(outer, s[1]), NestedOk(inner, outer)
  PROVE  /\ <<inner, outer>> \o Tail(s) \in Seq(Levels)
         /\ Len(<<inner, outer>> \o Tail(s)) = Len(s) + 1
         /\ (<<inner, outer>> \o Tail(s))[1] = inner
         /\ StackOk(f, <<inner, outer>> \o Tail(s))
<1>. DEFINE two == <<inner, outer>>
            t == two \o Tail(s)
<1>1. Len(s) \in Nat /\ DOMAIN s = 1..Len(s) /\ 1 \in 1..Len(s)
  BY TextOf, EmptySeq
<1>2. two \in Seq(Levels) /\ Len(two) = 2 /\ two[1] = inner /\ two[2] = outer
  OBVIOUS
<1>3. Tail(s) \in Seq(Levels) /\ Len(Tail(s)) = Len(s) - 1
      /\ \A k \in 1..Len(s) - 1 : Tail(s)[k] = s[k + 1]
  BY HeadTailProperties
<1>. HIDE DEF two
<1>4. t \in Seq(Levels) /\ Len(t) = Len(s) + 1
      /\ \A k \in 1..Len(s) + 1 : t[k] = IF k <= 2 THEN two[k] ELSE Tail(s)[k - 2]
  <2>. DEFINE tail == Tail(s)
  <2>. HIDE DEF tail
  <2>1. tail \in Seq(Levels) /\ Len(tail) = Len(s) - 1
    BY <1>3 DEF tail
  <2>2. /\ two \o tail \in Seq(Levels) /\ Len(two \o tail) = Len(two) + Len(tail)
        /\ \A k \in 1..Len(two) + Len(tail) :
             (two \o tail)[k] = IF k <= Len(two) THEN two[k] ELSE tail[k - Len(two)]
    BY <1>2, <2>1, ConcatProperties
  <2>. QED
    BY <1>1, <1>2, <2>1, <2>2 DEF tail
<1>5. t[1] = inner /\ t[2] = outer /\ \A k \in 3..Len(s) + 1 : t[k] = s[k - 1]
  <2>1. ASSUME NEW k \in 3..Len(s) + 1 PROVE t[k] = s[k - 1]
    <3>1. k \in 1..Len(s) + 1 /\ ~(k <= 2) /\ k - 2 \in 1..Len(s) - 1 /\ (k - 2) + 1 = k - 1
      BY <1>1
    <3>. QED
      BY <1>3, <1>4, <3>1
  <2>. QED
    BY <1>1, <1>2, <1>4, <2>1
<1>. HIDE DEF t
<1>6. ASSUME NEW k \in 1..Len(t) PROVE LevelOk(f, t[k])
  <2>1. k = 1 \/ k = 2 \/ (k \in 3..Len(s) + 1 /\ k - 1 \in 1..Len(s))
    BY <1>1, <1>4
  <2>. QED
    BY <1>5, <2>1 DEF StackOk
<1>7. ASSUME NEW k \in 1..Len(t) - 1 PROVE NestedOk(t[k], t[k + 1])
  <2>1. CASE k = 1
    BY <1>5, <2>1
  <2>2. CASE k # 1
    <3>1. /\ k - 1 \in 1..Len(s) - 1 /\ k + 1 \in 3..Len(s) + 1 /\ (k - 1) + 1 = k
          /\ (k + 1) - 1 = k /\ (k = 2 \/ k \in 3..Len(s) + 1)
      BY <1>1, <1>4, <2>2
    <3>2. NestedOk(s[k - 1], s[k]) /\ t[k + 1] = s[k]
      BY <1>5, <3>1 DEF StackOk
    <3>3. Alike(t[k], s[k - 1])
      <4>1. CASE k = 2
        BY <1>5, <4>1
      <4>2. CASE k \in 3..Len(s) + 1
        BY <1>5, <4>2 DEF Alike
      <4>. QED
        BY <3>1, <4>1, <4>2
    <3>. QED
      BY <3>2, <3>3 DEF NestedOk, Alike
  <2>. QED
    BY <2>1, <2>2
<1>. QED
  BY <1>4, <1>5, <1>6, <1>7 DEF StackOk, t, two

\* A level returns to the one it was called from.
LEMMA PopStack ==
  ASSUME NEW f, NEW s \in Seq(Levels), Len(s) > 1, StackOk(f, s),
         NEW call \in Levels, LevelOk(f, call), Alike(call, s[2])
  PROVE  /\ <<call>> \o SubSeq(s, 3, Len(s)) \in Seq(Levels)
         /\ Len(<<call>> \o SubSeq(s, 3, Len(s))) = Len(s) - 1
         /\ (<<call>> \o SubSeq(s, 3, Len(s)))[1] = call
         /\ StackOk(f, <<call>> \o SubSeq(s, 3, Len(s)))
<1>. DEFINE one == <<call>>
            rest == SubSeq(s, 3, Len(s))
            t == one \o rest
<1>1. Len(s) \in Nat /\ DOMAIN s = 1..Len(s) /\ 2 \in 1..Len(s)
  BY TextOf
<1>2. one \in Seq(Levels) /\ Len(one) = 1 /\ one[1] = call
  OBVIOUS
<1>3. rest \in Seq(Levels) /\ Len(rest) = Len(s) - 2
      /\ \A k \in 1..Len(s) - 2 : rest[k] = s[k + 2]
  <2>. DEFINE n == Len(s)
              m == 3
  <2>1. n \in Int /\ m \in Int /\ \A i \in m..n : s[i] \in Levels
    BY <1>1, TextOf
  <2>. HIDE DEF n, m
  <2>2. /\ SubSeq(s, m, n) \in Seq(Levels)
        /\ Len(SubSeq(s, m, n)) = IF m <= n THEN n - m + 1 ELSE 0
        /\ \A i \in 1..n - m + 1 : SubSeq(s, m, n)[i] = s[m + i - 1]
    BY <2>1, SubSeqProperties
  <2>3. rest = SubSeq(s, m, n)
    BY DEF m, n
  <2>. HIDE DEF rest
  <2>4. Len(rest) = Len(s) - 2
    BY <1>1, <2>2, <2>3 DEF m, n
  <2>5. ASSUME NEW k \in 1..Len(s) - 2 PROVE rest[k] = s[k + 2]
    <3>1. k \in 1..n - m + 1 /\ m + k - 1 = k + 2
      BY <1>1 DEF m, n
    <3>. QED
      BY <2>2, <2>3, <3>1
  <2>. QED
    BY <2>2, <2>3, <2>4, <2>5
<1>. HIDE DEF one, rest
<1>4. t \in Seq(Levels) /\ Len(t) = Len(s) - 1
      /\ \A k \in 1..Len(s) - 1 : t[k] = IF k <= 1 THEN one[k] ELSE rest[k - 1]
  <2>1. /\ one \o rest \in Seq(Levels) /\ Len(one \o rest) = Len(one) + Len(rest)
        /\ \A k \in 1..Len(one) + Len(rest) :
             (one \o rest)[k] = IF k <= Len(one) THEN one[k] ELSE rest[k - Len(one)]
    BY <1>2, <1>3, ConcatProperties
  <2>. QED
    BY <1>1, <1>2, <1>3, <2>1
<1>5. t[1] = call /\ \A k \in 2..Len(s) - 1 : t[k] = s[k + 1]
  <2>1. ASSUME NEW k \in 2..Len(s) - 1 PROVE t[k] = s[k + 1]
    <3>1. k \in 1..Len(s) - 1 /\ ~(k <= 1) /\ k - 1 \in 1..Len(s) - 2 /\ (k - 1) + 2 = k + 1
      BY <1>1
    <3>. QED
      BY <1>3, <1>4, <3>1
  <2>. QED
    BY <1>1, <1>2, <1>4, <2>1
<1>. HIDE DEF t
<1>6. ASSUME NEW k \in 1..Len(t) PROVE LevelOk(f, t[k])
  <2>1. k = 1 \/ (k \in 2..Len(s) - 1 /\ k + 1 \in 1..Len(s))
    BY <1>1, <1>4
  <2>. QED
    BY <1>5, <2>1 DEF StackOk
<1>7. ASSUME NEW k \in 1..Len(t) - 1 PROVE NestedOk(t[k], t[k + 1])
  <2>1. /\ k + 1 \in 1..Len(s) - 1 /\ k + 1 \in 2..Len(s) - 1
        /\ (k = 1 \/ k \in 2..Len(s) - 1)
    BY <1>1, <1>4
  <2>2. NestedOk(s[k + 1], s[k + 1 + 1]) /\ t[k + 1] = s[k + 1 + 1]
    BY <1>5, <2>1 DEF StackOk
  <2>3. Alike(t[k], s[k + 1])
    <3>1. CASE k = 1
      BY <1>5, <3>1
    <3>2. CASE k \in 2..Len(s) - 1
      BY <1>5, <3>2 DEF Alike
    <3>. QED
      BY <2>1, <3>1, <3>2
  <2>. QED
    BY <2>2, <2>3 DEF NestedOk, Alike
<1>. QED
  BY <1>4, <1>5, <1>6, <1>7 DEF StackOk, t, one, rest
-----------------------------------------------------------------------------
(***************************************************************************)
(* The calls that are counted.                                             *)
(***************************************************************************)
CallsIn(st) ==
  UNION { { <<c, Len(st[c]) - k>> : k \in { k \in DOMAIN st[c] : st[c][k].stage # "enter" } } :
            c \in Goroutines }

\* How many levels of a stack are counted; below the top all are.
Counted(s) == IF s = <<>> THEN 0
              ELSE IF s[1].stage = "enter" THEN Len(s) - 1 ELSE Len(s)
Deep(st) == /\ st \in [Goroutines -> Seq(Levels)]
            /\ \A c \in Goroutines : \A k \in 2..Len(st[c]) : st[c][k].stage # "enter"

LEMMA CountedOf ==
  ASSUME NEW s \in Seq(Levels)
  PROVE  Counted(s) \in Nat /\ (s # <<>> => 1 \in 1..Len(s))
<1>1. Len(s) \in Nat /\ (s # <<>> => Len(s) # 0)
  BY LenProperties, EmptySeq
<1>. QED
  BY <1>1 DEF Counted

LEMMA CallsAre ==
  ASSUME NEW st, Deep(st)
  PROVE  CallsIn(st) = {p \in Goroutines \X Nat : p[2] < Counted(st[p[1]])}
<1>. DEFINE Calling(c) == {<<c, Len(st[c]) - k>> : k \in {k \in DOMAIN st[c] : st[c][k].stage # "enter"}}
            all == {p \in Goroutines \X Nat : p[2] < Counted(st[p[1]])}
<1>1. ASSUME NEW c \in Goroutines
      PROVE  /\ Len(st[c]) \in Nat /\ DOMAIN st[c] = 1..Len(st[c])
             /\ Counted(st[c]) \in Nat /\ (st[c] # <<>> => 1 \in 1..Len(st[c]))
             /\ (st[c] = <<>> => Len(st[c]) = 0)
  <2>1. st[c] \in Seq(Levels)
    BY DEF Deep
  <2>. QED
    BY <2>1, TextOf, CountedOf, EmptySeq
<1>2. ASSUME NEW c \in Goroutines, NEW k \in DOMAIN st[c], st[c][k].stage # "enter"
      PROVE  <<c, Len(st[c]) - k>> \in all
  <2>1. Len(st[c]) - k \in Nat /\ Len(st[c]) - k < Counted(st[c])
    <3>1. k \in 1..Len(st[c]) /\ st[c] # <<>>
      BY <1>1
    <3>2. CASE st[c][1].stage = "enter"
      <4>1. k # 1 /\ Counted(st[c]) = Len(st[c]) - 1
        BY <1>2, <3>1, <3>2 DEF Counted
      <4>. QED
        BY <1>1, <3>1, <4>1
    <3>3. CASE st[c][1].stage # "enter"
      <4>1. Counted(st[c]) = Len(st[c])
        BY <3>1, <3>3 DEF Counted
      <4>. QED
        BY <1>1, <3>1, <4>1
    <3>. QED
      BY <3>2, <3>3
  <2>. QED
    BY <2>1
<1>3. ASSUME NEW c \in Goroutines, NEW n \in Nat, n < Counted(st[c])
      PROVE  <<c, n>> \in Calling(c)
  <2>. DEFINE k == Len(st[c]) - n
  <2>1. k \in DOMAIN st[c] /\ st[c][k].stage # "enter"
    <3>1. st[c] # <<>>
      BY <1>3 DEF Counted
    <3>2. CASE st[c][1].stage = "enter"
      <4>1. Counted(st[c]) = Len(st[c]) - 1
        BY <3>1, <3>2 DEF Counted
      <4>2. k \in 2..Len(st[c]) /\ k \in 1..Len(st[c])
        BY <1>1, <1>3, <4>1
      <4>. QED
        BY <1>1, <4>2 DEF Deep
    <3>3. CASE st[c][1].stage # "enter"
      <4>1. Counted(st[c]) = Len(st[c])
        BY <3>1, <3>3 DEF Counted
      <4>2. k \in 1..Len(st[c]) /\ (k = 1 \/ k \in 2..Len(st[c]))
        BY <1>1, <1>3, <4>1
      <4>3. k \in 2..Len(st[c]) => st[c][k].stage # "enter"
        BY DEF Deep
      <4>. QED
        BY <1>1, <3>3, <4>2, <4>3
    <3>. QED
      BY <3>2, <3>3
  <2>2. n = Len(st[c]) - k
    BY <1>1
  <2>. HIDE DEF k
  <2>. QED
    BY <2>1, <2>2
<1>4. CallsIn(st) = UNION {Calling(c) : c \in Goroutines}
  BY DEF CallsIn
<1>5. \A c \in Goroutines : \A p \in Calling(c) : p \in all
  BY <1>2
<1>6. \A p \in all : p[1] \in Goroutines /\ p[2] \in Nat /\ p = <<p[1], p[2]>> /\ p[2] < Counted(st[p[1]])
  OBVIOUS
<1>. HIDE DEF all
<1>7. \A p \in all : p \in Calling(p[1]) /\ p[1] \in Goroutines
  <2>. HIDE DEF Calling
  <2>. QED
    BY <1>3, <1>6
<1>. HIDE DEF Calling
<1>8. CallsIn(st) = all
  BY <1>4, <1>5, <1>7
<1>. QED
  BY <1>8 DEF all

LEMMA SameCalls ==
  ASSUME NEW st, NEW new, Deep(st), Deep(new),
         \A c \in Goroutines : Counted(new[c]) = Counted(st[c])
  PROVE  CallsIn(new) = CallsIn(st)
<1>1. CallsIn(st) = {p \in Goroutines \X Nat : p[2] < Counted(st[p[1]])}
  BY CallsAre
<1>2. CallsIn(new) = {p \in Goroutines \X Nat : p[2] < Counted(new[p[1]])}
  BY CallsAre
<1>. QED
  BY <1>1, <1>2

\* One more level of one caller is one more call, and one less is one less.
LEMMA OneMoreCall ==
  ASSUME NEW st, NEW new, Deep(st), Deep(new), NEW c \in Goroutines,
         Counted(new[c]) = Counted(st[c]) + 1,
         \A d \in Goroutines : d # c => Counted(new[d]) = Counted(st[d])
  PROVE  /\ CallsIn(st) \subseteq CallsIn(new)
         /\ IsFiniteSet(CallsIn(st)) => /\ IsFiniteSet(CallsIn(new))
                                        /\ Cardinality(CallsIn(new)) = Cardinality(CallsIn(st)) + 1
<1>. DEFINE n == Counted(st[c])
            one == <<c, n>>
            E(p) == Counted(st[p[1]])
            N(p) == Counted(new[p[1]])
<1>1. CallsIn(st) = {p \in Goroutines \X Nat : p[2] < E(p)}
  BY CallsAre
<1>2. CallsIn(new) = {p \in Goroutines \X Nat : p[2] < N(p)}
  BY CallsAre
<1>3. n \in Nat
  BY CountedOf DEF Deep
<1>4. ASSUME NEW p \in Goroutines \X Nat
      PROVE  (p[2] < N(p)) <=> (p[2] < E(p) \/ p = one)
  <2>1. p[1] \in Goroutines /\ p[2] \in Nat /\ p = <<p[1], p[2]>>
    OBVIOUS
  <2>2. CASE p[1] = c
    <3>1. E(p) = n /\ N(p) = n + 1
      BY <2>2
    <3>2. p = one <=> p[2] = n
      BY <2>1, <2>2
    <3>. HIDE DEF n, one, E, N
    <3>. QED
      BY <1>3, <2>1, <3>1, <3>2
  <2>3. CASE p[1] # c
    <3>1. E(p) = N(p) /\ p # one
      BY <2>1, <2>3
    <3>. HIDE DEF one, E, N
    <3>. QED
      BY <3>1
  <2>. QED
    BY <2>2, <2>3
<1>5. one \in Goroutines \X Nat /\ one \notin CallsIn(st)
  <2>1. E(one) = n /\ ~(n < n) /\ one[2] = n
    BY <1>3
  <2>. QED
    BY <1>1, <1>3, <2>1
<1>. HIDE DEF one, E, N
<1>6. CallsIn(new) = CallsIn(st) \cup {one}
  BY <1>1, <1>2, <1>4, <1>5
<1>. QED
  BY <1>5, <1>6, FS_AddElement

LEMMA OneLessCall ==
  ASSUME NEW st, NEW new, Deep(st), Deep(new), NEW c \in Goroutines,
         Counted(st[c]) = Counted(new[c]) + 1,
         \A d \in Goroutines : d # c => Counted(new[d]) = Counted(st[d]),
         IsFiniteSet(CallsIn(st))
  PROVE  /\ IsFiniteSet(CallsIn(new))
         /\ Cardinality(CallsIn(new)) = Cardinality(CallsIn(st)) - 1
<1>1. /\ CallsIn(new) \subseteq CallsIn(st)
      /\ IsFiniteSet(CallsIn(new)) => Cardinality(CallsIn(st)) = Cardinality(CallsIn(new)) + 1
  BY OneMoreCall
<1>2. IsFiniteSet(CallsIn(new))
  BY <1>1, FS_Subset
<1>3. Cardinality(CallsIn(new)) \in Nat
  BY <1>2, FS_CardinalityType
<1>. QED
  BY <1>1, <1>2, <1>3
-----------------------------------------------------------------------------
(***************************************************************************)
(* The values the chain builds.                                            *)
(***************************************************************************)
LEMMA ErrorsAre ==
  /\ NoErr \in Errors
  /\ \A i \in Nat : ErrorAt("restore", i, 0) \in Errors /\ ErrorAt("island", i, 0) \in Errors
  /\ \A e \in Errors : e.site \in Nat
BY DEF Errors, NoErr, ErrorAt

LEMMA BaseTyped ==
  ASSUME NEW f \in Seq(Site), NEW span, span \subseteq DOMAIN f, NEW mask \in Masks,
         NEW e \in BaseErrors(f, span, mask)
  PROVE  e \in Errors
<1>. DEFINE q == <<f, span, mask>>
            all == Seq(Site) \X (SUBSET Nat) \X Masks
<1>1. span \in SUBSET Nat
  BY SitesOf
<1>2. e.site \in Nat
  BY <1>1, BaseErrorOf DEF NoErr
<1>3. q \in all /\ e \in BaseErrors(q[1], q[2], q[3])
  BY <1>1
<1>4. e \in Readings
  <2>. HIDE DEF q
  <2>. QED
    BY <1>3 DEF Readings
<1>. QED
  BY <1>2, <1>4 DEF Errors

LEMMA ResultsAre ==
  /\ Pending \in Results /\ ~Pending.ok
  /\ \A tree \in Trees : Read(tree) \in Results /\ Read(tree).ok
  /\ \A e \in Errors : Failed(e) \in Results /\ ~Failed(e).ok /\ Failed(e).err = e
<1>1. {} \in Masks /\ NoTree \in Trees
  BY DEF NoTree, Trees, Masks
<1>. QED
  BY <1>1, ErrorsAre DEF Pending, Read, Failed, Results

LEMMA CallOf ==
  ASSUME NEW span \in SUBSET Nat, NEW mask \in Masks
  PROVE  /\ ChainCall(span, mask) \in Levels
         /\ ChainCall(span, mask).span = span /\ ChainCall(span, mask).mask = mask
         /\ ChainCall(span, mask).stage = "enter"
<1>1. {} \in Masks
  BY DEF Masks
<1>. QED
  BY <1>1, ErrorsAre, ResultsAre DEF ChainCall, Levels, Stages

\* What a level is known to be.
LEMMA LevelFields ==
  ASSUME NEW call \in Levels
  PROVE  /\ call.span \in SUBSET Nat /\ call.mask \in Masks /\ call.stage \in Stages
         /\ call.depth \in Nat /\ call.seen \in Nat /\ call.err \in Errors /\ call.next \in Nat \ {0}
         /\ call.adapter \in Adapters \cup {"none"} /\ call.edits \in Masks
         /\ call.islands \in SUBSET Nat /\ call.result \in Results
BY DEF Levels

LEMMA LeavingOf ==
  ASSUME NEW call \in Levels, NEW r \in Results
  PROVE  /\ Leaving(call, r) \in Levels /\ Alike(Leaving(call, r), call)
         /\ Leaving(call, r).stage = "leave" /\ Leaving(call, r).result = r
BY DEF Leaving, Levels, Stages, Alike

\* A level whose adapters are tried on an error.
Trying(call, e) == [call EXCEPT !.err = e, !.stage = "attempt"]

LEMMA TryingOf ==
  ASSUME NEW call \in Levels, NEW e \in Errors
  PROVE  /\ Trying(call, e) \in Levels /\ Alike(Trying(call, e), call)
         /\ Trying(call, e).stage = "attempt" /\ Trying(call, e).err = e
BY DEF Trying, Levels, Stages, Alike

-----------------------------------------------------------------------------
(***************************************************************************)
(* Steps of a caller's stack.                                              *)
(***************************************************************************)
\* The stack of c is s after the step.
Moved(c, s) == /\ stack' \in [Goroutines -> Seq(Levels)] /\ StacksInv'
               /\ Deep(stack) /\ Deep(stack')
               /\ stack'[c] = s /\ \A d \in Goroutines : d # c => stack'[d] = stack[d]

LEMMA DeepStacks ==
  ASSUME NEW st \in [Goroutines -> Seq(Levels)], NEW fs, \A c \in Goroutines : StackOk(fs[c], st[c])
  PROVE  Deep(st)
<1>1. ASSUME NEW c \in Goroutines, NEW k \in 2..Len(st[c])
      PROVE  st[c][k].stage # "enter"
  <2>1. Len(st[c]) \in Nat
    BY TextOf
  <2>2. k - 1 \in 1..Len(st[c]) - 1 /\ (k - 1) + 1 = k
    BY <2>1
  <2>3. NestedOk(st[c][k - 1], st[c][k])
    BY <2>2 DEF StackOk
  <2>. QED
    BY <2>3 DEF NestedOk
<1>. QED
  BY <1>1 DEF Deep

LEMMA StackMoves ==
  ASSUME ChainInv, NEW c \in Goroutines, NEW s \in Seq(Levels), StackOk(file[c], s),
         stack' = [stack EXCEPT ![c] = s], file' = file
  PROVE  Moved(c, s)
<1>1. stack' \in [Goroutines -> Seq(Levels)] /\ stack'[c] = s
      /\ \A d \in Goroutines : d # c => stack'[d] = stack[d]
  BY DEF ChainInv, ChainTypes
<1>2. \A d \in Goroutines : StackOk(file[d], stack'[d])
  BY <1>1 DEF ChainInv, StacksInv
<1>3. StacksInv'
  BY <1>2 DEF StacksInv
<1>4. Deep(stack) /\ Deep(stack')
  <2>1. stack \in [Goroutines -> Seq(Levels)] /\ \A d \in Goroutines : StackOk(file[d], stack[d])
    BY DEF ChainInv, ChainTypes, StacksInv
  <2>2. PICK st, new, fs : st = stack /\ new = stack' /\ fs = file
    OBVIOUS
  <2>3. Deep(st) /\ Deep(new)
    BY <1>1, <1>2, <2>1, <2>2, DeepStacks
  <2>. QED
    BY <2>2, <2>3
<1>. QED
  BY <1>1, <1>3, <1>4 DEF Moved

\* What is known of a caller inside the chain.
LEMMA StackFacts ==
  ASSUME ChainInv, NEW c \in Goroutines
  PROVE  /\ file[c] \in Seq(Site) /\ stack[c] \in Seq(Levels) /\ StackOk(file[c], stack[c])
         /\ stack[c] # <<>> => Top(c) \in Levels /\ LevelOk(file[c], Top(c)) /\ 1 \in 1..Len(stack[c])
<1>1. file[c] \in Seq(Site) /\ stack[c] \in Seq(Levels) /\ StackOk(file[c], stack[c])
  BY DEF ChainInv, ChainTypes, StacksInv
<1>2. stack[c] # <<>> => 1 \in 1..Len(stack[c])
  BY <1>1, CountedOf
<1>. QED
  BY <1>1, <1>2, TextOf DEF Top, StackOk

LEMMA TopMoves ==
  ASSUME ChainInv, NEW c \in Goroutines, stack[c] # <<>>, file' = file,
         NEW call \in Levels, LevelOk(file[c], call), Alike(call, Top(c)), SetTop(c, call)
  PROVE  \E s \in Seq(Levels) : /\ Moved(c, s) /\ s[1] = call /\ s # <<>>
                                /\ Len(s) = Len(stack[c])
<1>. DEFINE s == [stack[c] EXCEPT ![1] = call]
<1>1. stack[c] \in Seq(Levels) /\ StackOk(file[c], stack[c]) /\ 1 \in 1..Len(stack[c])
  BY StackFacts
<1>2. s \in Seq(Levels) /\ Len(s) = Len(stack[c]) /\ s[1] = call /\ StackOk(file[c], s)
  <2>1. PICK old, f : old = stack[c] /\ f = file[c]
    OBVIOUS
  <2>2. Alike(call, old[1]) /\ StackOk(f, old) /\ LevelOk(f, call) /\ old \in Seq(Levels) /\ old # <<>>
    BY <1>1, <2>1 DEF Top
  <2>3. /\ [old EXCEPT ![1] = call] \in Seq(Levels) /\ Len([old EXCEPT ![1] = call]) = Len(old)
        /\ [old EXCEPT ![1] = call][1] = call
        /\ StackOk(f, [old EXCEPT ![1] = call])
    BY <2>2, TopStack
  <2>. QED
    BY <2>1, <2>3
<1>3. stack' = [stack EXCEPT ![c] = s]
  BY DEF SetTop
<1>. HIDE DEF s
<1>4. Moved(c, s)
  BY <1>2, <1>3, StackMoves
<1>5. s # <<>>
  BY <1>1, <1>2, EmptySeq
<1>. QED
  BY <1>2, <1>4, <1>5

LEMMA PushMoves ==
  ASSUME ChainInv, NEW c \in Goroutines, stack[c] # <<>>, file' = file,
         NEW inner \in Levels, LevelOk(file[c], inner), NEW outer \in Levels, LevelOk(file[c], outer),
         Alike(outer, Top(c)), NestedOk(inner, outer), Push(c, inner, outer)
  PROVE  \E s \in Seq(Levels) : /\ Moved(c, s) /\ s[1] = inner /\ s # <<>>
                                /\ Len(s) = Len(stack[c]) + 1
<1>. DEFINE s == <<inner, outer>> \o Tail(stack[c])
<1>1. stack[c] \in Seq(Levels) /\ StackOk(file[c], stack[c]) /\ Len(stack[c]) \in Nat
  BY StackFacts, TextOf
<1>2. s \in Seq(Levels) /\ Len(s) = Len(stack[c]) + 1 /\ s[1] = inner /\ StackOk(file[c], s)
  <2>1. PICK old, f : old = stack[c] /\ f = file[c]
    OBVIOUS
  <2>2. Alike(outer, old[1]) /\ StackOk(f, old) /\ LevelOk(f, inner) /\ LevelOk(f, outer)
        /\ old \in Seq(Levels) /\ old # <<>>
    BY <1>1, <2>1 DEF Top
  <2>3. /\ <<inner, outer>> \o Tail(old) \in Seq(Levels)
        /\ Len(<<inner, outer>> \o Tail(old)) = Len(old) + 1
        /\ (<<inner, outer>> \o Tail(old))[1] = inner
        /\ StackOk(f, <<inner, outer>> \o Tail(old))
    BY <2>2, PushStack
  <2>. QED
    BY <2>1, <2>3
<1>3. stack' = [stack EXCEPT ![c] = s]
  BY DEF Push
<1>. HIDE DEF s
<1>4. Moved(c, s)
  BY <1>2, <1>3, StackMoves
<1>5. s # <<>>
  BY <1>1, <1>2, EmptySeq
<1>. QED
  BY <1>2, <1>4, <1>5

LEMMA PopMoves ==
  ASSUME ChainInv, NEW c \in Goroutines, Len(stack[c]) > 1, file' = file,
         NEW call \in Levels, LevelOk(file[c], call), Alike(call, stack[c][2]),
         stack' = [stack EXCEPT ![c] = <<call>> \o SubSeq(@, 3, Len(@))]
  PROVE  \E s \in Seq(Levels) : /\ Moved(c, s) /\ s[1] = call /\ s # <<>>
                                /\ Len(stack[c]) = Len(s) + 1
<1>. DEFINE s == <<call>> \o SubSeq(stack[c], 3, Len(stack[c]))
<1>1. stack[c] \in Seq(Levels) /\ StackOk(file[c], stack[c]) /\ Len(stack[c]) \in Nat
  BY StackFacts, TextOf
<1>2. s \in Seq(Levels) /\ Len(s) = Len(stack[c]) - 1 /\ s[1] = call /\ StackOk(file[c], s)
  <2>1. PICK old, f : old = stack[c] /\ f = file[c]
    OBVIOUS
  <2>2. /\ <<call>> \o SubSeq(old, 3, Len(old)) \in Seq(Levels)
        /\ Len(<<call>> \o SubSeq(old, 3, Len(old))) = Len(old) - 1
        /\ (<<call>> \o SubSeq(old, 3, Len(old)))[1] = call
        /\ StackOk(f, <<call>> \o SubSeq(old, 3, Len(old)))
    BY <1>1, <2>1, PopStack
  <2>. QED
    BY <2>1, <2>2
<1>3. stack' = [stack EXCEPT ![c] = s]
  OBVIOUS
<1>. HIDE DEF s
<1>4. Moved(c, s)
  BY <1>2, <1>3, StackMoves
<1>5. s # <<>> /\ Len(stack[c]) = Len(s) + 1
  BY <1>1, <1>2, EmptySeq
<1>. QED
  BY <1>2, <1>4, <1>5

\* An outermost call begins and ends.
LEMMA RunMoves ==
  ASSUME ChainInv, NEW c \in Goroutines, file' = file,
         NEW span, span \subseteq DOMAIN file[c], NEW mask \in Masks,
         stack' = [stack EXCEPT ![c] = <<ChainCall(span, mask)>>]
  PROVE  \E s \in Seq(Levels) : Moved(c, s) /\ Counted(s) = 0
<1>. DEFINE call == ChainCall(span, mask)
            s == <<call>>
<1>1. file[c] \in Seq(Site) /\ span \in SUBSET Nat
  BY StackFacts, SitesOf
<1>2. call \in Levels /\ call.span = span /\ call.stage = "enter"
  BY <1>1, CallOf
<1>3. LevelOk(file[c], call)
  BY <1>2 DEF LevelOk
<1>. HIDE DEF call
<1>4. s \in Seq(Levels) /\ Len(s) = 1 /\ s[1] = call /\ s # <<>>
  BY <1>2
<1>5. stack' = [stack EXCEPT ![c] = s]
  BY DEF call
<1>. HIDE DEF s
<1>6. StackOk(file[c], s)
  BY <1>3, <1>4 DEF StackOk
<1>7. Moved(c, s)
  BY <1>4, <1>5, <1>6, StackMoves
<1>8. Counted(s) = 0
  BY <1>2, <1>4 DEF Counted
<1>. QED
  BY <1>4, <1>7, <1>8

LEMMA EndMoves ==
  ASSUME ChainInv, NEW c \in Goroutines, file' = file, stack' = [stack EXCEPT ![c] = <<>>]
  PROVE  \E s \in Seq(Levels) : Moved(c, s) /\ s = <<>>
<1>. DEFINE s == <<>>
<1>1. s \in Seq(Levels) /\ Len(s) = 0 /\ stack' = [stack EXCEPT ![c] = s]
  OBVIOUS
<1>2. StackOk(file[c], s)
  BY <1>1 DEF StackOk
<1>3. Moved(c, s)
  <2>. HIDE DEF s
  <2>. QED
    BY <1>1, <1>2, StackMoves
<1>. QED
  BY <1>1, <1>3

LEMMA IdleMoves ==
  ASSUME ChainInv, NEW c \in Goroutines, file' = file, stack' = stack
  PROVE  \E s \in Seq(Levels) : Moved(c, s) /\ s = stack[c]
<1>. DEFINE s == stack[c]
<1>1. s \in Seq(Levels) /\ StackOk(file[c], s)
  BY StackFacts
<1>2. stack' = [stack EXCEPT ![c] = s]
  BY DEF ChainInv, ChainTypes
<1>3. Moved(c, s)
  <2>. HIDE DEF s
  <2>. QED
    BY <1>1, <1>2, StackMoves
<1>. QED
  BY <1>1, <1>3
-----------------------------------------------------------------------------
(***************************************************************************)
(* The counters, and the phases around the chain.                          *)
(***************************************************************************)
\* The nesting moves with the counted levels of c.
Kept(c, s) ==
  \/ Counted(s) = Counted(stack[c]) /\ adapterNesting' = adapterNesting
  \/ Counted(s) = Counted(stack[c]) + 1 /\ adapterNesting' = adapterNesting + 1
  \/ Counted(stack[c]) = Counted(s) + 1 /\ adapterNesting' = adapterNesting - 1

LEMMA NestingKept ==
  ASSUME ChainInv, NEW c \in Goroutines, NEW s \in Seq(Levels), Moved(c, s), Kept(c, s)
  PROVE  IsFiniteSet(Calls') /\ adapterNesting' = Cardinality(Calls')
<1>1. PICK st, new, now, next :
        st = stack /\ new = stack' /\ now = adapterNesting /\ next = adapterNesting'
  OBVIOUS
<1>2. Calls = CallsIn(st) /\ Calls' = CallsIn(new)
  BY <1>1 DEF Calls, CallsIn
<1>3. IsFiniteSet(CallsIn(st)) /\ now = Cardinality(CallsIn(st))
  BY <1>1, <1>2 DEF ChainInv, StatsInv
<1>4. Deep(st) /\ Deep(new) /\ new[c] = s /\ \A d \in Goroutines : d # c => new[d] = st[d]
  BY <1>1 DEF Moved
<1>5. \A d \in Goroutines : d # c => Counted(new[d]) = Counted(st[d])
  BY <1>4
<1>6. CASE Counted(new[c]) = Counted(st[c]) /\ next = now
  <2>1. CallsIn(new) = CallsIn(st)
    BY <1>4, <1>5, <1>6, SameCalls
  <2>. QED
    BY <1>1, <1>2, <1>3, <1>6, <2>1
<1>7. CASE Counted(new[c]) = Counted(st[c]) + 1 /\ next = now + 1
  <2>1. IsFiniteSet(CallsIn(new)) /\ Cardinality(CallsIn(new)) = Cardinality(CallsIn(st)) + 1
    BY <1>3, <1>4, <1>5, <1>7, OneMoreCall
  <2>. QED
    BY <1>1, <1>2, <1>3, <1>7, <2>1
<1>8. CASE Counted(st[c]) = Counted(new[c]) + 1 /\ next = now - 1
  <2>1. IsFiniteSet(CallsIn(new)) /\ Cardinality(CallsIn(new)) = Cardinality(CallsIn(st)) - 1
    BY <1>3, <1>4, <1>5, <1>8, OneLessCall
  <2>. QED
    BY <1>1, <1>2, <1>3, <1>8, <2>1
<1>. QED
  BY <1>1, <1>4, <1>6, <1>7, <1>8 DEF Kept

LEMMA NestingOf ==
  ASSUME ChainInv
  PROVE  adapterNesting \in Nat
BY FS_CardinalityType DEF ChainInv, StatsInv

\* The nested arithmetic a tree leaves to be parsed.
LEMMA UnresolvedSame ==
  ASSUME NEW c \in Goroutines, file' = file, work'[c].tree = work[c].tree
  PROVE  Unresolved(c)' = Unresolved(c)
BY DEF Unresolved, Shown, Sites

\* Caller c goes to the phase p with the work w.
Goes(c, p, w) ==
  /\ p \in Phases /\ phase' = [phase EXCEPT ![c] = p]
  /\ w \in Works /\ work' = [work EXCEPT ![c] = w]
  /\ p = "prefix" => w.candidates # <<>>
  /\ p = "resolved" => w.tree = work[c].tree /\ Unresolved(c) # {}

LEMMA PhasesMove ==
  ASSUME ChainInv, NEW c \in Goroutines, NEW p, NEW w, Goes(c, p, w), file' = file
  PROVE  /\ phase' \in [Goroutines -> Phases] /\ work' \in [Goroutines -> Works] /\ PhaseInv'
<1>1. /\ phase' \in [Goroutines -> Phases] /\ work' \in [Goroutines -> Works]
      /\ phase'[c] = p /\ work'[c] = w
      /\ \A d \in Goroutines : d # c => phase'[d] = phase[d] /\ work'[d] = work[d]
  BY DEF Goes, ChainInv, ChainTypes
<1>2. ASSUME NEW d \in Goroutines
      PROVE  /\ phase'[d] = "resolved" => Unresolved(d)' # {}
             /\ phase'[d] = "prefix" => work'[d].candidates # <<>>
  <2>1. CASE d = c
    <3>1. p = "resolved" => Unresolved(c)' # {}
      BY <1>1, UnresolvedSame DEF Goes
    <3>. QED
      BY <1>1, <2>1, <3>1 DEF Goes
  <2>2. CASE d # c
    <3>1. Unresolved(d)' = Unresolved(d)
      BY <1>1, <2>2, UnresolvedSame
    <3>. QED
      BY <1>1, <2>2, <3>1 DEF ChainInv, PhaseInv
  <2>. QED
    BY <2>1, <2>2
<1>3. PhaseInv'
  BY <1>2 DEF PhaseInv
<1>. QED
  BY <1>1, <1>3

LEMMA PhasesStay ==
  ASSUME ChainInv, file' = file, phase' = phase, work' = work
  PROVE  /\ phase' \in [Goroutines -> Phases] /\ work' \in [Goroutines -> Works] /\ PhaseInv'
<1>1. \A d \in Goroutines : Unresolved(d)' = Unresolved(d)
  BY UnresolvedSame
<1>2. PhaseInv'
  BY <1>1 DEF ChainInv, PhaseInv
<1>. QED
  BY <1>2 DEF ChainInv, ChainTypes

\* What a step has to show.
LEMMA StepKeeps ==
  ASSUME ChainInv, NEW c \in Goroutines, NEW s \in Seq(Levels), Moved(c, s), Kept(c, s), file' = file,
         phase' \in [Goroutines -> Phases], work' \in [Goroutines -> Works], PhaseInv',
         answer' \in [Goroutines -> Results],
         maxAdapterDepth' \in Nat, entered' \subseteq Nat, \A d \in entered' : d <= maxAdapterDepth'
  PROVE  ChainInv'
<1>1. ChainTypes'
  BY DEF ChainInv, ChainTypes, Moved
<1>2. StatsInv'
  BY NestingKept DEF StatsInv
<1>. QED
  BY <1>1, <1>2 DEF ChainInv, Moved

\* A step inside the chain, and one around it.
LEMMA ChainKeeps ==
  ASSUME ChainInv, NEW c \in Goroutines, NEW s \in Seq(Levels), Moved(c, s), Kept(c, s),
         file' = file, phase' = phase, work' = work,
         answer' \in [Goroutines -> Results],
         maxAdapterDepth' \in Nat, entered' \subseteq Nat, \A d \in entered' : d <= maxAdapterDepth'
  PROVE  ChainInv'
BY PhasesStay, StepKeeps

LEMMA SourceKeeps ==
  ASSUME ChainInv, NEW c \in Goroutines, NEW p, NEW w, Goes(c, p, w),
         NEW s \in Seq(Levels), Moved(c, s), Counted(s) = Counted(stack[c]),
         file' = file, answer' = answer, counters' = counters
  PROVE  ChainInv'
<1>1. /\ adapterNesting' = adapterNesting /\ maxAdapterDepth' = maxAdapterDepth
      /\ entered' = entered
  BY DEF counters
<1>2. Kept(c, s)
  BY <1>1 DEF Kept
<1>3. phase' \in [Goroutines -> Phases] /\ work' \in [Goroutines -> Works] /\ PhaseInv'
  BY PhasesMove
<1>4. /\ answer' \in [Goroutines -> Results] /\ maxAdapterDepth' \in Nat /\ entered' \subseteq Nat
      /\ \A d \in entered' : d <= maxAdapterDepth'
  BY <1>1 DEF ChainInv, ChainTypes, StatsInv
<1>. QED
  BY <1>2, <1>3, <1>4, StepKeeps
-----------------------------------------------------------------------------
(***************************************************************************)
(* The steps inside the chain.                                             *)
(***************************************************************************)
\* A step that changes the top of a stack and keeps its level counted or not.
LEMMA TopCounts ==
  ASSUME NEW s \in Seq(Levels), NEW t \in Seq(Levels), s # <<>>, t # <<>>, Len(t) = Len(s)
  PROVE  /\ (s[1].stage = "enter" <=> t[1].stage = "enter") => Counted(t) = Counted(s)
         /\ s[1].stage = "enter" /\ t[1].stage # "enter" => Counted(t) = Counted(s) + 1
<1>1. Len(s) \in Nat
  BY TextOf
<1>. QED
  BY <1>1 DEF Counted

LEMMA TopKeeps ==
  ASSUME ChainInv, NEW c \in Goroutines, stack[c] # <<>>, Top(c).stage # "enter",
         NEW call \in Levels, LevelOk(file[c], call), Alike(call, Top(c)), SetTop(c, call),
         call.stage # "enter",
         file' = file, phase' = phase, work' = work, answer' = answer,
         adapterNesting' = adapterNesting,
         maxAdapterDepth' \in Nat, entered' \subseteq Nat, \A d \in entered' : d <= maxAdapterDepth'
  PROVE  ChainInv'
<1>1. PICK s \in Seq(Levels) : Moved(c, s) /\ s[1] = call /\ s # <<>> /\ Len(s) = Len(stack[c])
  BY TopMoves
<1>2. stack[c] \in Seq(Levels)
  BY StackFacts
<1>3. Counted(s) = Counted(stack[c])
  BY <1>1, <1>2, TopCounts DEF Top
<1>4. Kept(c, s)
  BY <1>3 DEF Kept
<1>5. answer' \in [Goroutines -> Results]
  BY DEF ChainInv, ChainTypes
<1>. QED
  BY <1>1, <1>4, <1>5, ChainKeeps

\* The counters that a step leaves alone.
LEMMA CountersOf ==
  ASSUME ChainInv
  PROVE  maxAdapterDepth \in Nat /\ entered \subseteq Nat /\ \A d \in entered : d <= maxAdapterDepth
BY DEF ChainInv, ChainTypes, StatsInv

LEMMA EnterKeeps ==
  ASSUME ChainInv, NEW c \in Goroutines, EnterChain(c)
  PROVE  ChainInv'
<1>. DEFINE call == [Top(c) EXCEPT !.depth = adapterNesting, !.stage = "load"]
<1>1. /\ stack[c] # <<>> /\ Top(c).stage = "enter" /\ SetTop(c, call)
      /\ adapterNesting' = adapterNesting + 1
      /\ file' = file /\ phase' = phase /\ answer' = answer /\ work' = work
      /\ maxAdapterDepth' = maxAdapterDepth /\ entered' = entered
  BY DEF EnterChain, AtStage
<1>2. Top(c) \in Levels /\ LevelOk(file[c], Top(c)) /\ stack[c] \in Seq(Levels)
  BY <1>1, StackFacts
<1>3. call \in Levels /\ Alike(call, Top(c)) /\ call.stage = "load"
  BY <1>2, NestingOf DEF Levels, Stages, Alike
<1>. HIDE DEF call
<1>4. LevelOk(file[c], call)
  BY <1>2, <1>3 DEF LevelOk, Alike
<1>5. PICK s \in Seq(Levels) : Moved(c, s) /\ s[1] = call /\ s # <<>> /\ Len(s) = Len(stack[c])
  BY <1>1, <1>3, <1>4, TopMoves
<1>6. Counted(s) = Counted(stack[c]) + 1
  BY <1>1, <1>2, <1>3, <1>5, TopCounts DEF Top
<1>7. Kept(c, s)
  BY <1>1, <1>6 DEF Kept
<1>8. answer' \in [Goroutines -> Results]
  BY <1>1 DEF ChainInv, ChainTypes
<1>. QED
  BY <1>1, <1>5, <1>7, <1>8, CountersOf, ChainKeeps

LEMMA LoadKeeps ==
  ASSUME ChainInv, NEW c \in Goroutines, LoadDeepest(c)
  PROVE  ChainInv'
<1>. DEFINE top == Top(c)
            parse == [top EXCEPT !.stage = "parse"]
            swap == [top EXCEPT !.seen = maxAdapterDepth, !.stage = "swap"]
<1>1. /\ stack[c] # <<>> /\ top.stage = "load"
      /\ file' = file /\ phase' = phase /\ answer' = answer /\ work' = work
      /\ adapterNesting' = adapterNesting /\ maxAdapterDepth' = maxAdapterDepth
      /\ top.depth <= maxAdapterDepth => SetTop(c, parse) /\ entered' = entered \cup {top.depth}
      /\ ~(top.depth <= maxAdapterDepth) => SetTop(c, swap) /\ entered' = entered
  BY DEF LoadDeepest, AtStage
<1>2. top \in Levels /\ LevelOk(file[c], top)
  BY <1>1, StackFacts
<1>3. maxAdapterDepth \in Nat /\ entered \subseteq Nat /\ \A d \in entered : d <= maxAdapterDepth
  BY CountersOf
<1>4. top.depth \in Nat
  BY <1>2, LevelFields
<1>5. parse \in Levels /\ Alike(parse, top) /\ parse.stage = "parse"
  BY <1>2 DEF Levels, Stages, Alike
<1>6. /\ swap \in Levels /\ Alike(swap, top) /\ swap.stage = "swap"
      /\ swap.seen = maxAdapterDepth /\ swap.depth = top.depth
  BY <1>2, <1>3 DEF Levels, Stages, Alike
<1>. HIDE DEF parse, swap
<1>7. CASE top.depth <= maxAdapterDepth
  <2>1. LevelOk(file[c], parse)
    BY <1>2, <1>5 DEF LevelOk, Alike
  <2>2. entered' \subseteq Nat /\ \A d \in entered' : d <= maxAdapterDepth'
    BY <1>1, <1>3, <1>4, <1>7
  <2>. QED
    BY <1>1, <1>3, <1>5, <1>7, <2>1, <2>2, TopKeeps
<1>8. CASE ~(top.depth <= maxAdapterDepth)
  <2>1. maxAdapterDepth < top.depth
    BY <1>3, <1>4, <1>8
  <2>2. LevelOk(file[c], swap)
    BY <1>2, <1>6, <2>1 DEF LevelOk, Alike
  <2>. QED
    BY <1>1, <1>3, <1>6, <1>8, <2>2, TopKeeps
<1>. QED
  BY <1>7, <1>8

LEMMA SwapKeeps ==
  ASSUME ChainInv, NEW c \in Goroutines, SwapDeepest(c)
  PROVE  ChainInv'
<1>. DEFINE top == Top(c)
            parse == [top EXCEPT !.stage = "parse"]
            load == [top EXCEPT !.stage = "load"]
<1>1. /\ stack[c] # <<>> /\ top.stage = "swap"
      /\ file' = file /\ phase' = phase /\ answer' = answer /\ work' = work
      /\ adapterNesting' = adapterNesting
      /\ maxAdapterDepth = top.seen =>
           /\ SetTop(c, parse) /\ entered' = entered \cup {top.depth}
           /\ maxAdapterDepth' = top.depth
      /\ maxAdapterDepth # top.seen =>
           /\ SetTop(c, load) /\ entered' = entered /\ maxAdapterDepth' = maxAdapterDepth
  BY DEF SwapDeepest, Swaps, AtStage
<1>2. top \in Levels /\ LevelOk(file[c], top)
  BY <1>1, StackFacts
<1>3. maxAdapterDepth \in Nat /\ entered \subseteq Nat /\ \A d \in entered : d <= maxAdapterDepth
  BY CountersOf
<1>4. top.depth \in Nat /\ top.seen \in Nat /\ top.seen < top.depth
  BY <1>1, <1>2, LevelFields DEF LevelOk
<1>5. parse \in Levels /\ Alike(parse, top) /\ parse.stage = "parse"
  BY <1>2 DEF Levels, Stages, Alike
<1>6. load \in Levels /\ Alike(load, top) /\ load.stage = "load"
  BY <1>2 DEF Levels, Stages, Alike
<1>. HIDE DEF parse, load
<1>7. LevelOk(file[c], parse) /\ LevelOk(file[c], load)
  BY <1>2, <1>5, <1>6 DEF LevelOk, Alike
<1>8. CASE maxAdapterDepth = top.seen
  <2>1. /\ entered' \subseteq Nat /\ maxAdapterDepth' \in Nat
        /\ \A d \in entered' : d <= maxAdapterDepth'
    <3>1. entered' = entered \cup {top.depth} /\ maxAdapterDepth' = top.depth
      BY <1>1, <1>8
    <3>2. \A d \in entered : d <= top.depth
      BY <1>3, <1>4, <1>8
    <3>3. \A old \in SUBSET Nat : \A n \in Nat : (\A d \in old : d <= n) =>
            old \cup {n} \subseteq Nat /\ \A d \in old \cup {n} : d <= n
      OBVIOUS
    <3>. HIDE DEF top
    <3>. QED
      BY <1>3, <1>4, <3>1, <3>2, <3>3, Zenon
  <2>. QED
    BY <1>1, <1>5, <1>7, <1>8, <2>1, TopKeeps
<1>9. CASE maxAdapterDepth # top.seen
  BY <1>1, <1>3, <1>6, <1>7, <1>9, TopKeeps
<1>. QED
  BY <1>8, <1>9

LEMMA ParseKeeps ==
  ASSUME ChainInv, NEW c \in Goroutines, ParseTree(c)
  PROVE  ChainInv'
<1>. DEFINE top == Top(c)
            tree == [read |-> top.mask, left |-> top.mask]
            leave == Leaving(top, Read(tree))
<1>0. PICK err \in BaseErrors(file[c], top.span, top.mask) :
        SetTop(c, IF err = NoErr THEN leave ELSE Trying(top, err))
  BY DEF ParseTree, Trying
<1>. DEFINE try == Trying(top, err)
<1>1. /\ stack[c] # <<>> /\ top.stage = "parse"
      /\ file' = file /\ phase' = phase /\ answer' = answer /\ work' = work
      /\ adapterNesting' = adapterNesting /\ maxAdapterDepth' = maxAdapterDepth
      /\ entered' = entered
      /\ err = NoErr => SetTop(c, leave)
      /\ err # NoErr => SetTop(c, try)
  BY <1>0 DEF ParseTree, AtStage
<1>2. top \in Levels /\ LevelOk(file[c], top) /\ file[c] \in Seq(Site)
  BY <1>1, StackFacts
<1>3. maxAdapterDepth \in Nat /\ entered \subseteq Nat /\ \A d \in entered : d <= maxAdapterDepth
  BY CountersOf
<1>4. top.span \subseteq DOMAIN file[c] /\ top.mask \in Masks
  BY <1>2, LevelFields DEF LevelOk
<1>5. err \in Errors /\ (err # NoErr => err.site \in top.span)
  BY <1>0, <1>2, <1>4, BaseTyped, BaseErrorOf
<1>6. leave \in Levels /\ Alike(leave, top) /\ leave.stage = "leave" /\ leave.result.ok
  <2>1. tree \in Trees
    BY <1>4 DEF Trees
  <2>. HIDE DEF tree
  <2>2. Read(tree) \in Results /\ Read(tree).ok
    BY <2>1, ResultsAre
  <2>. QED
    BY <1>2, <2>2, LeavingOf
<1>7. try \in Levels /\ Alike(try, top) /\ try.stage = "attempt" /\ try.err = err
  BY <1>2, <1>5, TryingOf
<1>. HIDE DEF leave, try
<1>8. CASE err = NoErr
  <2>1. LevelOk(file[c], leave)
    BY <1>4, <1>6 DEF LevelOk, Alike
  <2>. QED
    BY <1>1, <1>3, <1>6, <1>8, <2>1, TopKeeps
<1>9. CASE err # NoErr
  <2>1. LevelOk(file[c], try)
    BY <1>4, <1>5, <1>7, <1>9 DEF LevelOk, Alike
  <2>. QED
    BY <1>1, <1>3, <1>7, <1>9, <2>1, TopKeeps
<1>. QED
  BY <1>8, <1>9

\* What an adapter makes of its retry's tree.
LEMMA SettleOf ==
  ASSUME NEW f \in Seq(Site), NEW call \in Levels, LevelOk(f, call), call.stage = "settle",
         NEW a, NEW tree \in Trees
  PROVE  /\ Settle(a, f, call, tree) \in Results
         /\ ~Settle(a, f, call, tree).ok => Settle(a, f, call, tree).err.site \in call.span
<1>. DEFINE sites == {m[1] : m \in call.edits}
            the == CHOOSE i \in sites : TRUE
            rest == [tree EXCEPT !.left = @ \ call.edits]
            blame == ErrorAt("restore", the, 0)
<1>1. Settle(a, f, call, tree) \in {Read(tree), Read(rest), Failed(call.err), Failed(blame)}
  BY DEF Settle
<1>2. rest \in Trees
  BY DEF Trees, Masks
<1>3. sites \subseteq call.span /\ sites # {}
  BY DEF LevelOk, Adds
<1>. HIDE DEF sites
<1>4. the \in call.span
  BY <1>3
<1>. HIDE DEF the, rest
<1>5. call.err \in Errors /\ call.err.site \in call.span /\ call.span \subseteq Nat
  BY LevelFields DEF LevelOk
<1>6. blame \in Errors /\ blame.site = the
  BY <1>4, <1>5, ErrorsAre DEF ErrorAt
<1>. HIDE DEF blame
<1>7. /\ Read(tree) \in Results /\ Read(tree).ok /\ Read(rest) \in Results /\ Read(rest).ok
      /\ Failed(call.err) \in Results /\ Failed(call.err).err = call.err
      /\ Failed(blame) \in Results /\ Failed(blame).err = blame
  BY <1>2, <1>5, <1>6, ResultsAre
<1>. QED
  BY <1>1, <1>4, <1>5, <1>6, <1>7

LEMMA SettleKeeps ==
  ASSUME ChainInv, NEW c \in Goroutines, SettleRetry(c)
  PROVE  ChainInv'
<1>. DEFINE top == Top(c)
            found == Settle(top.adapter, file[c], top, top.result.tree)
            leave == Leaving(top, found)
            try == Trying(top, found.err)
<1>1. /\ stack[c] # <<>> /\ top.stage = "settle"
      /\ file' = file /\ phase' = phase /\ answer' = answer /\ work' = work
      /\ adapterNesting' = adapterNesting /\ maxAdapterDepth' = maxAdapterDepth
      /\ entered' = entered
      /\ found.ok => SetTop(c, leave)
      /\ ~found.ok => SetTop(c, try)
  BY DEF SettleRetry, AtStage, Trying, counters
<1>2. top \in Levels /\ LevelOk(file[c], top) /\ file[c] \in Seq(Site)
  BY <1>1, StackFacts
<1>3. maxAdapterDepth \in Nat /\ entered \subseteq Nat /\ \A d \in entered : d <= maxAdapterDepth
  BY CountersOf
<1>4. found \in Results /\ (~found.ok => found.err.site \in top.span)
  <2>1. top.result.tree \in Trees
    BY <1>2 DEF Levels, Results
  <2>. QED
    BY <1>1, <1>2, <2>1, SettleOf
<1>. HIDE DEF found
<1>5. found.err \in Errors /\ top.span \subseteq DOMAIN file[c]
  BY <1>2, <1>4 DEF Results, LevelOk
<1>6. leave \in Levels /\ Alike(leave, top) /\ leave.stage = "leave" /\ leave.result = found
  BY <1>2, <1>4, LeavingOf
<1>7. try \in Levels /\ Alike(try, top) /\ try.stage = "attempt" /\ try.err = found.err
  BY <1>2, <1>5, TryingOf
<1>. HIDE DEF leave, try
<1>8. CASE found.ok
  <2>1. LevelOk(file[c], leave)
    BY <1>5, <1>6, <1>8 DEF LevelOk, Alike
  <2>. QED
    BY <1>1, <1>3, <1>6, <1>8, <2>1, TopKeeps
<1>9. CASE ~found.ok
  <2>1. LevelOk(file[c], try)
    BY <1>4, <1>5, <1>7, <1>9 DEF LevelOk, Alike
  <2>. QED
    BY <1>1, <1>3, <1>7, <1>9, <2>1, TopKeeps
<1>. QED
  BY <1>8, <1>9

\* A step that calls a level.
LEMMA PushKeeps ==
  ASSUME ChainInv, NEW c \in Goroutines, stack[c] # <<>>, Top(c).stage # "enter",
         NEW inner \in Levels, LevelOk(file[c], inner), inner.stage = "enter",
         NEW outer \in Levels, LevelOk(file[c], outer), Alike(outer, Top(c)),
         NestedOk(inner, outer), Push(c, inner, outer),
         UNCHANGED <<file, phase, answer, work, verdict, counters>>
  PROVE  ChainInv'
<1>1. /\ file' = file /\ phase' = phase /\ answer' = answer /\ work' = work
      /\ adapterNesting' = adapterNesting /\ maxAdapterDepth' = maxAdapterDepth
      /\ entered' = entered
  BY DEF counters
<1>2. PICK s \in Seq(Levels) :
        Moved(c, s) /\ s[1] = inner /\ s # <<>> /\ Len(s) = Len(stack[c]) + 1
  BY <1>1, PushMoves
<1>3. stack[c] \in Seq(Levels) /\ Len(stack[c]) \in Nat /\ stack[c][1].stage # "enter"
  BY StackFacts, TextOf DEF Top
<1>4. Counted(s) = Len(s) - 1 /\ Counted(stack[c]) = Len(stack[c])
  BY <1>2, <1>3 DEF Counted
<1>5. Kept(c, s)
  BY <1>1, <1>2, <1>3, <1>4 DEF Kept
<1>6. answer' \in [Goroutines -> Results]
  BY <1>1 DEF ChainInv, ChainTypes
<1>7. maxAdapterDepth \in Nat /\ entered \subseteq Nat /\ \A d \in entered : d <= maxAdapterDepth
  BY CountersOf
<1>. QED
  BY <1>1, <1>2, <1>5, <1>6, <1>7, ChainKeeps

\* The level an adapter is in while its masked file is parsed.
Retrying(call, next, a, edits, islands) ==
  [call EXCEPT !.next = next, !.adapter = a, !.edits = edits, !.stage = "settle",
               !.result = Pending, !.islands = islands]

LEMMA RetryingOf ==
  ASSUME NEW call \in Levels, NEW next \in Nat \ {0}, NEW a \in Adapters, NEW edits \in Masks,
         NEW islands \in SUBSET Nat
  PROVE  /\ Retrying(call, next, a, edits, islands) \in Levels
         /\ Alike(Retrying(call, next, a, edits, islands), call)
         /\ Retrying(call, next, a, edits, islands).stage = "settle"
         /\ Retrying(call, next, a, edits, islands).edits = edits
         /\ Retrying(call, next, a, edits, islands).islands = islands
         /\ Retrying(call, next, a, edits, islands).err = call.err
<1>1. Pending \in Results
  BY ResultsAre
<1>. QED
  BY <1>1 DEF Retrying, Levels, Stages, Alike, Pending

LEMMA ChainOf ==
  /\ Len(adapterChain) = 11
  /\ \A k \in 1..11 : adapterChain[k] \in Adapters
BY DEF adapterChain, Adapters

LEMMA AttemptKeeps ==
  ASSUME ChainInv, NEW c \in Goroutines, Attempt(c)
  PROVE  ChainInv'
<1>. DEFINE top == Top(c)
            takers == {k \in top.next..Len(adapterChain) : Edits(adapterChain[k], file[c], top) # {}}
            first == Least(takers)
            a == adapterChain[first]
            edits == Edits(a, file[c], top)
            islands == IF a = "alternation" THEN Islands(file[c], top) ELSE {}
            outer == Retrying(top, first + 1, a, edits, islands)
            inner == Retry(top, edits)
            leave == Leaving(top, Failed(top.err))
<1>1. /\ stack[c] # <<>> /\ top.stage = "attempt"
      /\ UNCHANGED <<file, phase, answer, work, verdict, counters>>
      /\ takers = {} => SetTop(c, leave)
      /\ takers # {} => Push(c, inner, outer)
  BY DEF Attempt, AtStage, Retrying
<1>2. top \in Levels /\ LevelOk(file[c], top) /\ file[c] \in Seq(Site)
  BY <1>1, StackFacts
<1>3. /\ top.err \in Errors /\ top.err.site \in top.span /\ top.span \subseteq DOMAIN file[c]
      /\ top.span \in SUBSET Nat /\ top.mask \in Masks /\ top.next \in Nat \ {0}
  BY <1>1, <1>2, LevelFields DEF LevelOk
<1>. HIDE DEF top
<1>4. CASE takers = {}
  <2>1. /\ Failed(top.err) \in Results /\ ~Failed(top.err).ok /\ Failed(top.err).err = top.err
    BY <1>3, ResultsAre
  <2>2. leave \in Levels /\ Alike(leave, top) /\ leave.stage = "leave" /\ leave.result = Failed(top.err)
    BY <1>2, <2>1, LeavingOf
  <2>. HIDE DEF leave, takers
  <2>3. LevelOk(file[c], leave)
    BY <1>3, <2>1, <2>2 DEF LevelOk, Alike
  <2>4. /\ file' = file /\ phase' = phase /\ answer' = answer /\ work' = work
        /\ adapterNesting' = adapterNesting /\ maxAdapterDepth' = maxAdapterDepth
        /\ entered' = entered
    BY <1>1 DEF counters
  <2>5. maxAdapterDepth \in Nat /\ entered \subseteq Nat /\ \A d \in entered : d <= maxAdapterDepth
    BY CountersOf
  <2>. QED
    BY <1>1, <1>4, <2>2, <2>3, <2>4, <2>5, TopKeeps DEF top
<1>5. CASE takers # {}
  <2>1. first \in top.next..Len(adapterChain) /\ edits # {}
    <3>1. takers \subseteq Nat
      BY <1>3
    <3>2. first \in takers
      <4>. HIDE DEF takers
      <4>. QED
        BY <1>5, <3>1, LeastIs
    <3>. HIDE DEF first
    <3>. QED
      BY <3>2
  <2>. HIDE DEF takers, first
  <2>2. first \in 1..11 /\ first + 1 \in Nat \ {0}
    BY <1>3, <2>1, ChainOf
  <2>3. a \in Adapters
    BY <2>2, ChainOf
  <2>. HIDE DEF a
  <2>4. Adds(top, edits)
    BY <1>2, <1>3, <2>3, EditsAdd DEF Served
  <2>. HIDE DEF edits
  <2>5. edits \in Masks
    BY <1>3, <2>4 DEF Adds, Masks
  <2>6. islands \subseteq top.span /\ islands \in SUBSET Nat
    BY <1>3 DEF Islands
  <2>. HIDE DEF islands
  <2>7. /\ outer \in Levels /\ Alike(outer, top) /\ outer.stage = "settle"
        /\ outer.edits = edits /\ outer.islands = islands /\ outer.err = top.err
    BY <1>2, <2>2, <2>3, <2>5, <2>6, RetryingOf
  <2>8. /\ inner \in Levels /\ inner.span = top.span /\ inner.mask = top.mask \cup edits
        /\ inner.stage = "enter"
    <3>. DEFINE mask == top.mask \cup edits
    <3>1. mask \in Masks
      BY <1>3, <2>5 DEF Masks
    <3>. HIDE DEF mask
    <3>2. inner = ChainCall(top.span, mask)
      BY DEF Retry, mask
    <3>3. /\ ChainCall(top.span, mask) \in Levels /\ ChainCall(top.span, mask).span = top.span
          /\ ChainCall(top.span, mask).mask = mask /\ ChainCall(top.span, mask).stage = "enter"
      BY <1>3, <3>1, CallOf
    <3>. QED
      BY <3>2, <3>3 DEF mask
  <2>. HIDE DEF outer, inner
  <2>9. Adds(outer, outer.edits)
    BY <2>4, <2>7 DEF Adds, Alike
  <2>10. LevelOk(file[c], inner) /\ LevelOk(file[c], outer)
    BY <1>3, <2>1, <2>6, <2>7, <2>8, <2>9 DEF LevelOk, Alike
  <2>11. NestedOk(inner, outer)
    BY <2>7, <2>8 DEF NestedOk, Alike
  <2>12. Push(c, inner, outer)
    BY <1>1, <1>5 DEF takers, first, a, edits, islands, inner, outer
  <2>. QED
    BY <1>1, <2>7, <2>8, <2>10, <2>11, <2>12, PushKeeps DEF top
<1>. QED
  BY <1>4, <1>5

\* The level whose island is parsed on its own.
Grafting(call, islands) == [call EXCEPT !.islands = islands, !.stage = "graft"]

LEMMA GraftingOf ==
  ASSUME NEW call \in Levels, NEW islands \in SUBSET Nat
  PROVE  /\ Grafting(call, islands) \in Levels /\ Alike(Grafting(call, islands), call)
         /\ Grafting(call, islands).stage = "graft"
         /\ Grafting(call, islands).edits = call.edits
         /\ Grafting(call, islands).islands = islands
         /\ Grafting(call, islands).err = call.err
BY DEF Grafting, Levels, Stages, Alike

LEMMA GraftKeeps ==
  ASSUME ChainInv, NEW c \in Goroutines, GraftIsland(c)
  PROVE  ChainInv'
<1>. DEFINE top == Top(c)
            h == Least(top.islands)
            span == top.span \cap Inside(file[c], h)
            mask == {m \in top.mask \cup top.edits : m[1] # h}
            islands == top.islands \ {h}
            inner == ChainCall(span, mask)
            outer == Grafting(top, islands)
<1>1. /\ stack[c] # <<>> /\ top.stage = "settle" /\ Push(c, inner, outer)
      /\ UNCHANGED <<file, phase, answer, work, verdict, counters>>
  BY DEF GraftIsland, AtStage, Grafting
<1>2. top \in Levels /\ LevelOk(file[c], top)
  BY <1>1, StackFacts
<1>3. /\ top.span \in SUBSET Nat /\ top.mask \in Masks /\ top.edits \in Masks
      /\ top.islands \in SUBSET Nat
  BY <1>2, LevelFields
<1>4. /\ top.span \subseteq DOMAIN file[c] /\ top.err.site \in top.span
      /\ Adds(top, top.edits) /\ top.edits # {} /\ top.islands \subseteq top.span
  BY <1>1, <1>2 DEF LevelOk
<1>. HIDE DEF top, h
<1>5. span \subseteq top.span /\ span \in SUBSET Nat /\ mask \in Masks
      /\ islands \subseteq top.islands /\ islands \in SUBSET Nat
  BY <1>3 DEF Masks
<1>. HIDE DEF span, mask, islands
<1>6. inner \in Levels /\ inner.span = span /\ inner.stage = "enter"
  BY <1>5, CallOf
<1>7. /\ outer \in Levels /\ Alike(outer, top) /\ outer.stage = "graft"
      /\ outer.edits = top.edits /\ outer.islands = islands /\ outer.err = top.err
  BY <1>2, <1>5, GraftingOf
<1>. HIDE DEF inner, outer
<1>8. LevelOk(file[c], inner)
  BY <1>4, <1>5, <1>6 DEF LevelOk
<1>9. LevelOk(file[c], outer)
  <2>1. Adds(outer, outer.edits)
    BY <1>4, <1>7 DEF Adds, Alike
  <2>. QED
    BY <1>4, <1>5, <1>7, <2>1 DEF LevelOk, Alike
<1>10. NestedOk(inner, outer)
  BY <1>5, <1>6, <1>7 DEF NestedOk, Alike
<1>. QED
  BY <1>1, <1>6, <1>7, <1>8, <1>9, <1>10, PushKeeps DEF top

\* What the caller of a chain does with its answer.
LEMMA DeliverOf ==
  ASSUME NEW f, NEW call \in Levels, LevelOk(f, call), call.stage \in {"settle", "graft"},
         NEW given \in Results, ~given.ok => given.err.site \in call.span
  PROVE  /\ Deliver(f, call, given) \in Levels /\ LevelOk(f, Deliver(f, call, given))
         /\ Alike(Deliver(f, call, given), call)
         /\ Deliver(f, call, given).stage # "enter"
<1>. DEFINE island == call.stage = "graft"
            left == { m \in call.edits : f[m[1]].kind = "tick" /\ m[1] \notin call.islands }
            tree == [read |-> call.result.tree.read \cup given.tree.read,
                     left |-> (call.result.tree.left \cup given.tree.left) \ left]
            err == IF island THEN ErrorAt("island", given.err.site, 0) ELSE given.err
            answers == IF island THEN Read(tree) ELSE given
            failed == [call EXCEPT !.stage = "attempt", !.err = err]
            settled == [call EXCEPT !.stage = "settle", !.result = answers]
            new == Deliver(f, call, given)
<1>1. /\ ~given.ok => new = failed
      /\ given.ok => new = settled
  BY DEF Deliver
<1>2. call.result \in Results /\ call.span \in SUBSET Nat
  BY LevelFields
<1>3. given.err \in Errors /\ given.err.site \in Nat
  <2>1. given.err \in Errors
    BY DEF Results
  <2>. QED
    BY <2>1, ErrorsAre
<1>4. err \in Errors /\ err.site = given.err.site
  BY <1>3, ErrorsAre DEF ErrorAt
<1>5. answers \in Results
  <2>. HIDE DEF left
  <2>1. call.result.tree \in Trees /\ given.tree \in Trees
    BY <1>2 DEF Results
  <2>2. tree \in Trees
    BY <2>1 DEF Trees, Masks
  <2>. HIDE DEF tree
  <2>3. Read(tree) \in Results
    BY <2>2, ResultsAre
  <2>. QED
    BY <2>3
<1>. HIDE DEF err, answers
<1>6. /\ failed \in Levels /\ failed.stage = "attempt" /\ failed.err = err /\ Alike(failed, call)
  BY <1>4 DEF Levels, Stages, Alike
<1>7. /\ settled \in Levels /\ settled.stage = "settle" /\ settled.err = call.err
      /\ settled.edits = call.edits /\ settled.islands = call.islands /\ Alike(settled, call)
  BY <1>5 DEF Levels, Stages, Alike
<1>. HIDE DEF failed, settled, new
<1>8. CASE ~given.ok
  <2>1. LevelOk(f, failed)
    BY <1>4, <1>6, <1>8 DEF LevelOk, Alike
  <2>2. new = failed
    BY <1>1, <1>8
  <2>. QED
    BY <1>6, <2>1, <2>2 DEF new
<1>9. CASE given.ok
  <2>1. Adds(settled, settled.edits)
    BY <1>7 DEF LevelOk, Adds, Alike
  <2>2. LevelOk(f, settled)
    BY <1>7, <2>1 DEF LevelOk, Alike
  <2>3. new = settled
    BY <1>1, <1>9
  <2>. QED
    BY <1>7, <2>2, <2>3 DEF new
<1>. QED
  BY <1>8, <1>9

LEMMA LeaveKeeps ==
  ASSUME ChainInv, NEW c \in Goroutines, LeaveChain(c)
  PROVE  ChainInv'
<1>. DEFINE top == Top(c)
            next == stack[c][2]
            call == Deliver(file[c], next, top.result)
<1>1. /\ stack[c] # <<>> /\ top.stage = "leave" /\ adapterNesting' = adapterNesting - 1
      /\ file' = file /\ phase' = phase /\ work' = work
      /\ maxAdapterDepth' = maxAdapterDepth /\ entered' = entered
      /\ Len(stack[c]) = 1 => /\ stack' = [stack EXCEPT ![c] = <<>>]
                              /\ answer' = [answer EXCEPT ![c] = top.result]
      /\ Len(stack[c]) # 1 =>
           /\ stack' = [stack EXCEPT ![c] = <<call>> \o SubSeq(@, 3, Len(@))]
           /\ answer' = answer
  BY DEF LeaveChain, AtStage
<1>2. /\ top \in Levels /\ LevelOk(file[c], top) /\ StackOk(file[c], stack[c])
      /\ stack[c] \in Seq(Levels) /\ 1 \in 1..Len(stack[c]) /\ Len(stack[c]) \in Nat
  BY <1>1, StackFacts, TextOf
<1>3. top.result \in Results /\ (~top.result.ok => top.result.err.site \in top.span)
  BY <1>1, <1>2, LevelFields DEF LevelOk
<1>4. maxAdapterDepth \in Nat /\ entered \subseteq Nat /\ \A d \in entered : d <= maxAdapterDepth
  BY CountersOf
<1>5. answer \in [Goroutines -> Results]
  BY DEF ChainInv, ChainTypes
<1>6. Counted(stack[c]) = Len(stack[c])
  BY <1>1 DEF Counted, Top
<1>7. CASE Len(stack[c]) = 1
  <2>1. PICK s \in Seq(Levels) : Moved(c, s) /\ s = <<>>
    BY <1>1, <1>7, EndMoves
  <2>2. Counted(s) = 0
    BY <2>1 DEF Counted
  <2>3. Kept(c, s)
    BY <1>1, <1>6, <1>7, <2>2 DEF Kept
  <2>4. answer' \in [Goroutines -> Results]
    BY <1>1, <1>3, <1>5, <1>7
  <2>. QED
    BY <1>1, <1>4, <2>1, <2>3, <2>4, ChainKeeps
<1>8. CASE Len(stack[c]) # 1
  <2>1. 2 \in 1..Len(stack[c]) /\ 1 \in 1..Len(stack[c]) - 1 /\ Len(stack[c]) > 1
    <3>. DEFINE n == Len(stack[c])
    <3>1. n \in Nat /\ 1 \in 1..n /\ n # 1
      BY <1>2, <1>8
    <3>. HIDE DEF n
    <3>2. 2 \in 1..n /\ 1 \in 1..n - 1 /\ n > 1
      BY <3>1
    <3>. QED
      BY <3>2 DEF n
  <2>2. next \in Levels /\ LevelOk(file[c], next) /\ NestedOk(top, next)
    BY <1>2, <2>1, TextOf DEF StackOk, Top
  <2>3. next.stage \in {"settle", "graft"} /\ (~top.result.ok => top.result.err.site \in next.span)
    BY <1>3, <2>2 DEF NestedOk
  <2>4. call \in Levels /\ LevelOk(file[c], call) /\ Alike(call, next) /\ call.stage # "enter"
    BY <1>3, <2>2, <2>3, DeliverOf
  <2>. HIDE DEF call
  <2>5. PICK s \in Seq(Levels) : /\ Moved(c, s) /\ s[1] = call /\ s # <<>>
                                 /\ Len(stack[c]) = Len(s) + 1
    BY <1>1, <1>8, <2>1, <2>4, PopMoves
  <2>6. Counted(s) = Len(s)
    BY <2>4, <2>5 DEF Counted
  <2>7. Kept(c, s)
    BY <1>1, <1>6, <2>5, <2>6 DEF Kept
  <2>8. answer' \in [Goroutines -> Results]
    BY <1>1, <1>5, <1>8
  <2>. QED
    BY <1>1, <1>4, <2>5, <2>7, <2>8, ChainKeeps
<1>. QED
  BY <1>7, <1>8
-----------------------------------------------------------------------------
(***************************************************************************)
(* The steps of parseSource.                                               *)
(***************************************************************************)
Still == file' = file /\ answer' = answer /\ counters' = counters
Plain == Phases \ {"prefix", "resolved"}

\* What is known of a caller around the chain.
LEMMA WorkFacts ==
  ASSUME ChainInv, NEW c \in Goroutines
  PROVE  /\ work[c] \in Works /\ answer[c] \in Results /\ work = [work EXCEPT ![c] = work[c]]
         /\ Sites(c) = DOMAIN file[c] /\ Sites(c) \subseteq Nat
<1>1. Sites(c) = DOMAIN file[c] /\ Sites(c) \subseteq Nat
  BY StackFacts, SitesOf DEF Sites
<1>. QED
  BY <1>1 DEF ChainInv, ChainTypes

LEMMA WorkFields ==
  ASSUME NEW w \in Works
  PROVE  /\ w.cut \in Masks /\ w.kept \in BOOLEAN /\ w.anonymous \in BOOLEAN /\ w.tree \in Trees
         /\ w.mask \in Masks /\ w.candidates \in Seq(Errors) /\ w.err \in Errors
         /\ w.closers \in Masks /\ w.previous \in Errors /\ w.appended \in Nat
BY DEF Works

LEMMA GoKeeps ==
  ASSUME ChainInv, NEW c \in Goroutines, NEW p \in Plain, GoTo(c, p), NEW w \in Works, Carry(c, w), Still
  PROVE  ChainInv'
<1>1. Goes(c, p, w)
  BY DEF Goes, GoTo, Carry, Plain
<1>2. PICK s \in Seq(Levels) : Moved(c, s) /\ s = stack[c]
  BY IdleMoves DEF GoTo, Still
<1>. QED
  BY <1>1, <1>2, SourceKeeps DEF Still

LEMMA GoAsIs ==
  ASSUME ChainInv, NEW c \in Goroutines, NEW p \in Plain, GoTo(c, p), work' = work, Still
  PROVE  ChainInv'
<1>1. work[c] \in Works /\ Carry(c, work[c])
  BY WorkFacts DEF Carry
<1>. QED
  BY <1>1, GoKeeps

LEMMA RunKeeps ==
  ASSUME ChainInv, NEW c \in Goroutines, stack[c] = <<>>, NEW p \in Phases,
         NEW span, span \subseteq Sites(c), NEW mask \in Masks, Run(c, p, span, mask),
         NEW w \in Works, Carry(c, w), Still,
         p = "prefix" => w.candidates # <<>>,
         p = "resolved" => w.tree = work[c].tree /\ Unresolved(c) # {}
  PROVE  ChainInv'
<1>1. Goes(c, p, w)
  BY DEF Goes, Run, Carry
<1>2. PICK s \in Seq(Levels) : Moved(c, s) /\ Counted(s) = 0
  BY RunMoves DEF Run, Still, Sites
<1>3. Counted(s) = Counted(stack[c])
  BY <1>2 DEF Counted
<1>. QED
  BY <1>1, <1>2, <1>3, SourceKeeps DEF Still

LEMMA RunAsIs ==
  ASSUME ChainInv, NEW c \in Goroutines, stack[c] = <<>>, NEW p \in Plain,
         NEW span, span \subseteq Sites(c), NEW mask \in Masks, Run(c, p, span, mask),
         work' = work, Still
  PROVE  ChainInv'
<1>1. work[c] \in Works /\ Carry(c, work[c])
  BY WorkFacts DEF Carry
<1>. QED
  BY <1>1, RunKeeps DEF Plain

LEMMA FailKeeps ==
  ASSUME ChainInv, NEW c \in Goroutines, NEW err, Fail(c, err) \/ Reject(c, err), work' = work, Still
  PROVE  ChainInv'
<1>1. GoTo(c, "resolve") \/ GoTo(c, "done")
  BY DEF Fail, Reject
<1>2. "resolve" \in Plain /\ "done" \in Plain
  BY DEF Plain, Phases
<1>. QED
  BY <1>1, <1>2, GoAsIs

LEMMA AcceptKeeps ==
  ASSUME ChainInv, NEW c \in Goroutines, NEW w \in Works, NEW tree \in Trees,
         NEW anon \in BOOLEAN, Accept(c, w, tree, anon), Still
  PROVE  ChainInv'
<1>. DEFINE rest == [tree EXCEPT !.left = @ \ w.cut]
            next == [w EXCEPT !.tree = rest, !.anonymous = anon]
<1>1. \/ Fail(c, NoErr) /\ work' = work
      \/ Carry(c, next) /\ GoTo(c, "cuts")
  BY DEF Accept
<1>2. rest \in Trees
  BY DEF Trees, Masks
<1>. HIDE DEF rest
<1>3. next \in Works
  BY <1>2 DEF Works
<1>. HIDE DEF next
<1>4. "cuts" \in Plain
  BY DEF Plain, Phases
<1>5. CASE Fail(c, NoErr) /\ work' = work
  BY <1>5, FailKeeps
<1>6. CASE Carry(c, next) /\ GoTo(c, "cuts")
  BY <1>3, <1>4, <1>6, GoKeeps
<1>. QED
  BY <1>1, <1>5, <1>6

LEMMA BeginKeeps ==
  ASSUME ChainInv, NEW c \in Goroutines, Begin(c)
  PROVE  ChainInv'
<1>1. /\ stack[c] = <<>> /\ Run(c, "chain", Sites(c), {}) /\ work' = work /\ Still
  BY DEF Begin, Idle, Still
<1>2. "chain" \in Plain /\ {} \in Masks
  BY DEF Plain, Phases, Masks
<1>. QED
  BY <1>1, <1>2, RunAsIs

LEMMA ChainAnsweredKeeps ==
  ASSUME ChainInv, NEW c \in Goroutines, ChainAnswered(c)
  PROVE  ChainInv'
<1>. DEFINE w == work[c]
            next == [w EXCEPT !.err = answer[c].err, !.mask = w.cut, !.candidates = <<>>]
<1>1. /\ Still
      /\ \/ Accept(c, w, answer[c].tree, w.anonymous)
         \/ Fail(c, answer[c].err) /\ work' = work
         \/ Carry(c, next) /\ GoTo(c, "anonymous")
  BY DEF ChainAnswered, Still
<1>2. w \in Works /\ answer[c].tree \in Trees /\ answer[c].err \in Errors /\ w.anonymous \in BOOLEAN
      /\ w.cut \in Masks
  <2>1. w \in Works /\ answer[c] \in Results
    BY WorkFacts
  <2>. QED
    BY <2>1, WorkFields DEF Results
<1>3. next \in Works
  <2>1. <<>> \in Seq(Errors)
    OBVIOUS
  <2>. QED
    BY <1>2, <2>1 DEF Works
<1>. HIDE DEF w, next
<1>4. "anonymous" \in Plain
  BY DEF Plain, Phases
<1>5. CASE Accept(c, w, answer[c].tree, w.anonymous)
  BY <1>1, <1>2, <1>5, AcceptKeeps
<1>6. CASE Fail(c, answer[c].err) /\ work' = work
  BY <1>1, <1>6, FailKeeps
<1>7. CASE Carry(c, next) /\ GoTo(c, "anonymous")
  BY <1>1, <1>3, <1>4, <1>7, GoKeeps
<1>. QED
  BY <1>1, <1>5, <1>6, <1>7

LEMMA WholeIn ==
  ASSUME NEW S \in SUBSET Nat
  PROVE  Whole(S) \in Masks
BY DEF Whole, Masks

LEMMA CutsOf ==
  ASSUME ChainInv, NEW c \in Goroutines, NEW span, span \subseteq Sites(c), NEW tree
  PROVE  flagPatternCutEdits(file[c], span, tree) \in Masks
<1>1. /\ \A i \in Sites(c) : file[c][i].text \in Seq(STRING)
      /\ Sites(c) \subseteq Nat
  BY WorkFacts, StackFacts, SitesOf
<1>2. ASSUME NEW i \in Shown(file[c], span, tree, "flag")
      PROVE  Texted(i, scanFlagPatternBrackets(file[c][i].text).edits) \subseteq Nat \X Nat
  <2>. DEFINE text == file[c][i].text
              edits == scanFlagPatternBrackets(text).edits
  <2>1. i \in Nat /\ text \in Seq(STRING)
    BY <1>1 DEF Shown, Seen
  <2>. HIDE DEF text
  <2>2. edits \subseteq Nat
    <3>1. edits \subseteq DOMAIN text
      BY <2>1, PatternScanned DEF Spans, At, edits
    <3>. QED
      BY <2>1, <3>1, TextOf
  <2>. HIDE DEF edits
  <2>3. Texted(i, edits) \subseteq Nat \X Nat
    BY <2>1, <2>2 DEF Texted
  <2>. QED
    BY <2>3 DEF edits, text
<1>. QED
  BY <1>2 DEF flagPatternCutEdits, Masks

\* The words of an anonymous function.
WordsType == [site : Nat, end : Nat, tree : Trees, cut : Masks]

LEMMA WordsOf ==
  ASSUME NEW w \in Works
  PROVE  /\ w.words \in WordsType
         /\ w.words.site \in Nat /\ w.words.end \in Nat
         /\ w.words.tree \in Trees /\ w.words.cut \in Masks
         /\ \A v \in WordsType : [w EXCEPT !.words = v] \in Works
BY DEF Works, WordsType

LEMMA IslandOf ==
  ASSUME ChainInv, NEW c \in Goroutines
  PROVE  /\ \A a : After(c, a) \subseteq Sites(c)
         /\ \A w : Island(c, w) \subseteq Sites(c)
         /\ WholeIsland(c) \in Nat /\ Sites(c) \subseteq Nat
<1>1. Len(file[c]) \in Nat /\ Sites(c) \subseteq Nat
  BY WorkFacts, StackFacts, SitesOf
<1>. QED
  BY <1>1 DEF After, Island, WholeIsland

LEMMA CandidateKeeps ==
  ASSUME ChainInv, NEW c \in Goroutines, FindCandidate(c)
  PROVE  ChainInv'
<1>. DEFINE w == work[c]
            found == anonymousFunctionInvocationCandidate(file[c], w.err)
            a == Least(found)
            words == [site |-> a, end |-> WholeIsland(c), tree |-> NoTree, cut |-> w.cut]
            next == [w EXCEPT !.words = words]
            span == After(c, a)
<1>1. /\ Still /\ stack[c] = <<>>
      /\ \/ GoTo(c, "validate") /\ work' = work
         \/ found # {} /\ Run(c, "words", span, w.cut) /\ Carry(c, next)
  BY DEF FindCandidate, Still, Idle
<1>2. w \in Works /\ w.cut \in Masks /\ w.err.site \in Nat
  <2>1. w \in Works
    BY WorkFacts
  <2>. HIDE DEF w
  <2>. QED
    BY <2>1, WorkFields, ErrorsAre
<1>3. found # {} => a \in Nat
  <2>1. found \subseteq Nat
    BY <1>2 DEF anonymousFunctionInvocationCandidate
  <2>. HIDE DEF found
  <2>. QED
    BY <2>1, LeastIs
<1>4. span \subseteq Sites(c)
  BY IslandOf
<1>. HIDE DEF w, found, a
<1>5. found # {} => words \in WordsType
  BY <1>2, <1>3, IslandOf DEF WordsType, NoTree, Trees, Masks
<1>. HIDE DEF words, span
<1>6. found # {} => next \in Works
  BY <1>2, <1>5, WordsOf
<1>. HIDE DEF next
<1>7. "validate" \in Plain /\ "words" \in Phases /\ "words" # "prefix" /\ "words" # "resolved"
  BY DEF Plain, Phases
<1>8. CASE GoTo(c, "validate") /\ work' = work
  BY <1>1, <1>7, <1>8, GoAsIs
<1>9. CASE found # {} /\ Run(c, "words", span, w.cut) /\ Carry(c, next)
  BY <1>1, <1>2, <1>4, <1>6, <1>7, <1>9, RunKeeps
<1>. QED
  BY <1>1, <1>8, <1>9

\* The words get a tree, an end or a cut.
Treed(w, t) == [w EXCEPT !.words.tree = t]
Shortened(w, e) == [w EXCEPT !.words.end = e]
Cut(w, k) == [w EXCEPT !.words.cut = k]
LEMMA WordsChange ==
  ASSUME NEW w \in Works
  PROVE  /\ \A t \in Trees : Treed(w, t) \in Works
         /\ \A e \in Nat : Shortened(w, e) \in Works
         /\ \A k \in Masks : Cut(w, k) \in Works
         /\ \A e \in Nat, t \in Trees : [w EXCEPT !.words.end = e, !.words.tree = t] \in Works
<1>1. ASSUME NEW t \in Trees PROVE Treed(w, t) \in Works
  BY <1>1 DEF Treed, Works
<1>2. ASSUME NEW e \in Nat PROVE Shortened(w, e) \in Works
  BY <1>2 DEF Shortened, Works
<1>3. ASSUME NEW k \in Masks PROVE Cut(w, k) \in Works
  BY <1>3 DEF Cut, Works
<1>4. ASSUME NEW e \in Nat, NEW t \in Trees PROVE [w EXCEPT !.words.end = e, !.words.tree = t] \in Works
  BY <1>4 DEF Works
<1>. QED
  BY <1>1, <1>2, <1>3, <1>4

LEMMA WordsKeep ==
  ASSUME ChainInv, NEW c \in Goroutines, parseAnonymousInvocationWords(c)
  PROVE  ChainInv'
<1>. DEFINE w == work[c]
            until == answer[c].err.site
            span == {i \in Island(c, w) : i < until}
            treed == Treed(w, answer[c].tree)
            shrunk == Shortened(w, until)
<1>1. /\ Still /\ stack[c] = <<>>
      /\ \/ Carry(c, treed) /\ GoTo(c, "wordCuts")
         \/ Carry(c, shrunk) /\ Run(c, "words", span, w.cut)
         \/ GoTo(c, "validate") /\ work' = work
  BY DEF parseAnonymousInvocationWords, Still, Idle, Treed, Shortened
<1>2. w \in Works /\ answer[c].tree \in Trees /\ until \in Nat
  BY WorkFacts, ErrorsAre DEF Results
<1>3. span \subseteq Sites(c)
  BY IslandOf
<1>. HIDE DEF w, until, span
<1>4. treed \in Works /\ shrunk \in Works /\ w.cut \in Masks
  BY <1>2, WordsChange, WorkFields
<1>. HIDE DEF treed, shrunk
<1>5. /\ "validate" \in Plain /\ "wordCuts" \in Plain
      /\ "words" \in Phases /\ "words" # "prefix" /\ "words" # "resolved"
  BY DEF Plain, Phases
<1>6. CASE Carry(c, treed) /\ GoTo(c, "wordCuts")
  BY <1>1, <1>4, <1>5, <1>6, GoKeeps
<1>7. CASE Carry(c, shrunk) /\ Run(c, "words", span, w.cut)
  BY <1>1, <1>3, <1>4, <1>5, <1>7, RunKeeps
<1>8. CASE GoTo(c, "validate") /\ work' = work
  BY <1>1, <1>5, <1>8, GoAsIs
<1>. QED
  BY <1>1, <1>6, <1>7, <1>8

LEMMA BlankKeeps ==
  ASSUME ChainInv, NEW c \in Goroutines, stack[c] = <<>>, NEW w \in Works, BlankWords(c, w), Still
  PROVE  ChainInv'
<1>. DEFINE a == w.words.site
            words == {<<a, j>> : j \in {0} \cup {j \in Island(c, w) : file[c][j].host = a}}
            mask == w.mask \cup words
            next == [w EXCEPT !.candidates = Append(@, w.err), !.mask = @ \cup words]
<1>1. \/ Carry(c, w) /\ GoTo(c, "validate")
      \/ Carry(c, next) /\ Run(c, "bind", Sites(c), mask)
  BY DEF BlankWords
<1>2. words \in Masks
  BY WordsOf, IslandOf DEF Masks
<1>. HIDE DEF words
<1>3. mask \in Masks
  BY <1>2, WorkFields DEF Masks
<1>4. next \in Works
  <2>1. Append(w.candidates, w.err) \in Seq(Errors)
    BY WorkFields, AppendProperties
  <2>. QED
    BY <1>3, <2>1 DEF Works
<1>. HIDE DEF mask, next
<1>5. "validate" \in Plain /\ "bind" \in Phases /\ "bind" # "prefix" /\ "bind" # "resolved"
  BY DEF Plain, Phases
<1>6. CASE Carry(c, w) /\ GoTo(c, "validate")
  BY <1>5, <1>6, GoKeeps
<1>7. CASE Carry(c, next) /\ Run(c, "bind", Sites(c), mask)
  <2>1. Sites(c) \subseteq Sites(c)
    OBVIOUS
  <2>. QED
    BY <1>3, <1>4, <1>5, <1>7, <2>1, RunKeeps
<1>. QED
  BY <1>1, <1>6, <1>7

LEMMA RepairKeeps ==
  ASSUME ChainInv, NEW c \in Goroutines, RepairWords(c)
  PROVE  ChainInv'
<1>. DEFINE w == work[c]
            grown == w.words.cut \cup flagPatternCutEdits(file[c], Island(c, w), w.words.tree)
            next == Cut(w, grown)
            span == After(c, w.words.site)
<1>1. /\ Still /\ stack[c] = <<>>
      /\ \/ BlankWords(c, w)
         \/ Carry(c, next) /\ Run(c, "wordRepair", span, grown)
  BY DEF RepairWords, Still, Idle, Cut
<1>2. w \in Works /\ span \subseteq Sites(c)
  BY WorkFacts, IslandOf
<1>3. grown \in Masks
  <2>1. Island(c, w) \subseteq Sites(c)
    BY IslandOf
  <2>2. flagPatternCutEdits(file[c], Island(c, w), w.words.tree) \in Masks
    <3>. HIDE DEF w
    <3>. QED
      BY <2>1, CutsOf
  <2>3. w.words.cut \in Masks
    <3>. HIDE DEF w
    <3>. QED
      BY <1>2, WordsOf
  <2>. HIDE DEF w
  <2>. QED
    BY <2>2, <2>3 DEF Masks
<1>. HIDE DEF w, grown, span
<1>4. next \in Works
  BY <1>2, <1>3, WordsChange
<1>. HIDE DEF next
<1>5. "wordRepair" \in Phases /\ "wordRepair" # "prefix" /\ "wordRepair" # "resolved"
  BY DEF Phases
<1>6. CASE BlankWords(c, w)
  BY <1>1, <1>2, <1>6, BlankKeeps
<1>7. CASE Carry(c, next) /\ Run(c, "wordRepair", span, grown)
  BY <1>1, <1>2, <1>3, <1>4, <1>5, <1>7, RunKeeps
<1>. QED
  BY <1>1, <1>6, <1>7

LEMMA RepairedKeeps ==
  ASSUME ChainInv, NEW c \in Goroutines, WordsRepaired(c)
  PROVE  ChainInv'
<1>. DEFINE w == work[c]
            end == WholeIsland(c)
            tree == answer[c].tree
            next == [w EXCEPT !.words.end = end, !.words.tree = tree]
<1>1. /\ Still /\ stack[c] = <<>>
      /\ \/ BlankWords(c, w)
         \/ Carry(c, next) /\ GoTo(c, "wordCuts")
  BY DEF WordsRepaired, Still, Idle
<1>2. w \in Works /\ tree \in Trees /\ end \in Nat
  BY WorkFacts, IslandOf DEF Results
<1>. HIDE DEF w, end, tree
<1>3. next \in Works
  BY <1>2, WordsChange
<1>. HIDE DEF next
<1>4. "wordCuts" \in Plain
  BY DEF Plain, Phases
<1>5. CASE BlankWords(c, w)
  BY <1>1, <1>2, <1>5, BlankKeeps
<1>6. CASE Carry(c, next) /\ GoTo(c, "wordCuts")
  BY <1>1, <1>3, <1>4, <1>6, GoKeeps
<1>. QED
  BY <1>1, <1>5, <1>6

LEMMA BindKeeps ==
  ASSUME ChainInv, NEW c \in Goroutines, bindAnonymousInvocations(c)
  PROVE  ChainInv'
<1>. DEFINE w == work[c]
            next == [w EXCEPT !.err = answer[c].err]
<1>1. /\ Still
      /\ \/ Carry(c, next) /\ GoTo(c, "anonymous")
         \/ Accept(c, w, answer[c].tree, TRUE)
         \/ (\E err : Fail(c, err)) /\ work' = work
  BY DEF bindAnonymousInvocations, Still
<1>2. w \in Works /\ answer[c].tree \in Trees /\ answer[c].err \in Errors
  BY WorkFacts DEF Results
<1>3. next \in Works
  BY <1>2 DEF Works
<1>. HIDE DEF w, next
<1>4. "anonymous" \in Plain /\ TRUE \in BOOLEAN
  BY DEF Plain, Phases
<1>5. CASE Carry(c, next) /\ GoTo(c, "anonymous")
  BY <1>1, <1>3, <1>4, <1>5, GoKeeps
<1>6. CASE Accept(c, w, answer[c].tree, TRUE)
  BY <1>1, <1>2, <1>4, <1>6, AcceptKeeps
<1>7. CASE (\E err : Fail(c, err)) /\ work' = work
  BY <1>1, <1>7, FailKeeps
<1>. QED
  BY <1>1, <1>5, <1>6, <1>7

LEMMA ValidateKeeps ==
  ASSUME ChainInv, NEW c \in Goroutines, ValidateCandidate(c)
  PROVE  ChainInv'
<1>. DEFINE w == work[c]
            span == {i \in Sites(c) : i <= Head(w.candidates).site}
            mask == w.mask \cup w.closers
<1>1. /\ Still /\ work' = work /\ stack[c] = <<>>
      /\ \/ Fail(c, w.err)
         \/ w.candidates # <<>> /\ Run(c, "prefix", span, mask)
  BY DEF ValidateCandidate, Still, Idle
<1>2. w \in Works /\ Carry(c, w)
  BY <1>1, WorkFacts DEF Carry
<1>3. mask \in Masks
  BY <1>2, WorkFields DEF Masks
<1>4. span \subseteq Sites(c)
  OBVIOUS
<1>. HIDE DEF w, span, mask
<1>5. CASE Fail(c, w.err)
  BY <1>1, <1>5, FailKeeps
<1>6. CASE w.candidates # <<>> /\ Run(c, "prefix", span, mask)
  <2>1. "prefix" \in Phases /\ "prefix" # "resolved"
    BY DEF Phases
  <2>. QED
    BY <1>1, <1>2, <1>3, <1>4, <1>6, <2>1, RunKeeps
<1>. QED
  BY <1>1, <1>5, <1>6

LEMMA PrefixKeeps ==
  ASSUME ChainInv, NEW c \in Goroutines, prefixEndsWithAnonymousFunction(c)
  PROVE  ChainInv'
<1>. DEFINE w == work[c]
            err == answer[c].err
            bound == [w EXCEPT !.candidates = Tail(@), !.previous = NoErr, !.closers = {},
                               !.appended = 0]
            more == [w EXCEPT !.previous = err, !.appended = @ + 1,
                              !.closers = @ \cup Closers(err)]
<1>1. /\ Still /\ phase[c] = "prefix"
      /\ \/ (Carry(c, bound) \/ Carry(c, more)) /\ GoTo(c, "validate")
         \/ (\E e : Fail(c, e)) /\ work' = work
  BY DEF prefixEndsWithAnonymousFunction, Still, Idle
<1>2. w \in Works /\ err \in Errors /\ err.site \in Nat /\ w.candidates # <<>>
  <2>1. w \in Works /\ answer[c] \in Results
    BY WorkFacts
  <2>2. w.candidates # <<>>
    BY <1>1 DEF ChainInv, PhaseInv
  <2>3. err \in Errors
    BY <2>1 DEF Results
  <2>. QED
    BY <2>1, <2>2, <2>3, ErrorsAre
<1>. HIDE DEF w, err
<1>3. w.candidates \in Seq(Errors) /\ w.closers \in Masks /\ w.appended + 1 \in Nat
  BY <1>2, WorkFields
<1>4. bound \in Works
  <2>1. Tail(w.candidates) \in Seq(Errors) /\ {} \in Masks
    BY <1>2, <1>3, HeadTailProperties DEF Masks
  <2>. QED
    BY <1>2, <2>1, ErrorsAre DEF Works
<1>5. more \in Works
  <2>1. w.closers \cup Closers(err) \in Masks
    BY <1>2, <1>3 DEF Closers, Masks
  <2>. QED
    BY <1>2, <1>3, <2>1 DEF Works
<1>. HIDE DEF bound, more
<1>6. "validate" \in Plain
  BY DEF Plain, Phases
<1>7. CASE (Carry(c, bound) \/ Carry(c, more)) /\ GoTo(c, "validate")
  BY <1>1, <1>4, <1>5, <1>6, <1>7, GoKeeps
<1>8. CASE (\E e : Fail(c, e)) /\ work' = work
  BY <1>1, <1>8, FailKeeps
<1>. QED
  BY <1>1, <1>7, <1>8

LEMMA CutsKeep ==
  ASSUME ChainInv, NEW c \in Goroutines, resolveFlagPatternCuts(c)
  PROVE  ChainInv'
<1>. DEFINE w == work[c]
            grown == w.cut \cup flagPatternCutEdits(file[c], Sites(c), w.tree)
            next == [w EXCEPT !.cut = grown, !.kept = TRUE]
<1>1. /\ Still /\ stack[c] = <<>>
      /\ \/ GoTo(c, "resolve") /\ work' = work
         \/ Carry(c, next) /\ Run(c, "chain", Sites(c), grown)
  BY DEF resolveFlagPatternCuts, Still, Idle
<1>2. w \in Works
  BY WorkFacts
<1>3. w.cut \in Masks /\ flagPatternCutEdits(file[c], Sites(c), w.tree) \in Masks
  BY <1>2, WorkFields, CutsOf
<1>. HIDE DEF w
<1>4. grown \in Masks
  BY <1>3 DEF Masks
<1>. HIDE DEF grown
<1>5. next \in Works
  BY <1>2, <1>4 DEF Works
<1>. HIDE DEF next
<1>6. "resolve" \in Plain /\ "chain" \in Phases /\ "chain" # "prefix" /\ "chain" # "resolved"
  BY DEF Plain, Phases
<1>7. CASE GoTo(c, "resolve") /\ work' = work
  BY <1>1, <1>6, <1>7, GoAsIs
<1>8. CASE Carry(c, next) /\ Run(c, "chain", Sites(c), grown)
  BY <1>1, <1>4, <1>5, <1>6, <1>8, RunKeeps
<1>. QED
  BY <1>1, <1>7, <1>8

LEMMA NestedKeeps ==
  ASSUME ChainInv, NEW c \in Goroutines, resolveNestedArithmetic(c)
  PROVE  ChainInv'
<1>. DEFINE w == work[c]
            h == Least(Unresolved(c))
            span == Inside(file[c], h)
<1>1. /\ Still /\ stack[c] = <<>> /\ work' = work
      /\ \/ GoTo(c, "conditional")
         \/ Unresolved(c) # {} /\ Run(c, "resolved", span, {})
  BY DEF resolveNestedArithmetic, Still, Idle
<1>2. w \in Works /\ Carry(c, w) /\ w.tree = work[c].tree
  BY <1>1, WorkFacts DEF Carry
<1>3. span \subseteq Sites(c)
  BY DEF Inside, Sites
<1>. HIDE DEF w, span
<1>4. "conditional" \in Plain /\ "resolved" \in Phases /\ "resolved" # "prefix" /\ {} \in Masks
  BY DEF Plain, Phases, Masks
<1>5. CASE GoTo(c, "conditional")
  BY <1>1, <1>4, <1>5, GoAsIs
<1>6. CASE Unresolved(c) # {} /\ Run(c, "resolved", span, {})
  BY <1>1, <1>2, <1>3, <1>4, <1>6, RunKeeps
<1>. QED
  BY <1>1, <1>5, <1>6

LEMMA SpanKeeps ==
  ASSUME ChainInv, NEW c \in Goroutines, parseArithmeticSpan(c)
  PROVE  ChainInv'
<1>. DEFINE w == work[c]
            h == Least(Unresolved(c))
            mine == answer[c].tree
            read == w.tree.read \cup mine.read \cup {<<h, 1>>}
            left == (w.tree.left \ Whole({h})) \cup mine.left
            tree == [w.tree EXCEPT !.read = read, !.left = left]
            next == [w EXCEPT !.tree = tree]
<1>1. /\ Still /\ phase[c] = "resolved"
      /\ \/ Reject(c, answer[c].err) /\ work' = work
         \/ /\ work' = [work EXCEPT
                 ![c].tree.read = @ \cup mine.read \cup {<<h, 1>>},
                 ![c].tree.left = (@ \ Whole({h})) \cup mine.left]
            /\ GoTo(c, "resolve")
  BY DEF parseArithmeticSpan, Still, Idle
<1>2. w \in Works /\ w.tree \in Trees /\ mine \in Trees
  <2>1. w \in Works /\ answer[c] \in Results
    BY WorkFacts
  <2>. QED
    BY <2>1, WorkFields DEF Results
<1>3. h \in Nat
  <2>1. Unresolved(c) # {}
    BY <1>1 DEF ChainInv, PhaseInv
  <2>2. Unresolved(c) \subseteq Nat
    BY WorkFacts DEF Unresolved, Shown, Seen
  <2>. QED
    BY <2>1, <2>2, LeastIs
<1>. HIDE DEF h, mine
<1>4. tree \in Trees
  <2>1. read \in Masks /\ left \in Masks
    BY <1>2, <1>3 DEF Trees, Masks
  <2>. HIDE DEF w, read, left
  <2>. QED
    BY <1>2, <2>1 DEF Trees
<1>5. work' = [work EXCEPT ![c].tree.read = @ \cup mine.read \cup {<<h, 1>>},
                           ![c].tree.left = (@ \ Whole({h})) \cup mine.left]
      => Carry(c, next)
  <2>1. work \in [Goroutines -> Works]
    BY DEF ChainInv, ChainTypes
  <2>2. next = [w EXCEPT !.tree.read = read, !.tree.left = left]
    <3>. HIDE DEF w, read, left
    <3>. QED
      BY <1>2 DEF Works
  <2>3. [work EXCEPT ![c].tree.read = @ \cup mine.read \cup {<<h, 1>>},
                     ![c].tree.left = (@ \ Whole({h})) \cup mine.left]
        = [work EXCEPT ![c] = [w EXCEPT !.tree.read = read, !.tree.left = left]]
    BY <2>1
  <2>. QED
    BY <2>2, <2>3 DEF Carry
<1>. HIDE DEF tree
<1>6. next \in Works
  BY <1>2, <1>4 DEF Works
<1>. HIDE DEF next
<1>7. "resolve" \in Plain
  BY DEF Plain, Phases
<1>8. CASE Reject(c, answer[c].err) /\ work' = work
  BY <1>1, <1>8, FailKeeps
<1>9. CASE Carry(c, next) /\ GoTo(c, "resolve")
  BY <1>1, <1>6, <1>7, <1>9, GoKeeps
<1>. QED
  BY <1>1, <1>5, <1>8, <1>9

LEMMA GuardKeeps ==
  ASSUME ChainInv, NEW c \in Goroutines, NEW at, NEW next \in Plain, NEW wrong, NEW class,
         Guard(c, at, next, wrong, class)
  PROVE  ChainInv'
<1>1. Still /\ work' = work
  BY DEF Guard, Still
<1>2. (\E e : Reject(c, e)) \/ GoTo(c, next)
  BY DEF Guard
<1>3. CASE \E e : Reject(c, e)
  BY <1>1, <1>3, FailKeeps
<1>4. CASE GoTo(c, next)
  BY <1>1, <1>4, GoAsIs
<1>. QED
  BY <1>2, <1>3, <1>4

LEMMA GuardsKeep ==
  ASSUME ChainInv, NEW c \in Goroutines,
         \/ validateConditionalPatterns(c) \/ rejectUnsupportedLoopWords(c)
         \/ rejectCloseBraceWords(c) \/ CarriageReturnProbe(c) \/ rejectFlagPatternCuts(c)
  PROVE  ChainInv'
<1>1. {"returns", "braces", "patterns", "loopWords", "file"} \subseteq Plain
  BY DEF Plain, Phases
<1>2. \E at, wrong, class : \E next \in {"returns", "braces", "patterns", "loopWords", "file"} :
        Guard(c, at, next, wrong, class)
  <2>1. CASE validateConditionalPatterns(c)
    BY <2>1 DEF validateConditionalPatterns
  <2>2. CASE rejectUnsupportedLoopWords(c)
    BY <2>2 DEF rejectUnsupportedLoopWords
  <2>3. CASE rejectCloseBraceWords(c)
    BY <2>3 DEF rejectCloseBraceWords
  <2>4. CASE CarriageReturnProbe(c)
    BY <2>4 DEF CarriageReturnProbe
  <2>5. CASE rejectFlagPatternCuts(c)
    BY <2>5 DEF rejectFlagPatternCuts
  <2>. QED
    BY <2>1, <2>2, <2>3, <2>4, <2>5
<1>. QED
  BY <1>1, <1>2, GuardKeeps

LEMMA ReturnsKeep ==
  ASSUME ChainInv, NEW c \in Goroutines, rejectCarriageReturns(c)
  PROVE  ChainInv'
<1>. DEFINE mask == Whole(Returns(c))
<1>1. /\ Still /\ stack[c] = <<>> /\ work' = work
      /\ GoTo(c, "loopWords") \/ Run(c, "probe", Sites(c), mask)
  BY DEF rejectCarriageReturns, Still, Idle
<1>2. mask \in Masks
  <2>1. Returns(c) \in SUBSET Nat
    BY WorkFacts DEF Returns
  <2>. QED
    BY <2>1, WholeIn
<1>. HIDE DEF mask
<1>3. "loopWords" \in Plain /\ "probe" \in Plain
  BY DEF Plain, Phases
<1>4. CASE GoTo(c, "loopWords")
  BY <1>1, <1>3, <1>4, GoAsIs
<1>5. CASE Run(c, "probe", Sites(c), mask)
  BY <1>1, <1>2, <1>3, <1>5, RunAsIs
<1>. QED
  BY <1>1, <1>4, <1>5

LEMMA NewFileKeeps ==
  ASSUME ChainInv, NEW c \in Goroutines, NewFile(c)
  PROVE  ChainInv'
<1>1. Still /\ work' = work /\ GoTo(c, "done")
  BY DEF NewFile, Still
<1>2. "done" \in Plain
  BY DEF Plain, Phases
<1>. QED
  BY <1>1, <1>2, GoAsIs

\* A reset moves its caller and forgets the depths; the nesting stays.
LEMMA ResetsKeep ==
  ASSUME ChainInv, NEW c \in Goroutines, ResetTreeParses(c) \/ ResetDepth(c)
  PROVE  ChainInv'
<1>1. /\ file' = file /\ answer' = answer /\ work' = work /\ adapterNesting' = adapterNesting
      /\ \E p \in {"resetDepth", "start"} : GoTo(c, p)
      /\ \/ maxAdapterDepth' = maxAdapterDepth /\ entered' = entered
         \/ maxAdapterDepth' = 0 /\ entered' = {}
  BY DEF ResetTreeParses, ResetDepth
<1>2. PICK p \in {"resetDepth", "start"} : GoTo(c, p)
  BY <1>1
<1>3. p \in Phases /\ p # "prefix" /\ p # "resolved"
  BY DEF Phases
<1>4. work[c] \in Works /\ work' = [work EXCEPT ![c] = work[c]]
  BY <1>1, WorkFacts
<1>5. Goes(c, p, work[c])
  BY <1>2, <1>3, <1>4 DEF Goes, GoTo
<1>6. PICK s \in Seq(Levels) : Moved(c, s) /\ s = stack[c]
  BY <1>1, <1>2, IdleMoves DEF GoTo
<1>7. Kept(c, s)
  BY <1>1, <1>6 DEF Kept
<1>8. maxAdapterDepth' \in Nat /\ entered' \subseteq Nat /\ \A d \in entered' : d <= maxAdapterDepth'
  BY <1>1, CountersOf
<1>9. answer' \in [Goroutines -> Results]
  BY <1>1 DEF ChainInv, ChainTypes
<1>10. phase' \in [Goroutines -> Phases] /\ work' \in [Goroutines -> Works] /\ PhaseInv'
  BY <1>1, <1>5, PhasesMove
<1>. QED
  BY <1>1, <1>6, <1>7, <1>8, <1>9, <1>10, StepKeeps
-----------------------------------------------------------------------------
(***************************************************************************)
(* The theorems.                                                           *)
(***************************************************************************)
LEMMA ChainStarts == ChainInit => ChainInv
<1>. SUFFICES ASSUME ChainInit PROVE ChainInv
  OBVIOUS
<1>1. file \in [Goroutines -> Seq(Site)]
  BY BatchesAssumption DEF ChainInit
<1>2. /\ phase = [c \in Goroutines |-> CASE file[c] = <<>> -> "done"
                                         [] c \in Resets -> "reset"
                                         [] OTHER -> "start"]
      /\ stack = [c \in Goroutines |-> <<>>] /\ answer = [c \in Goroutines |-> Pending]
      /\ work = [c \in Goroutines |-> NoWork]
      /\ adapterNesting = 0 /\ maxAdapterDepth = 0 /\ entered = {}
  BY DEF ChainInit
<1>3. ChainTypes
  <2>1. phase \in [Goroutines -> Phases]
    <3>1. \A c \in Goroutines : phase[c] \in {"done", "reset", "start"}
      BY <1>2
    <3>. QED
      BY <1>2, <3>1 DEF Phases
  <2>2. stack \in [Goroutines -> Seq(Levels)]
    BY <1>2
  <2>3. answer \in [Goroutines -> Results]
    BY <1>2, ResultsAre
  <2>4. NoWork \in Works
    <3>1. {} \in Masks /\ NoTree \in Trees /\ <<>> \in Seq(Errors)
      BY DEF Masks, Trees, NoTree
    <3>. QED
      BY <3>1, ErrorsAre DEF NoWork, NoWords, Works
  <2>5. work \in [Goroutines -> Works]
    BY <1>2, <2>4
  <2>. QED
    BY <1>1, <1>2, <2>1, <2>2, <2>3, <2>5 DEF ChainTypes
<1>4. StacksInv
  BY <1>2 DEF StacksInv, StackOk
<1>5. PhaseInv
  <2>1. \A c \in Goroutines : phase[c] \in {"done", "reset", "start"}
    BY <1>2
  <2>. QED
    BY <2>1 DEF PhaseInv
<1>6. StatsInv
  <2>1. Calls = {}
    BY <1>2 DEF Calls
  <2>. QED
    BY <1>2, <2>1, FS_EmptySet DEF StatsInv
<1>. QED
  BY <1>3, <1>4, <1>5, <1>6 DEF ChainInv

LEMMA ChainNextKeeps == ChainInv /\ [ChainNext]_chainVars => ChainInv'
<1>. SUFFICES ASSUME ChainInv, [ChainNext]_chainVars PROVE ChainInv'
  OBVIOUS
<1>1. ASSUME NEW c \in Goroutines, ChainStep(c) PROVE ChainInv'
  BY <1>1, EnterKeeps, LoadKeeps, SwapKeeps, ParseKeeps, AttemptKeeps, GraftKeeps,
     SettleKeeps, LeaveKeeps DEF ChainStep
<1>2. ASSUME NEW c \in Goroutines, parseSource(c) PROVE ChainInv'
  BY <1>2, BeginKeeps, ChainAnsweredKeeps, CandidateKeeps, WordsKeep, RepairKeeps, RepairedKeeps,
     BindKeeps, ValidateKeeps, PrefixKeeps, CutsKeep, NestedKeeps, SpanKeeps, GuardsKeep, ReturnsKeep,
     NewFileKeeps DEF parseSource
<1>3. CASE UNCHANGED chainVars
  <2>1. /\ file' = file /\ phase' = phase /\ stack' = stack /\ answer' = answer /\ work' = work
        /\ adapterNesting' = adapterNesting /\ maxAdapterDepth' = maxAdapterDepth
        /\ entered' = entered
    BY <1>3 DEF chainVars
  <2>2. PhaseInv'
    BY <2>1, PhasesStay
  <2>3. ChainTypes' /\ StacksInv' /\ StatsInv'
    BY <2>1 DEF ChainInv, ChainTypes, StacksInv, StatsInv, Calls
  <2>. QED
    BY <2>2, <2>3 DEF ChainInv
<1>. QED
  BY <1>1, <1>2, <1>3, ResetsKeep DEF ChainNext, Parsing, Ended

LEMMA ChainInvariance == ChainSpec => []ChainInv
BY ChainStarts, ChainNextKeeps, PTL DEF ChainSpec

(* On every level of the chain a retry keeps the masks it was called under and *)
(* adds one of a site the call is over, for every file: what an adapter masks  *)
(* is a byte, or a construct, of the call that is not masked yet, because the  *)
(* base parser's error is at a site it was given (adapter_chain.go).           *)
THEOREM RetriesAdvance == ChainSpec => []RetriesEnd
<1>1. ChainInv => RetriesEnd
  <2>. SUFFICES ASSUME ChainInv, NEW c \in Goroutines, NEW k \in 1..Len(stack[c]) - 1,
                       stack[c][k + 1].stage = "settle"
                PROVE  /\ stack[c][k + 1].mask \subseteq stack[c][k].mask
                       /\ \E m \in stack[c][k].mask :
                            m[1] \in stack[c][k + 1].span /\ m \notin stack[c][k + 1].mask
    BY DEF RetriesEnd
  <2>. DEFINE caller == stack[c][k + 1]
              retry == stack[c][k]
  <2>1. stack[c] \in Seq(Levels) /\ StackOk(file[c], stack[c]) /\ Len(stack[c]) \in Nat
    BY StackFacts, TextOf
  <2>2. k + 1 \in 1..Len(stack[c])
    BY <2>1
  <2>3. LevelOk(file[c], caller) /\ NestedOk(retry, caller)
    BY <2>1, <2>2 DEF StackOk
  <2>. HIDE DEF caller, retry
  <2>4. caller.stage = "settle"
    BY DEF caller
  <2>5. Adds(caller, caller.edits) /\ caller.edits # {} /\ retry.mask = caller.mask \cup caller.edits
    BY <2>3, <2>4 DEF LevelOk, NestedOk
  <2>6. caller.mask \subseteq retry.mask
        /\ \E m \in retry.mask : m[1] \in caller.span /\ m \notin caller.mask
    BY <2>5 DEF Adds
  <2>. QED
    BY <2>6 DEF caller, retry
<1>. QED
  BY <1>1, ChainInvariance, PTL

(* With any number of goroutines parsing and resetting, the maximum of stats.go *)
(* is never below a depth counted since the last reset, and the nesting is the  *)
(* number of calls of the chain that are under way.                             *)
THEOREM StatsStayKept == ChainSpec => []StatsKept
<1>1. ChainInv => StatsKept
  BY DEF ChainInv, StatsInv, StatsKept
<1>. QED
  BY <1>1, ChainInvariance, PTL
=============================================================================
