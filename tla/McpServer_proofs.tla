-------------------------- MODULE McpServer_proofs --------------------------
(***************************************************************************)
(* The safety properties of McpServer for any set of client sessions, of   *)
(* any length, and any number of files in a call.                          *)
(***************************************************************************)
EXTENDS McpServer, SequenceTheorems, FiniteSetTheorems, TLAPS

Even(k) == k % 2 = 0

\* The reader waits with a frame that it rejects, and reads to the end.
ReaderInv == /\ reader = "reply" => /\ next <= Len(input)
                                    /\ ~Accepted(input[next])
                                    /\ ~Notification(input[next])
             /\ reader = "eof" => next = Len(input) + 1

\* A frame has a call exactly when it was read and asks for one.
CallInv == \A n \in Frames :
             /\ pc[n] # "none" <=> /\ n < next
                                   /\ Accepted(input[n])
                                   /\ input[n].method \in {"lint", "syntax"}
                                   /\ input[n].id = "good"
             /\ pc[n] \in {"lint", "linting"} => input[n].method = "lint"
             /\ pc[n] \in {"syntax", "prepare", "check", "compile", "clean"} =>
                  input[n].method = "syntax"

\* Both verdicts of each file come before the next file: what a call has and
\* what it still has to do is at most two verdicts a file.
CallOwes(n) ==
  /\ checks[n] \in Seq({"clean", "errors"})
  /\ pc[n] \in {"none", "lint", "linting", "syntax", "prepare"} => checks[n] = <<>>
  /\ pc[n] \notin {"clean", "answer", "closed"} => reply[n] = "none"
  /\ pc[n] \in {"syntax", "prepare", "check", "compile"} => files[n] > 0
  /\ pc[n] = "check" => /\ Even(Len(checks[n]))
                        /\ Len(checks[n]) + 2 * files[n] <= 2 * MaxFiles
  /\ pc[n] = "compile" => /\ ~Even(Len(checks[n]))
                          /\ Len(checks[n]) + 2 * files[n] <= 2 * MaxFiles + 1

CheckInv == \A n \in Frames : CallOwes(n)

\* The ID of the line that the holder of the mutex writes.
IdOf(w) == IF w = Reader THEN ReplyId(next) ELSE w

\* Only a writer with a line to write holds the mutex, a line is open only
\* while it is held, and the open line is the holder's.
LockInv == /\ lock = Reader + 1 => reader = "reply"
           /\ \A n \in Frames : lock = n + 1 => pc[n] = "answer"
           /\ lock = 0 => Even(Len(wire))
           /\ \A w \in Frames \cup {Reader} :
                lock = w + 1 /\ ~Even(Len(wire)) => wire[Len(wire)].id = IdOf(w)

\* A frame that the reader rejected and answered with an ID of its own.
Refused(n) == /\ n < next /\ ~Accepted(input[n]) /\ ~Notification(input[n])
              /\ ReplyId(n) = n

\* A line is complete exactly for what has been answered.
AnswerInv == /\ \A n \in Frames :
                  /\ \A j, k \in Lines(n) : j = k
                  /\ Lines(n) # {} <=> pc[n] = "closed" \/ Refused(n)
             /\ Cardinality(Lines(NullId)) = Cardinality({n \in Nameless : n < next})

Inv == /\ TypeOK /\ ReaderInv /\ CallInv /\ CheckInv /\ LockInv /\ LinesAreWhole /\ AnswerInv
       /\ VerdictsAreReal
-----------------------------------------------------------------------------
Stages == {"none", "lint", "linting", "syntax", "prepare", "check", "compile", "clean",
           "answer", "closed"}
Replies == {"none", "result", "error"}

\* The steps, one per action, as the proofs below split them.
LEMMA Steps ==
  ASSUME Next
  PROVE  \/ Read \/ Eof \/ ReplyLock \/ ReplyPut \/ Closed
         \/ \E n \in Frames :
              \/ LintBegin(n) \/ LintEnd(n) \/ SyntaxBegin(n) \/ MakeTemp(n) \/ Deadline(n)
              \/ Exits(n) \/ Killed(n) \/ Judged(n) \/ CleanUp(n) \/ AnswerLock(n)
              \/ AnswerPut(n)
BY Zenon DEF Next, ReadLoop, Call

\* A step inside a tool call: what it may touch of the whole state.
InCall(n) == \/ LintBegin(n) \/ LintEnd(n) \/ SyntaxBegin(n) \/ MakeTemp(n) \/ Deadline(n)
             \/ Exits(n) \/ Killed(n) \/ Judged(n) \/ CleanUp(n)

LEMMA InCallFrame ==
  ASSUME NEW n \in Frames, InCall(n)
  PROVE  UNCHANGED <<input, next, reader, lock, wire>>
BY DEF InCall, LintBegin, LintEnd, SyntaxBegin, MakeTemp, Deadline, Exits, Killed, Judged,
       CleanUp, stream

\* The session is fixed: what the frames say and whom replies name stays.
LEMMA Fixed ==
  ASSUME [Next]_vars
  PROVE  /\ input' = input
         /\ Frames' = Frames
         /\ Nameless' = Nameless
         /\ \A n : /\ Accepted(input[n])' <=> Accepted(input[n])
                   /\ Notification(input[n])' <=> Notification(input[n])
                   /\ ReplyId(n)' = ReplyId(n)
<1>1. input' = input
  <2>1. CASE Read \/ Eof \/ ReplyLock \/ ReplyPut
    BY <2>1 DEF Read, Eof, ReplyLock, ReplyPut
  <2>2. CASE UNCHANGED vars \/ Closed
    BY <2>2 DEF vars, Closed
  <2>3. ASSUME NEW n \in Frames, AnswerLock(n) \/ AnswerPut(n) PROVE input' = input
    BY <2>3 DEF AnswerLock, AnswerPut
  <2>4. ASSUME NEW n \in Frames, InCall(n) PROVE input' = input
    BY <2>4, InCallFrame
  <2>5. QED
    BY <2>1, <2>2, <2>3, <2>4, Steps DEF InCall
<1>2. Frames' = Frames
  BY <1>1 DEF Frames
<1>3. \A n : /\ Accepted(input[n])' <=> Accepted(input[n])
             /\ Notification(input[n])' <=> Notification(input[n])
             /\ ReplyId(n)' = ReplyId(n)
  BY <1>1 DEF Accepted, ValidEnvelope, Notification, ReplyId
<1>4. Nameless' = Nameless
  BY <1>1, <1>2, <1>3 DEF Nameless
<1>5. QED
  BY <1>1, <1>2, <1>3, <1>4

\* The positions of the input are the frames.
LEMMA Positions ==
  ASSUME TypeOK
  PROVE  /\ input \in Seq(FrameShapes)
         /\ Len(input) \in Nat
         /\ Frames = 1..Len(input)
         /\ \A n \in Frames : input[n] \in FrameShapes /\ n \in Nat \ {0} /\ n # NullId
<1>1. input \in Seq(FrameShapes)
  BY BoundsAssumption DEF TypeOK
<1>2. Len(input) \in Nat /\ Frames = 1..Len(input)
  BY <1>1, LenProperties DEF Frames
<1>3. QED
  BY <1>1, <1>2, ElementOfSeq DEF NullId

LEMMA Parity ==
  ASSUME NEW k \in Nat
  PROVE  /\ Even(k + 1) <=> ~Even(k)
         /\ Even(k) <=> k % 2 # 1
BY DEF Even
-----------------------------------------------------------------------------
\* What a line of the input that is not rejected does to the calls.
LEMMA Dispatched ==
  ASSUME TypeOK, Read, Accepted(input[next])
  PROVE  /\ next \in Frames /\ next' = next + 1 /\ UNCHANGED reader
         /\ done' \in [Frames -> BOOLEAN]
         /\ \/ /\ UNCHANGED <<pc, files>>
               /\ ~(input[next].method \in {"lint", "syntax"} /\ input[next].id = "good")
            \/ /\ input[next].method \in {"lint", "syntax"} /\ input[next].id = "good"
               /\ pc' = [pc EXCEPT ![next] = input[next].method]
               /\ \E k \in 1..MaxFiles : files' = [files EXCEPT ![next] = k]
<1>1. next \in Frames
  BY Positions DEF Read, TypeOK
<1>2. Dispatch(next) /\ next' = next + 1 /\ UNCHANGED reader
  BY DEF Read
<1>3. CASE input[next].method = "cancel"
  <2>1. /\ done' = [k \in Frames |-> done[k] \/ (k = input[next].target /\ pc[k] # "none")]
        /\ UNCHANGED <<pc, files>>
    BY <1>2, <1>3 DEF Dispatch
  <2>2. \A k \in Frames : (done[k] \/ (k = input[next].target /\ pc[k] # "none")) \in BOOLEAN
    BY Zenon
  <2>3. done' \in [Frames -> BOOLEAN]
    BY Zenon, <2>1, <2>2
  <2>4. QED
    BY <1>1, <1>2, <1>3, <2>1, <2>3
<1>4. CASE input[next].method # "cancel"
  BY <1>1, <1>2, <1>4 DEF Dispatch, TypeOK
<1>5. QED
  BY <1>3, <1>4

\* What a rejected line does.
LEMMA Rejected ==
  ASSUME TypeOK, Read, ~Accepted(input[next])
  PROVE  /\ next \in Frames
         /\ UNCHANGED <<pc, done, files>>
         /\ \/ next' = next + 1 /\ UNCHANGED reader /\ Notification(input[next])
            \/ reader' = "reply" /\ UNCHANGED next /\ ~Notification(input[next])
BY Positions DEF Read, TypeOK, Silent

\* What Judged does to the verdicts of a call.
LEMMA JudgedVerdicts ==
  ASSUME TypeOK, NEW n \in Frames, checks[n] \in Seq({"clean", "errors"}), Judged(n)
  PROVE  /\ \A m \in Frames \ {n} : checks'[m] = checks[m]
         /\ \/ UNCHANGED <<checks, files>> /\ pc'[n] = "clean" /\ reply'[n] = "error"
            \/ /\ checks'[n] \in Seq({"clean", "errors"})
               /\ Len(checks'[n]) = Len(checks[n]) + 1
               /\ checks' = [checks EXCEPT ![n] = checks'[n]]
               /\ \/ /\ pc[n] = "check" /\ pc'[n] = "compile"
                     /\ UNCHANGED <<files, reply>>
                  \/ /\ pc[n] = "compile"
                     /\ files' = [files EXCEPT ![n] = files[n] - 1]
                     /\ \/ files[n] # 1 /\ pc'[n] = "check" /\ UNCHANGED reply
                        \/ files[n] = 1 /\ pc'[n] = "clean" /\ reply'[n] = "result"
<1>1. CASE ~IsVerdict(n)
  BY <1>1 DEF Judged, TypeOK
<1>2. CASE IsVerdict(n)
  <2>1. checks' = [checks EXCEPT ![n] = Append(checks[n], process[n])]
    BY <1>2 DEF Judged
  <2>2. process[n] \in {"clean", "errors"}
    BY <1>2 DEF IsVerdict
  <2>3. /\ Append(checks[n], process[n]) \in Seq({"clean", "errors"})
        /\ Len(Append(checks[n], process[n])) = Len(checks[n]) + 1
    BY <2>2, AppendProperties
  <2>4. checks'[n] = Append(checks[n], process[n])
    BY <2>1 DEF TypeOK
  <2>5. \/ /\ pc[n] = "check" /\ pc'[n] = "compile"
           /\ UNCHANGED <<files, reply>>
        \/ /\ pc[n] = "compile"
           /\ files' = [files EXCEPT ![n] = files[n] - 1]
           /\ \/ files[n] # 1 /\ pc'[n] = "check" /\ UNCHANGED reply
              \/ files[n] = 1 /\ pc'[n] = "clean" /\ reply'[n] = "result"
    BY <1>2 DEF Judged, LastFile, TypeOK
  <2>6. QED
    BY <2>1, <2>3, <2>4, <2>5 DEF TypeOK
<1>3. QED
  BY <1>1, <1>2

\* The line that is open is the last half on the stream.
LEMMA OpenLine ==
  ASSUME TypeOK, LinesAreWhole
  PROVE  /\ Len(wire) \in Nat
         /\ DOMAIN wire = 1..Len(wire)
         /\ wire # <<>> /\ wire[Len(wire)].part = "first" <=> ~Even(Len(wire))
<1>1. Len(wire) \in Nat /\ DOMAIN wire = 1..Len(wire) /\ (wire = <<>> <=> Len(wire) = 0)
  BY LenProperties, EmptySeq DEF TypeOK
<1>2. CASE Len(wire) = 0
  BY <1>1, <1>2 DEF Even
<1>3. CASE Len(wire) # 0 /\ Even(Len(wire))
  <2>1. Len(wire) \in DOMAIN wire /\ Len(wire) - 1 \in DOMAIN wire
    <3>1. ~Even(1)
      BY DEF Even
    <3>2. QED
      BY <1>1, <1>3, <3>1
  <2>2. wire[Len(wire)] = [wire[Len(wire) - 1] EXCEPT !.part = "last"]
    BY <1>3, <2>1 DEF LinesAreWhole, Even
  <2>3. wire[Len(wire) - 1] \in Halves
    BY <2>1, <1>1, ElementOfSeq DEF TypeOK
  <2>4. wire[Len(wire)].part = "last"
    BY <2>2, <2>3 DEF Halves
  <2>5. QED
    BY <1>1, <1>3, <2>4
<1>4. CASE ~Even(Len(wire))
  <2>1. Len(wire) % 2 = 1
    BY <1>1, <1>4, Parity
  <2>2. Len(wire) # 0
    BY <1>4 DEF Even
  <2>3. Len(wire) \in DOMAIN wire
    BY <1>1, <2>2
  <2>4. QED
    BY <1>1, <1>4, <2>1, <2>2, <2>3 DEF LinesAreWhole
<1>5. QED
  BY <1>1, <1>2, <1>3, <1>4

\* What a half of the line of id adds to the stream, and the mutex after it.
PutEffect(id) ==
  /\ wire' \in Seq(Halves)
  /\ Len(wire') = Len(wire) + 1
  /\ DOMAIN wire' = 1..(Len(wire) + 1)
  /\ \A k \in 1..Len(wire) : wire'[k] = wire[k]
  /\ wire'[Len(wire) + 1].id = id
  /\ \/ /\ Even(Len(wire)) /\ ~Wrote
        /\ wire'[Len(wire) + 1].part = "first" /\ lock' = lock
     \/ /\ ~Even(Len(wire)) /\ Wrote
        /\ wire'[Len(wire) + 1] = [wire[Len(wire)] EXCEPT !.part = "last"]
        /\ wire'[Len(wire) + 1].part = "last" /\ lock' = 0

\* Put, by a holder whose line, if open, is its own.
LEMMA PutHalf ==
  ASSUME TypeOK, LinesAreWhole, NEW w, NEW id \in Frames \cup {NullId}, Put(w, id),
         ~Even(Len(wire)) => wire[Len(wire)].id = id
  PROVE  PutEffect(id)
<1> DEFINE half == wire # <<>> /\ wire[Len(wire)].part = "first"
           new == [id |-> id, part |-> IF half THEN "last" ELSE "first"]
<1>1. wire' = Append(wire, new) /\ lock' = IF half THEN 0 ELSE lock
  BY DEF Put
<1>2. new \in Halves
  BY DEF Halves
<1>3. wire \in Seq(Halves) /\ Len(wire) \in Nat
  BY LenProperties DEF TypeOK
<1>4. /\ wire' \in Seq(Halves) /\ Len(wire') = Len(wire) + 1
      /\ \A k \in 1..Len(wire) : wire'[k] = wire[k]
      /\ wire'[Len(wire) + 1] = new
  BY <1>1, <1>2, <1>3, AppendProperties
<1>5. DOMAIN wire' = 1..(Len(wire) + 1)
  BY <1>4, LenProperties
<1>6. half <=> ~Even(Len(wire))
  BY OpenLine
<1>7. new.id = id /\ new.part = IF half THEN "last" ELSE "first"
  OBVIOUS
<1>8. Wrote <=> half
  BY <1>4, <1>7 DEF Wrote
<1> HIDE DEF half, new
<1>9. ~Even(Len(wire)) => new = [wire[Len(wire)] EXCEPT !.part = "last"]
  <2>1. SUFFICES ASSUME ~Even(Len(wire)) PROVE new = [wire[Len(wire)] EXCEPT !.part = "last"]
    OBVIOUS
  <2>2. Len(wire) \in 1..Len(wire)
    BY <1>3, <2>1 DEF Even
  <2>3. wire[Len(wire)] \in Halves /\ wire[Len(wire)].id = id
    BY <1>3, <2>1, <2>2, ElementOfSeq
  <2>4. QED
    BY <1>2, <1>6, <1>7, <2>1, <2>3 DEF Halves
<1>10. QED
  BY <1>1, <1>4, <1>5, <1>6, <1>7, <1>8, <1>9 DEF PutEffect

\* The two writers' steps.
LEMMA ReplyPutHalf ==
  ASSUME TypeOK, ReaderInv, LinesAreWhole, LockInv, ReplyPut
  PROVE  /\ next \in Frames
         /\ ReplyId(next) \in {next, NullId}
         /\ PutEffect(ReplyId(next))
<1>1. lock = Reader + 1 /\ Put(Reader, ReplyId(next))
  BY DEF ReplyPut, Put
<1>2. ~Even(Len(wire)) => wire[Len(wire)].id = ReplyId(next)
  BY <1>1 DEF LockInv, IdOf
<1>3. next \in Frames
  BY Positions DEF ReplyPut, ReaderInv, TypeOK
<1>4. ReplyId(next) \in {next, NullId}
  BY DEF ReplyId
<1>5. QED
  BY <1>1, <1>2, <1>3, <1>4, PutHalf

LEMMA AnswerPutHalf ==
  ASSUME TypeOK, LinesAreWhole, LockInv, NEW n \in Frames, AnswerPut(n)
  PROVE  PutEffect(n)
<1>1. lock = n + 1 /\ Put(n, n)
  BY DEF AnswerPut, Put
<1>2. n # Reader
  BY Positions DEF Reader, NullId
<1>3. ~Even(Len(wire)) => wire[Len(wire)].id = n
  BY <1>1, <1>2 DEF LockInv, IdOf
<1>4. QED
  BY <1>1, <1>3, PutHalf

\* What a call that still has verdicts to get owes.
LEMMA Owed ==
  ASSUME TypeOK, CheckInv, NEW n \in Frames, pc[n] \in {"check", "compile"}
  PROVE  /\ checks[n] \in Seq({"clean", "errors"}) /\ Len(checks[n]) \in Nat
         /\ files[n] \in 1..MaxFiles
         /\ Len(checks[n]) + 2 * files[n] <= 2 * MaxFiles + 1
<1>1. checks[n] \in Seq({"clean", "errors"}) /\ files[n] > 0
  BY DEF CheckInv, CallOwes
<1>2. Len(checks[n]) \in Nat
  BY <1>1, LenProperties
<1>3. files[n] \in 1..MaxFiles
  BY <1>1, BoundsAssumption DEF TypeOK
<1>4. \/ Len(checks[n]) + 2 * files[n] <= 2 * MaxFiles
      \/ Len(checks[n]) + 2 * files[n] <= 2 * MaxFiles + 1
  BY DEF CheckInv, CallOwes
<1>5. QED
  BY <1>1, <1>2, <1>3, <1>4, BoundsAssumption

LEMMA TypeStep ==
  /\ TypeOK /\ ReaderInv /\ CheckInv /\ LockInv /\ LinesAreWhole
  /\ [Next]_vars
  => TypeOK'
<1> SUFFICES ASSUME TypeOK, ReaderInv, CheckInv, LockInv, LinesAreWhole, [Next]_vars
             PROVE  TypeOK'
  OBVIOUS
<1>0. /\ input' = input /\ Frames' = Frames /\ Halves' = Halves
      /\ Len(input) \in Nat /\ Frames = 1..Len(input)
  BY Fixed, Positions DEF Halves
<1> USE <1>0, BoundsAssumption DEF TypeOK, callVars, stream
<1>1. CASE UNCHANGED vars \/ Closed
  BY <1>1 DEF vars, Closed
<1>2. CASE Read
  <2>1. CASE Accepted(input[next])
    <3>1. next' \in 1..(Len(input) + 1)
      BY <2>1, <1>2, Dispatched
    <3>2. pc' \in [Frames -> Stages]
      BY <2>1, <1>2, Dispatched DEF Stages
    <3>3. files' \in [Frames -> 0..MaxFiles]
      BY <2>1, <1>2, Dispatched
    <3>4. done' \in [Frames -> BOOLEAN] /\ UNCHANGED reader
      BY <2>1, <1>2, Dispatched
    <3>5. UNCHANGED <<process, checks, dirs, reply, lock, wire>>
      BY <1>2 DEF Read
    <3>6. QED
      BY <3>1, <3>2, <3>3, <3>4, <3>5 DEF Stages
  <2>2. CASE ~Accepted(input[next])
    <3>1. next' \in 1..(Len(input) + 1) /\ reader' \in {"read", "reply", "eof"}
      BY <2>2, <1>2, Rejected
    <3>2. UNCHANGED <<pc, done, files>>
      BY <2>2, <1>2, Rejected
    <3>3. UNCHANGED <<process, checks, dirs, reply, lock, wire>>
      BY <1>2 DEF Read
    <3>4. QED
      BY <3>1, <3>2, <3>3
  <2>3. QED
    BY <2>1, <2>2
<1>3. CASE Eof
  BY <1>3 DEF Eof
<1>4. CASE ReplyLock
  BY <1>4 DEF ReplyLock, Lock, Reader
<1>5. CASE ReplyPut
  <2>1. wire' \in Seq(Halves) /\ lock' \in 0..(Len(input) + 1)
    BY <1>5, ReplyPutHalf DEF PutEffect
  <2>2. next' \in 1..(Len(input) + 1) /\ reader' \in {"read", "reply", "eof"}
    <3>1. next <= Len(input)
      BY <1>5 DEF ReplyPut, ReaderInv
    <3>2. QED
      BY <1>5, <3>1 DEF ReplyPut
  <2>3. UNCHANGED <<pc, done, files, process, checks, dirs, reply>>
    BY <1>5 DEF ReplyPut
  <2>4. QED
    BY <2>1, <2>2, <2>3
<1>6. ASSUME NEW n \in Frames, AnswerLock(n) PROVE TypeOK'
  BY <1>6 DEF AnswerLock, Lock
<1>7. ASSUME NEW n \in Frames, AnswerPut(n) PROVE TypeOK'
  <2>1. wire' \in Seq(Halves) /\ lock' \in 0..(Len(input) + 1)
    BY <1>7, AnswerPutHalf DEF PutEffect
  <2>2. pc' \in [Frames -> Stages] /\ UNCHANGED <<next, reader>>
    BY <1>7 DEF AnswerPut, Stages
  <2>3. UNCHANGED <<done, files, process, checks, dirs, reply>>
    BY <1>7 DEF AnswerPut
  <2>4. QED
    BY <2>1, <2>2, <2>3 DEF Stages
<1>8. ASSUME NEW n \in Frames, LintBegin(n) \/ LintEnd(n) \/ SyntaxBegin(n) PROVE TypeOK'
  <2>1. pc' \in [Frames -> Stages] /\ reply' \in [Frames -> Replies]
    BY <1>8 DEF LintBegin, LintEnd, SyntaxBegin, Answer, Stages, Replies
  <2>2. UNCHANGED <<next, reader, done, files, process, checks, dirs, lock, wire>>
    BY <1>8 DEF LintBegin, LintEnd, SyntaxBegin
  <2>3. QED
    BY <2>1, <2>2 DEF Stages, Replies
<1>9. ASSUME NEW n \in Frames, MakeTemp(n) \/ CleanUp(n) PROVE TypeOK'
  <2>1. pc' \in [Frames -> Stages] /\ reply' \in [Frames -> Replies] /\ dirs' \subseteq Frames
    BY <1>9 DEF MakeTemp, CleanUp, Answer, Stages, Replies
  <2>2. UNCHANGED <<next, reader, done, files, process, checks, lock, wire>>
    BY <1>9 DEF MakeTemp, CleanUp
  <2>3. QED
    BY <2>1, <2>2 DEF Stages, Replies
<1>10. ASSUME NEW n \in Frames, Deadline(n) PROVE TypeOK'
  BY <1>10 DEF Deadline
<1>11. ASSUME NEW n \in Frames, Exits(n) \/ Killed(n) PROVE TypeOK'
  BY <1>11 DEF Exits, Killed, Endings
<1>12. ASSUME NEW n \in Frames, Judged(n) PROVE TypeOK'
  <2>1. UNCHANGED <<next, reader, done, dirs, lock, wire>>
    BY <1>12 DEF Judged
  <2>2. /\ pc' \in [Frames -> Stages] /\ reply' \in [Frames -> Replies]
        /\ process' \in [Frames -> Endings \cup {"none"}]
    BY <1>12 DEF Judged, Stages, Replies
  <2>3. /\ checks[n] \in Seq({"clean", "errors"}) /\ Len(checks[n]) \in Nat
        /\ files[n] \in 1..MaxFiles
        /\ Len(checks[n]) + 2 * files[n] <= 2 * MaxFiles + 1
    <3>1. pc[n] \in {"check", "compile"}
      BY <1>12 DEF Judged
    <3>2. QED
      BY <3>1, Owed
  <2>4. files' \in [Frames -> 0..MaxFiles]
    <3>1. files' = files \/ files' = [files EXCEPT ![n] = files[n] - 1]
      BY <1>12, <2>3, JudgedVerdicts
    <3>2. files[n] - 1 \in 0..MaxFiles
      BY <2>3
    <3>3. files \in [Frames -> 0..MaxFiles]
      OBVIOUS
    <3>4. QED
      BY ONLY <1>0, <3>1, <3>2, <3>3, n \in Frames
  <2>5. \/ UNCHANGED checks
        \/ /\ checks' = [checks EXCEPT ![n] = checks'[n]]
           /\ checks'[n] \in Seq({"clean", "errors"})
           /\ Len(checks'[n]) = Len(checks[n]) + 1
    BY <1>12, <2>3, JudgedVerdicts
  <2>6. checks' \in [Frames -> Seq(Endings)]
    <3>1. \A s \in Seq({"clean", "errors"}) : s \in Seq(Endings)
      <4>1. {"clean", "errors"} \subseteq Endings
        BY DEF Endings
      <4>2. QED
        BY ONLY <4>1, SeqMonotonic
    <3>2. QED
      BY <2>5, <3>1
  <2>7. \A m \in Frames : Len(checks'[m]) <= 2 * MaxFiles
    <3>1. Len(checks[n]) + 1 <= 2 * MaxFiles
      BY <2>3
    <3>2. QED
      BY <2>5, <3>1
  <2>8. QED
    BY <2>1, <2>2, <2>4, <2>6, <2>7 DEF Stages, Replies
<1>13. QED
  BY <1>1, <1>2, <1>3, <1>4, <1>5, <1>6, <1>7, <1>8, <1>9, <1>10, <1>11, <1>12, Steps
-----------------------------------------------------------------------------
LEMMA ReaderStep ==
  TypeOK /\ ReaderInv /\ [Next]_vars => ReaderInv'
<1> SUFFICES ASSUME TypeOK, ReaderInv, [Next]_vars
             PROVE  ReaderInv'
  OBVIOUS
<1> USE Fixed DEF ReaderInv, stream
<1>1. CASE UNCHANGED vars \/ Closed
  BY <1>1 DEF vars, Closed
<1>2. CASE Read
  <2>1. reader = "read" /\ next <= Len(input)
    BY <1>2 DEF Read
  <2>2. CASE Accepted(input[next])
    BY <1>2, <2>1, <2>2, Dispatched
  <2>3. CASE ~Accepted(input[next])
    <3>1. \/ UNCHANGED reader
          \/ reader' = "reply" /\ UNCHANGED next /\ ~Notification(input[next])
      BY <1>2, <2>3, Rejected
    <3>2. QED
      BY <2>1, <2>3, <3>1
  <2>4. QED
    BY <2>2, <2>3
<1>3. CASE Eof
  BY <1>3 DEF Eof
<1>4. CASE ReplyLock
  BY <1>4 DEF ReplyLock
<1>5. CASE ReplyPut
  <2>1. reader = "reply" /\ (UNCHANGED <<reader, next>> \/ reader' = "read")
    BY <1>5 DEF ReplyPut
  <2>2. QED
    BY <2>1
<1>6. ASSUME NEW n \in Frames, AnswerLock(n) \/ AnswerPut(n) PROVE ReaderInv'
  BY <1>6 DEF AnswerLock, AnswerPut
<1>7. ASSUME NEW n \in Frames, InCall(n) PROVE ReaderInv'
  BY <1>7, InCallFrame
<1>8. QED
  BY <1>1, <1>2, <1>3, <1>4, <1>5, <1>6, <1>7, Steps DEF InCall

\* How a step inside a call moves that call; other calls stay where they are.
LEMMA InCallMoves ==
  ASSUME TypeOK, NEW n \in Frames, InCall(n)
  PROVE  /\ \A m \in Frames \ {n} : pc'[m] = pc[m] /\ reply'[m] = reply[m]
         /\ pc[n] \notin {"none", "answer", "closed"}
         /\ pc'[n] \notin {"none", "closed"}
         /\ pc'[n] \in {"lint", "linting"} => pc[n] \in {"lint", "linting"}
         /\ pc'[n] \in {"syntax", "prepare", "check", "compile", "clean"} =>
              pc[n] \in {"syntax", "prepare", "check", "compile", "clean"}
<1> USE DEF TypeOK
<1>1. CASE LintBegin(n) \/ LintEnd(n)
  BY <1>1 DEF LintBegin, LintEnd, Answer
<1>2. CASE SyntaxBegin(n) \/ MakeTemp(n) \/ CleanUp(n)
  BY <1>2 DEF SyntaxBegin, MakeTemp, CleanUp, Answer
<1>3. CASE Deadline(n) \/ Exits(n) \/ Killed(n)
  BY <1>3 DEF Deadline, Exits, Killed
<1>4. CASE Judged(n)
  BY <1>4 DEF Judged
<1>5. QED
  BY <1>1, <1>2, <1>3, <1>4 DEF InCall

LEMMA CallStep ==
  TypeOK /\ ReaderInv /\ CallInv /\ [Next]_vars => CallInv'
<1> SUFFICES ASSUME TypeOK, ReaderInv, CallInv, [Next]_vars
             PROVE  CallInv'
  OBVIOUS
<1>0. /\ input' = input /\ Frames' = Frames
      /\ \A n : Accepted(input[n])' <=> Accepted(input[n])
  BY Fixed
<1>1. CASE UNCHANGED vars \/ Closed
  BY <1>0, <1>1 DEF vars, Closed, CallInv
<1>2. CASE Read
  <2>1. next \in Frames /\ pc[next] = "none" /\ \A n \in Frames : n \in Nat
    <3>1. next \in Frames
      BY <1>2, Dispatched, Rejected
    <3>2. QED
      BY <3>1, Positions DEF CallInv
  <2>2. CASE Accepted(input[next]) /\ UNCHANGED pc
    <3>1. ~(input[next].method \in {"lint", "syntax"} /\ input[next].id = "good")
      <4>1. CASE pc' = [pc EXCEPT ![next] = input[next].method]
        <5>1. pc'[next] = input[next].method
          BY <2>1, <4>1 DEF TypeOK
        <5>2. QED
          BY <2>1, <2>2, <5>1
      <4>2. QED
        BY <1>2, <2>2, <4>1, Dispatched
    <3>2. next' = next + 1
      BY <1>2, <2>2, Dispatched
    <3>3. \A n \in Frames : n < next' => n < next \/ n = next
      BY <2>1, <3>2
    <3>4. \A n \in Frames : n < next => n < next'
      BY <2>1, <3>2
    <3>5. QED
      BY <1>0, <2>1, <2>2, <3>1, <3>3, <3>4 DEF CallInv
  <2>3. CASE Accepted(input[next]) /\ ~(UNCHANGED pc)
    <3>1. /\ input[next].method \in {"lint", "syntax"} /\ input[next].id = "good"
          /\ pc' = [pc EXCEPT ![next] = input[next].method]
          /\ next' = next + 1
      BY <1>2, <2>3, Dispatched
    <3>2. \A n \in Frames : n < next' <=> n < next \/ n = next
      BY <2>1, <3>1
    <3>3. pc'[next] = input[next].method /\ \A n \in Frames \ {next} : pc'[n] = pc[n]
      BY <2>1, <3>1 DEF TypeOK
    <3>4. QED
      BY <1>0, <2>1, <2>3, <3>1, <3>2, <3>3 DEF CallInv
  <2>4. CASE ~Accepted(input[next])
    <3>1. UNCHANGED pc /\ next' \in {next, next + 1}
      BY <1>2, <2>4, Rejected
    <3>2. \A n \in Frames : n < next' => n < next \/ n = next
      BY <2>1, <3>1
    <3>3. \A n \in Frames : n < next => n < next'
      BY <2>1, <3>1
    <3>4. QED
      BY <1>0, <2>1, <2>4, <3>1, <3>2, <3>3 DEF CallInv
  <2>5. QED
    BY <2>2, <2>3, <2>4
<1>3. CASE Eof \/ ReplyLock
  BY <1>0, <1>3 DEF Eof, ReplyLock, CallInv
<1>4. CASE ReplyPut
  <2>1. /\ next \in Frames /\ next' \in {next, next + 1} /\ UNCHANGED pc
        /\ ~Accepted(input[next])
        /\ \A n \in Frames : n \in Nat
    BY <1>4, Positions DEF ReplyPut, ReaderInv, TypeOK
  <2>2. \A n \in Frames : n < next' => n < next \/ n = next
    BY <2>1
  <2>3. \A n \in Frames : n < next => n < next'
    BY <2>1
  <2>4. QED
    BY <1>0, <2>1, <2>2, <2>3 DEF CallInv
<1>5. ASSUME NEW n \in Frames, AnswerLock(n) \/ AnswerPut(n) PROVE CallInv'
  <2>1. /\ UNCHANGED next /\ \A m \in Frames \ {n} : pc'[m] = pc[m]
        /\ pc[n] = "answer" /\ pc'[n] \in {"answer", "closed"}
    BY <1>5 DEF AnswerLock, AnswerPut, TypeOK
  <2>2. QED
    BY <1>0, <2>1 DEF CallInv
<1>6. ASSUME NEW n \in Frames, InCall(n) PROVE CallInv'
  <2>1. UNCHANGED next
    BY <1>6, InCallFrame
  <2>2. QED
    BY <1>0, <1>6, <2>1, InCallMoves DEF CallInv
<1>7. QED
  BY <1>1, <1>2, <1>3, <1>4, <1>5, <1>6, Steps DEF InCall
-----------------------------------------------------------------------------
LEMMA CheckStep ==
  TypeOK /\ ReaderInv /\ CallInv /\ CheckInv /\ [Next]_vars => CheckInv'
<1> SUFFICES ASSUME TypeOK, ReaderInv, CallInv, CheckInv, [Next]_vars
             PROVE  CheckInv'
  OBVIOUS
<1>a. Frames' = Frames /\ \A m \in Frames : CallOwes(m)
  BY Fixed DEF CheckInv, CallOwes
<1>b. SUFFICES \A m \in Frames : CallOwes(m)'
  BY <1>a DEF CheckInv, CallOwes
<1>c. \A m \in Frames : UNCHANGED <<pc, files, checks, reply>> => CallOwes(m)'
  BY <1>a DEF CallOwes
<1>1. CASE UNCHANGED vars \/ Closed
  BY <1>c, <1>1 DEF vars, Closed
<1>2. CASE Read
  <2>1. next \in Frames /\ pc[next] = "none" /\ UNCHANGED <<checks, reply>>
    <3>1. next \in Frames
      BY <1>2, Dispatched, Rejected
    <3>2. QED
      BY <1>2, <3>1, Positions DEF CallInv, Read
  <2>2. CASE UNCHANGED <<pc, files>>
    BY <1>c, <2>1, <2>2
  <2>3. CASE ~(UNCHANGED <<pc, files>>)
    <3>1. /\ input[next].method \in {"lint", "syntax"}
          /\ pc' = [pc EXCEPT ![next] = input[next].method]
          /\ \E k \in 1..MaxFiles : files' = [files EXCEPT ![next] = k]
      BY <1>2, <2>3, Dispatched, Rejected
    <3>2. /\ pc'[next] \in {"lint", "syntax"} /\ files'[next] > 0
          /\ \A m \in Frames \ {next} : pc'[m] = pc[m] /\ files'[m] = files[m]
      BY <2>1, <3>1, BoundsAssumption DEF TypeOK
    <3>3. QED
      BY <1>a, <2>1, <3>2 DEF CallOwes
  <2>4. QED
    BY <2>2, <2>3
<1>3. CASE Eof \/ ReplyLock \/ ReplyPut
  BY <1>c, <1>3 DEF Eof, ReplyLock, ReplyPut, callVars
<1>4. ASSUME NEW n \in Frames, AnswerLock(n) \/ AnswerPut(n)
      PROVE  \A m \in Frames : CallOwes(m)'
  <2>1. /\ UNCHANGED <<files, checks, reply>> /\ \A m \in Frames \ {n} : pc'[m] = pc[m]
        /\ pc[n] = "answer" /\ pc'[n] \in {"answer", "closed"}
    BY <1>4 DEF AnswerLock, AnswerPut, callVars, TypeOK
  <2>2. QED
    BY <1>a, <2>1 DEF CallOwes
<1>5. ASSUME NEW n \in Frames, LintBegin(n) \/ LintEnd(n)
      PROVE  \A m \in Frames : CallOwes(m)'
  <2>1. UNCHANGED <<files, checks>>
    BY <1>5 DEF LintBegin, LintEnd
  <2>2. \A m \in Frames \ {n} : pc'[m] = pc[m] /\ reply'[m] = reply[m]
    BY <1>5, InCallMoves DEF InCall
  <2>3. /\ pc[n] \in {"lint", "linting"}
        /\ \/ pc'[n] = "answer"
           \/ pc'[n] = "linting" /\ UNCHANGED reply
    BY <1>5 DEF LintBegin, LintEnd, Answer, TypeOK
  <2>4. QED
    BY <1>a, <2>1, <2>2, <2>3 DEF CallOwes
<1>6. ASSUME NEW n \in Frames, SyntaxBegin(n) \/ MakeTemp(n) \/ CleanUp(n)
      PROVE  \A m \in Frames : CallOwes(m)'
  <2>1. UNCHANGED <<files, checks>>
    BY <1>6 DEF SyntaxBegin, MakeTemp, CleanUp
  <2>2. \A m \in Frames \ {n} : pc'[m] = pc[m] /\ reply'[m] = reply[m]
    BY <1>6, InCallMoves DEF InCall
  <2>3. \/ pc'[n] = "answer"
        \/ pc[n] = "syntax" /\ pc'[n] = "prepare" /\ UNCHANGED reply
        \/ pc[n] = "prepare" /\ pc'[n] = "check" /\ UNCHANGED reply
    BY <1>6 DEF SyntaxBegin, MakeTemp, CleanUp, Answer, TypeOK
  <2>4. pc[n] = "prepare" => /\ Even(Len(checks[n]))
                             /\ Len(checks[n]) + 2 * files[n] <= 2 * MaxFiles
    <3>1. pc[n] = "prepare" => Len(checks[n]) = 0
      BY <1>a, EmptySeq DEF CallOwes
    <3>2. files[n] \in 0..MaxFiles
      BY DEF TypeOK
    <3>3. Even(0)
      BY DEF Even
    <3>4. QED
      BY <3>1, <3>2, <3>3, BoundsAssumption
  <2>5. QED
    BY <1>a, <2>1, <2>2, <2>3, <2>4 DEF CallOwes
<1>7. ASSUME NEW n \in Frames, Deadline(n) \/ Exits(n) \/ Killed(n)
      PROVE  \A m \in Frames : CallOwes(m)'
  BY <1>c, <1>7 DEF Deadline, Exits, Killed
<1>8. ASSUME NEW n \in Frames, Judged(n)
      PROVE  \A m \in Frames : CallOwes(m)'
  <2>1. pc[n] \in {"check", "compile"}
    BY <1>8 DEF Judged
  <2>2. /\ checks[n] \in Seq({"clean", "errors"}) /\ Len(checks[n]) \in Nat
        /\ files[n] \in 1..MaxFiles
    BY <2>1, Owed
  <2>3. \A m \in Frames \ {n} : /\ pc'[m] = pc[m] /\ reply'[m] = reply[m]
                                /\ files'[m] = files[m] /\ checks'[m] = checks[m]
    BY <1>8, <2>2, JudgedVerdicts DEF Judged, TypeOK
  <2>4. CallOwes(n)'
    <3>1. CASE UNCHANGED checks /\ pc'[n] = "clean"
      BY <1>a, <3>1 DEF CallOwes
    <3>2. CASE /\ pc[n] = "check" /\ pc'[n] = "compile"
               /\ checks'[n] \in Seq({"clean", "errors"})
               /\ Len(checks'[n]) = Len(checks[n]) + 1
               /\ UNCHANGED <<files, reply>>
      <4>1. /\ Even(Len(checks[n])) /\ reply[n] = "none" /\ files[n] > 0
            /\ Len(checks[n]) + 2 * files[n] <= 2 * MaxFiles
        BY <1>a, <3>2 DEF CallOwes
      <4>2. ~Even(Len(checks'[n]))
        BY <2>2, <3>2, <4>1, Parity
      <4>3. Len(checks'[n]) + 2 * files[n] <= 2 * MaxFiles + 1
        BY <2>2, <3>2, <4>1, BoundsAssumption
      <4>4. QED
        BY <3>2, <4>1, <4>2, <4>3 DEF CallOwes
    <3>3. CASE /\ pc[n] = "compile"
               /\ checks'[n] \in Seq({"clean", "errors"})
               /\ Len(checks'[n]) = Len(checks[n]) + 1
               /\ files' = [files EXCEPT ![n] = files[n] - 1]
               /\ \/ files[n] # 1 /\ pc'[n] = "check" /\ UNCHANGED reply
                  \/ files[n] = 1 /\ pc'[n] = "clean" /\ reply'[n] = "result"
      <4>1. /\ ~Even(Len(checks[n])) /\ reply[n] = "none"
            /\ Len(checks[n]) + 2 * files[n] <= 2 * MaxFiles + 1
        BY <1>a, <3>3 DEF CallOwes
      <4>2. Even(Len(checks'[n]))
        BY <2>2, <3>3, <4>1, Parity
      <4>3. files'[n] = files[n] - 1
        BY <3>3 DEF TypeOK
      <4>4. Len(checks'[n]) + 2 * files'[n] <= 2 * MaxFiles
        BY <2>2, <3>3, <4>1, <4>3, BoundsAssumption
      <4>5. files[n] # 1 => files'[n] > 0
        BY <2>2, <4>3
      <4>6. QED
        BY <3>3, <4>1, <4>2, <4>4, <4>5 DEF CallOwes
    <3>4. QED
      BY <1>8, <2>2, <3>1, <3>2, <3>3, JudgedVerdicts
  <2>5. QED
    BY <1>a, <2>3, <2>4 DEF CallOwes
<1>9. QED
  BY <1>1, <1>2, <1>3, <1>4, <1>5, <1>6, <1>7, <1>8, Steps

LEMMA VerdictsStep ==
  TypeOK /\ ReaderInv /\ CallInv /\ CheckInv /\ VerdictsAreReal /\ [Next]_vars => VerdictsAreReal'
<1> SUFFICES ASSUME TypeOK, ReaderInv, CallInv, CheckInv, VerdictsAreReal, [Next]_vars
             PROVE  VerdictsAreReal'
  OBVIOUS
<1> DEFINE Real(m) == input[m].method = "syntax" /\ reply[m] = "result" =>
                        /\ files[m] = 0
                        /\ Len(checks[m]) % 2 = 0 /\ checks[m] # <<>>
                        /\ \A k \in DOMAIN checks[m] : checks[m][k] \in {"clean", "errors"}
<1>a. input' = input /\ Frames' = Frames /\ \A m \in Frames : Real(m)
  BY Fixed DEF VerdictsAreReal
<1>b. SUFFICES \A m \in Frames : Real(m)'
  BY <1>a DEF VerdictsAreReal
<1>c. \A m \in Frames : files'[m] = files[m] /\ checks'[m] = checks[m] /\ reply'[m] = reply[m] => Real(m)'
  BY <1>a
<1>d. \A m \in Frames : reply'[m] # "result" => Real(m)'
  OBVIOUS
<1> HIDE DEF Real
<1>1. CASE UNCHANGED vars \/ Closed
  BY <1>c, <1>1 DEF vars, Closed
<1>2. CASE Read
  <2>1. next \in Frames /\ UNCHANGED <<checks, reply>>
    BY <1>2, Dispatched, Rejected DEF Read
  <2>2. reply[next] = "none"
    <3>1. next \in Nat
      BY DEF TypeOK
    <3>2. pc[next] = "none"
      BY <2>1, <3>1 DEF CallInv
    <3>3. QED
      BY <2>1, <3>2 DEF CheckInv, CallOwes
  <2>3. UNCHANGED files \/ \E k \in 1..MaxFiles : files' = [files EXCEPT ![next] = k]
    BY <1>2, Dispatched, Rejected
  <2>4. \A m \in Frames \ {next} : files'[m] = files[m]
    BY <2>1, <2>3 DEF TypeOK
  <2>5. QED
    BY <1>c, <1>d, <2>1, <2>2, <2>4
<1>3. CASE Eof \/ ReplyLock \/ ReplyPut
  BY <1>c, <1>3 DEF Eof, ReplyLock, ReplyPut, callVars
<1>4. ASSUME NEW n \in Frames, AnswerLock(n) \/ AnswerPut(n)
      PROVE  \A m \in Frames : Real(m)'
  BY <1>c, <1>4 DEF AnswerLock, AnswerPut, callVars
<1>5. ASSUME NEW n \in Frames, LintBegin(n) \/ LintEnd(n)
      PROVE  \A m \in Frames : Real(m)'
  <2>1. UNCHANGED <<files, checks>>
    BY <1>5 DEF LintBegin, LintEnd
  <2>2. \A m \in Frames \ {n} : pc'[m] = pc[m] /\ reply'[m] = reply[m]
    BY <1>5, InCallMoves DEF InCall
  <2>3. input[n].method = "lint"
    BY <1>5 DEF LintBegin, LintEnd, CallInv
  <2>4. Real(n)'
    BY <1>a, <2>3 DEF Real
  <2>5. QED
    BY <1>c, <2>1, <2>2, <2>4
<1>6. ASSUME NEW n \in Frames,
             SyntaxBegin(n) \/ MakeTemp(n) \/ CleanUp(n) \/ Deadline(n) \/ Exits(n) \/ Killed(n)
      PROVE  \A m \in Frames : Real(m)'
  <2>1. UNCHANGED <<files, checks>>
    BY <1>6 DEF SyntaxBegin, MakeTemp, CleanUp, Deadline, Exits, Killed
  <2>2. \A m \in Frames \ {n} : reply'[m] = reply[m]
    BY <1>6, InCallMoves DEF InCall
  <2>3. reply'[n] \in {reply[n], "error"}
    BY <1>6 DEF SyntaxBegin, MakeTemp, CleanUp, Deadline, Exits, Killed, Answer, TypeOK
  <2>4. QED
    BY <1>c, <1>d, <2>1, <2>2, <2>3
<1>7. ASSUME NEW n \in Frames, Judged(n)
      PROVE  \A m \in Frames : Real(m)'
  <2>1. pc[n] \in {"check", "compile"}
    BY <1>7 DEF Judged
  <2>2. checks[n] \in Seq({"clean", "errors"}) /\ Len(checks[n]) \in Nat
    BY <2>1, Owed
  <2>3. \A m \in Frames \ {n} : /\ reply'[m] = reply[m]
                                /\ files'[m] = files[m] /\ checks'[m] = checks[m]
    BY <1>7, <2>2, JudgedVerdicts DEF Judged, TypeOK
  <2>4. reply[n] = "none"
    BY <2>1 DEF CheckInv, CallOwes
  <2>5. CASE /\ pc[n] = "compile" /\ files[n] = 1
             /\ checks'[n] \in Seq({"clean", "errors"})
             /\ Len(checks'[n]) = Len(checks[n]) + 1
             /\ files' = [files EXCEPT ![n] = files[n] - 1]
    <3>1. files'[n] = 0
      BY <2>5 DEF TypeOK
    <3>2. Even(Len(checks'[n]))
      BY <2>2, <2>5, Parity DEF CheckInv, CallOwes
    <3>3. checks'[n] # <<>> /\ \A k \in DOMAIN checks'[n] : checks'[n][k] \in {"clean", "errors"}
      BY <2>2, <2>5, EmptySeq, LenProperties, ElementOfSeq
    <3>4. Real(n)'
      BY <3>1, <3>2, <3>3 DEF Real, Even
    <3>5. QED
      BY <1>c, <2>3, <3>4
  <2>6. CASE reply'[n] # "result"
    BY <1>c, <1>d, <2>3, <2>6
  <2>7. QED
    BY <1>7, <2>2, <2>4, <2>5, <2>6, JudgedVerdicts
<1>8. QED
  BY <1>1, <1>2, <1>3, <1>4, <1>5, <1>6, <1>7, Steps
-----------------------------------------------------------------------------
LEMMA LockStep ==
  TypeOK /\ ReaderInv /\ CallInv /\ LockInv /\ LinesAreWhole /\ [Next]_vars => LockInv'
<1> SUFFICES ASSUME TypeOK, ReaderInv, CallInv, LockInv, LinesAreWhole, [Next]_vars
             PROVE  LockInv'
  OBVIOUS
<1>0. /\ Frames' = Frames /\ \A n : ReplyId(n)' = ReplyId(n)
      /\ \A n \in Frames : n \in Nat \ {0}
  BY Fixed, Positions
<1>1. CASE UNCHANGED vars \/ Closed
  BY <1>0, <1>1 DEF vars, Closed, LockInv, IdOf
<1>2. CASE Read \/ Eof
  <2>1. lock # Reader + 1 /\ UNCHANGED <<lock, wire>>
    BY <1>2 DEF Read, Eof, LockInv, stream
  <2>2. \A n \in Frames : pc[n] = "answer" => pc'[n] = "answer"
    <3>1. CASE UNCHANGED pc
      BY <3>1
    <3>2. CASE ~(UNCHANGED pc)
      <4>1. next \in Frames /\ pc' = [pc EXCEPT ![next] = input[next].method]
        BY <1>2, <3>2, Dispatched, Rejected DEF Eof
      <4>2. pc[next] = "none"
        BY <1>0, <4>1 DEF CallInv
      <4>3. QED
        BY <4>1, <4>2 DEF TypeOK
    <3>3. QED
      BY <3>1, <3>2
  <2>3. \A w \in Frames : IdOf(w)' = IdOf(w)
    BY <1>0 DEF IdOf, Reader
  <2>4. QED
    BY <1>0, <2>1, <2>2, <2>3 DEF LockInv
<1>3. CASE ReplyLock
  <2>1. lock = 0 /\ lock' = Reader + 1 /\ reader' = "reply" /\ UNCHANGED wire
    BY <1>3 DEF ReplyLock, Lock
  <2>2. \A n \in Frames : n + 1 # Reader + 1
    BY <1>0 DEF Reader
  <2>3. QED
    BY <1>0, <2>1, <2>2 DEF LockInv, Reader
<1>4. ASSUME NEW n \in Frames, AnswerLock(n) PROVE LockInv'
  <2>1. lock = 0 /\ lock' = n + 1 /\ pc'[n] = "answer" /\ UNCHANGED wire
    BY <1>4 DEF AnswerLock, Lock
  <2>2. lock' # Reader + 1 /\ \A m \in Frames : lock' = m + 1 => m = n
    BY <1>0, <2>1 DEF Reader
  <2>3. lock' # 0
    BY <1>0, <2>1
  <2>4. QED
    BY <1>0, <2>1, <2>2, <2>3 DEF LockInv
<1>5. CASE ReplyPut
  <2>1. PutEffect(ReplyId(next)) /\ Len(wire) \in Nat
    BY <1>5, ReplyPutHalf, OpenLine
  <2>2. lock = Reader + 1 /\ UNCHANGED pc
    BY <1>5 DEF ReplyPut, Put
  <2>3. \A n \in Frames : lock # n + 1
    BY <1>0, <2>2 DEF Reader
  <2>4. CASE Wrote
    <3>1. lock' = 0 /\ Even(Len(wire'))
      BY <2>1, <2>4, Parity DEF PutEffect
    <3>2. \A w \in Frames \cup {Reader} : w + 1 # 0
      BY <1>0 DEF Reader
    <3>3. QED
      BY <1>0, <3>1, <3>2 DEF LockInv
  <2>5. CASE ~Wrote
    <3>1. lock' = lock /\ UNCHANGED <<reader, next>>
      BY <1>5, <2>1, <2>5 DEF PutEffect, ReplyPut
    <3>2. wire'[Len(wire')].id = ReplyId(next)
      BY <2>1 DEF PutEffect
    <3>3. IdOf(Reader)' = ReplyId(next)
      BY <1>0, <3>1 DEF IdOf, Reader
    <3>4. reader' = "reply" /\ lock' # 0
      BY <1>5, <2>2, <3>1 DEF ReplyPut, Reader
    <3>5. QED
      BY <1>0, <2>2, <2>3, <3>1, <3>2, <3>3, <3>4 DEF LockInv
  <2>6. QED
    BY <2>4, <2>5
<1>6. ASSUME NEW n \in Frames, AnswerPut(n) PROVE LockInv'
  <2>1. PutEffect(n) /\ Len(wire) \in Nat
    BY <1>6, AnswerPutHalf, OpenLine
  <2>2. lock = n + 1 /\ UNCHANGED <<reader, next>>
    BY <1>6 DEF AnswerPut, Put
  <2>3. lock # Reader + 1 /\ lock # 0 /\ \A m \in Frames : lock = m + 1 => m = n
    BY <1>0, <2>2 DEF Reader
  <2>4. CASE Wrote
    <3>1. lock' = 0 /\ Even(Len(wire'))
      BY <2>1, <2>4, Parity DEF PutEffect
    <3>2. \A w \in Frames \cup {Reader} : w + 1 # 0
      BY <1>0 DEF Reader
    <3>3. QED
      BY <1>0, <3>1, <3>2 DEF LockInv
  <2>5. CASE ~Wrote
    <3>1. lock' = lock /\ pc'[n] = "answer"
      BY <1>6, <2>1, <2>5 DEF PutEffect, AnswerPut
    <3>2. wire'[Len(wire')].id = n
      BY <2>1 DEF PutEffect
    <3>3. IdOf(n)' = n
      BY <1>0 DEF IdOf, Reader
    <3>4. QED
      BY <1>0, <2>3, <3>1, <3>2, <3>3 DEF LockInv
  <2>6. QED
    BY <2>4, <2>5
<1>7. ASSUME NEW n \in Frames, InCall(n) PROVE LockInv'
  <2>1. UNCHANGED <<next, reader, lock, wire>>
    BY <1>7, InCallFrame
  <2>2. \A m \in Frames : pc[m] = "answer" => pc'[m] = "answer"
    BY <1>7, InCallMoves
  <2>3. \A w \in Frames \cup {Reader} : IdOf(w)' = IdOf(w)
    BY <1>0, <2>1 DEF IdOf
  <2>4. QED
    BY <1>0, <2>1, <2>2, <2>3 DEF LockInv
<1>8. QED
  BY <1>1, <1>2, <1>3, <1>4, <1>5, <1>6, <1>7, Steps DEF InCall

\* A half added to whole lines leaves them whole.
LEMMA PutKeepsLines ==
  ASSUME TypeOK, LinesAreWhole, NEW id, PutEffect(id)
  PROVE  LinesAreWhole'
<1>1. Len(wire) \in Nat /\ DOMAIN wire = 1..Len(wire)
  BY OpenLine
<1>2. SUFFICES ASSUME NEW k \in DOMAIN wire'
               PROVE  IF k % 2 = 1 THEN wire'[k].part = "first"
                      ELSE wire'[k] = [wire'[k - 1] EXCEPT !.part = "last"]
  BY DEF LinesAreWhole
<1>3. CASE k \in 1..Len(wire)
  <2>1. wire'[k] = wire[k]
    BY <1>3 DEF PutEffect
  <2>2. k % 2 # 1 => k - 1 \in 1..Len(wire)
    <3>1. 1 % 2 = 1
      OBVIOUS
    <3>2. QED
      BY <1>1, <1>3, <3>1
  <2>3. k % 2 # 1 => wire'[k - 1] = wire[k - 1]
    BY <2>2 DEF PutEffect
  <2>4. QED
    BY <1>1, <1>3, <2>1, <2>3 DEF LinesAreWhole
<1>4. CASE k = Len(wire) + 1
  <2>1. k % 2 = 1 <=> Even(Len(wire))
    BY <1>1, <1>4, Parity
  <2>2. ~Even(Len(wire)) => k - 1 = Len(wire) /\ k - 1 \in 1..Len(wire)
    <3>1. Even(0)
      BY DEF Even
    <3>2. QED
      BY <1>1, <1>4, <3>1
  <2>3. QED
    BY <1>4, <2>1, <2>2 DEF PutEffect
<1>5. QED
  BY <1>1, <1>3, <1>4 DEF PutEffect

LEMMA LinesStep ==
  TypeOK /\ ReaderInv /\ LockInv /\ LinesAreWhole /\ [Next]_vars => LinesAreWhole'
<1> SUFFICES ASSUME TypeOK, ReaderInv, LockInv, LinesAreWhole, [Next]_vars
             PROVE  LinesAreWhole'
  OBVIOUS
<1>1. CASE UNCHANGED wire
  BY <1>1 DEF LinesAreWhole
<1>2. CASE UNCHANGED vars \/ Closed \/ Read \/ Eof \/ ReplyLock
  BY <1>1, <1>2 DEF vars, Closed, Read, Eof, ReplyLock, Lock, stream
<1>3. CASE ReplyPut
  BY <1>3, ReplyPutHalf, PutKeepsLines
<1>4. ASSUME NEW n \in Frames, AnswerPut(n) PROVE LinesAreWhole'
  BY <1>4, AnswerPutHalf, PutKeepsLines
<1>5. ASSUME NEW n \in Frames, InCall(n) \/ AnswerLock(n) PROVE LinesAreWhole'
  BY <1>1, <1>5, InCallFrame DEF AnswerLock, Lock
<1>6. QED
  BY <1>2, <1>3, <1>4, <1>5, Steps DEF InCall
-----------------------------------------------------------------------------
\* A half completes the line of its ID, or no line at all.
LEMMA PutLines ==
  ASSUME TypeOK, LinesAreWhole, NEW id, PutEffect(id)
  PROVE  /\ ~Wrote => \A i : Lines(i)' = Lines(i)
         /\ Wrote => /\ Lines(id)' = Lines(id) \cup {Len(wire) + 1}
                     /\ \A i : i # id => Lines(i)' = Lines(i)
<1>1. /\ Len(wire) \in Nat /\ DOMAIN wire = 1..Len(wire)
      /\ Len(wire) + 1 \notin 1..Len(wire)
      /\ DOMAIN wire' = (1..Len(wire)) \cup {Len(wire) + 1}
      /\ \A k \in 1..Len(wire) : wire'[k] = wire[k]
  BY OpenLine DEF PutEffect
<1>2. /\ wire'[Len(wire) + 1].id = id
      /\ wire'[Len(wire) + 1].part = "last" <=> Wrote
  BY DEF PutEffect
<1>3. \A i : Lines(i)' = Lines(i) \cup {k \in {Len(wire) + 1} : i = id /\ Wrote}
  BY <1>1, <1>2 DEF Lines
<1>4. QED
  BY <1>3

\* Lines and frames are finite in number.
LEMMA FiniteAnswers ==
  ASSUME TypeOK, NEW i
  PROVE  /\ IsFiniteSet(Lines(i)) /\ Len(wire) + 1 \notin Lines(i)
         /\ IsFiniteSet(Nameless) /\ IsFiniteSet({n \in Nameless : n < next})
<1>1. Len(wire) \in Nat /\ DOMAIN wire = 1..Len(wire)
  BY LenProperties DEF TypeOK
<1>2. Lines(i) \subseteq 1..Len(wire) /\ Len(wire) + 1 \notin 1..Len(wire)
  BY <1>1 DEF Lines
<1>3. IsFiniteSet(1..Len(wire)) /\ IsFiniteSet(1..Len(input))
  BY <1>1, Positions, FS_Interval
<1>4. Nameless \subseteq 1..Len(input) /\ {n \in Nameless : n < next} \subseteq 1..Len(input)
  BY Positions DEF Nameless
<1>5. QED
  BY <1>2, <1>3, <1>4, FS_Subset

\* What an accepted or silently dropped frame leaves as it was.
LEMMA AnswerFrame ==
  ASSUME TypeOK, AnswerInv, [Next]_vars, UNCHANGED wire,
         \A n \in Frames : pc'[n] = "closed" <=> pc[n] = "closed",
         \A n \in Frames : /\ n < next => n < next'
                           /\ n < next' => n < next \/ Accepted(input[n])
                                                    \/ Notification(input[n])
  PROVE  AnswerInv'
<1>1. \A i : Lines(i)' = Lines(i)
  BY DEF Lines
<1>2. \A n \in Frames : Refused(n)' <=> Refused(n)
  BY Fixed DEF Refused
<1>3. {n \in Nameless : n < next}' = {n \in Nameless : n < next}
  BY Fixed DEF Nameless
<1>4. QED
  BY <1>1, <1>2, <1>3, Fixed DEF AnswerInv

LEMMA AnswerStep ==
  /\ TypeOK /\ ReaderInv /\ CallInv /\ LockInv /\ LinesAreWhole /\ AnswerInv
  /\ [Next]_vars
  => AnswerInv'
<1> SUFFICES ASSUME TypeOK, ReaderInv, CallInv, LockInv, LinesAreWhole, AnswerInv, [Next]_vars
             PROVE  AnswerInv'
  OBVIOUS
<1>0. /\ Frames' = Frames /\ Nameless' = Nameless
      /\ \A n : /\ Accepted(input[n])' <=> Accepted(input[n])
                /\ Notification(input[n])' <=> Notification(input[n])
                /\ ReplyId(n)' = ReplyId(n)
      /\ \A n \in Frames : n \in Nat \ {0} /\ n # NullId
      /\ next \in Nat
  BY Fixed, Positions DEF TypeOK
<1>1. CASE UNCHANGED vars \/ Closed \/ Eof \/ ReplyLock
  <2>1. UNCHANGED <<next, pc, wire>>
    BY <1>1 DEF vars, Closed, Eof, ReplyLock, Lock, stream
  <2>2. QED
    BY <2>1, AnswerFrame
<1>2. CASE Read
  <2>1. UNCHANGED wire /\ next \in Frames
    BY <1>2, Dispatched, Rejected DEF Read, stream
  <2>2. pc[next] = "none"
    BY <1>0, <2>1 DEF CallInv
  <2>3. \A n \in Frames : pc'[n] = "closed" <=> pc[n] = "closed"
    <3>1. \/ UNCHANGED pc
          \/ /\ input[next].method \in {"lint", "syntax"}
             /\ pc' = [pc EXCEPT ![next] = input[next].method]
      BY <1>2, Dispatched, Rejected
    <3>2. QED
      BY <2>1, <2>2, <3>1 DEF TypeOK
  <2>4. \/ next' = next + 1 /\ (Accepted(input[next]) \/ Notification(input[next]))
        \/ UNCHANGED next
    BY <1>2, Dispatched, Rejected
  <2>5. \A n \in Frames : /\ n < next => n < next'
                          /\ n < next' => \/ n < next
                                          \/ Accepted(input[n]) \/ Notification(input[n])
    <3>1. \A n \in Frames : n < next + 1 => n < next \/ n = next
      BY <1>0
    <3>2. \A n \in Frames : n < next => n < next + 1
      BY <1>0
    <3>3. QED
      BY <2>4, <3>1, <3>2
  <2>6. QED
    BY <2>1, <2>3, <2>5, AnswerFrame
<1>3. ASSUME NEW n \in Frames, InCall(n) PROVE AnswerInv'
  <2>1. UNCHANGED <<next, wire>>
    BY <1>3, InCallFrame
  <2>2. \A m \in Frames : pc'[m] = "closed" <=> pc[m] = "closed"
    BY <1>3, InCallMoves
  <2>3. QED
    BY <2>1, <2>2, AnswerFrame
<1>4. ASSUME NEW n \in Frames, AnswerLock(n) PROVE AnswerInv'
  <2>1. UNCHANGED <<next, pc, wire>>
    BY <1>4 DEF AnswerLock, Lock
  <2>2. QED
    BY <2>1, AnswerFrame
<1>5. ASSUME NEW n \in Frames, AnswerPut(n) PROVE AnswerInv'
  <2>1. PutEffect(n)
    BY <1>5, AnswerPutHalf
  <2>2. /\ UNCHANGED next /\ pc[n] = "answer"
        /\ pc' = IF Wrote THEN [pc EXCEPT ![n] = "closed"] ELSE pc
    BY <1>5 DEF AnswerPut
  <2>3. \A m \in Frames : Refused(m)' <=> Refused(m)
    BY <1>0, <2>2 DEF Refused
  <2>4. {m \in Nameless : m < next}' = {m \in Nameless : m < next}
    BY <1>0, <2>2
  <2>5. CASE ~Wrote
    <3>1. \A i : Lines(i)' = Lines(i)
      BY <2>1, <2>5, PutLines
    <3>2. QED
      BY <1>0, <2>2, <2>3, <2>4, <2>5, <3>1 DEF AnswerInv
  <2>6. CASE Wrote
    <3>1. /\ Lines(n)' = Lines(n) \cup {Len(wire) + 1}
          /\ \A i : i # n => Lines(i)' = Lines(i)
      BY <2>1, <2>6, PutLines
    <3>2. ~Refused(n) /\ pc[n] # "closed"
      BY <2>2 DEF CallInv, Refused
    <3>3. Lines(n)' = {Len(wire) + 1}
      BY <3>1, <3>2 DEF AnswerInv
    <3>4. pc'[n] = "closed" /\ \A m \in Frames \ {n} : pc'[m] = pc[m]
      BY <2>2, <2>6 DEF TypeOK
    <3>5. \A m \in Frames : /\ \A j, k \in Lines(m)' : j = k
                            /\ Lines(m)' # {} <=> pc'[m] = "closed" \/ Refused(m)'
      BY <2>3, <3>1, <3>3, <3>4 DEF AnswerInv
    <3>6. Cardinality(Lines(NullId)') = Cardinality({m \in Nameless : m < next}')
      BY <1>0, <2>4, <3>1 DEF AnswerInv
    <3>7. QED
      BY <1>0, <3>5, <3>6 DEF AnswerInv, NullId
  <2>7. QED
    BY <2>5, <2>6
<1>6. CASE ReplyPut
  <2>1. PICK q \in Frames : q = next
    BY <1>6, ReplyPutHalf
  <2>2. PICK r \in {q, NullId} : r = ReplyId(q) /\ PutEffect(r)
    BY <1>6, <2>1, ReplyPutHalf
  <2>3. /\ UNCHANGED pc
        /\ next' = IF Wrote THEN q + 1 ELSE q
        /\ ~Accepted(input[q]) /\ ~Notification(input[q])
    BY <1>6, <2>1 DEF ReplyPut, ReaderInv
  <2>4. pc[q] = "none" /\ ~Refused(q)
    BY <1>0, <2>1 DEF CallInv, Refused
  <2>5. CASE ~Wrote
    <3>1. \A i : Lines(i)' = Lines(i)
      BY <2>2, <2>5, PutLines
    <3>2. next' = next
      BY <2>1, <2>3, <2>5
    <3>3. \A m \in Frames : Refused(m)' <=> Refused(m)
      BY <1>0, <3>2 DEF Refused
    <3>4. {m \in Nameless : m < next}' = {m \in Nameless : m < next}
      BY <1>0, <3>2
    <3>5. QED
      BY <1>0, <2>3, <3>1, <3>3, <3>4 DEF AnswerInv
  <2>6. CASE Wrote
    <3>1. /\ Lines(r)' = Lines(r) \cup {Len(wire) + 1}
          /\ \A i : i # r => Lines(i)' = Lines(i)
      BY <2>2, <2>6, PutLines
    <3>2. \A m \in Frames : m < next' <=> m < next \/ m = q
      BY <1>0, <2>1, <2>3, <2>6
    <3>3. \A m \in Frames \ {q} : Refused(m)' <=> Refused(m)
      BY <1>0, <3>2 DEF Refused
    <3>4. Refused(q)' <=> r = q
      BY <1>0, <2>2, <2>3, <3>2 DEF Refused
    <3>5. CASE r = q
      <4>1. Lines(q)' = {Len(wire) + 1}
        BY <2>4, <3>1, <3>5 DEF AnswerInv
      <4>2. \A m \in Frames : /\ \A j, k \in Lines(m)' : j = k
                              /\ Lines(m)' # {} <=> pc'[m] = "closed" \/ Refused(m)'
        <5>1. /\ \A j, k \in Lines(q)' : j = k
              /\ Lines(q)' # {} /\ Refused(q)'
          BY <3>4, <3>5, <4>1
        <5>2. ASSUME NEW m \in Frames \ {q}
              PROVE  /\ \A j, k \in Lines(m)' : j = k
                     /\ Lines(m)' # {} <=> pc'[m] = "closed" \/ Refused(m)'
          <6>1. Lines(m)' = Lines(m) /\ (Refused(m)' <=> Refused(m)) /\ UNCHANGED pc
            BY <2>3, <3>1, <3>3, <3>5
          <6>2. QED
            BY <6>1 DEF AnswerInv
        <5>3. QED
          BY <5>1, <5>2
      <4>3. q \notin Nameless
        BY <1>0, <2>2, <3>5 DEF Nameless
      <4>4. {m \in Nameless : m < next}' = {m \in Nameless : m < next}
        <5>1. \A m \in Nameless : m \in Frames /\ m # q
          BY <4>3 DEF Nameless
        <5>2. \A m \in Nameless : m < next' <=> m < next
          BY <3>2, <5>1
        <5>3. {m \in Nameless : m < next'} = {m \in Nameless : m < next}
          BY <5>2
        <5>4. QED
          BY <1>0, <5>3
      <4>5. Cardinality(Lines(NullId)') = Cardinality({m \in Nameless : m < next}')
        <5>1. Lines(NullId)' = Lines(NullId)
          BY <1>0, <3>1, <3>5 DEF NullId
        <5>2. QED
          BY <4>4, <5>1 DEF AnswerInv
      <4>6. QED
        BY <1>0, <4>2, <4>5 DEF AnswerInv, NullId
    <3>6. CASE r = NullId
      <4>1. \A m \in Frames : Lines(m)' = Lines(m)
        BY <1>0, <3>1, <3>6
      <4>2. r # q
        BY <1>0, <3>6
      <4>3. \A m \in Frames : /\ \A j, k \in Lines(m)' : j = k
                              /\ Lines(m)' # {} <=> pc'[m] = "closed" \/ Refused(m)'
        BY <2>3, <2>4, <3>3, <3>4, <4>1, <4>2 DEF AnswerInv
      <4>4. q \in Nameless
        BY <2>2, <2>3, <3>6 DEF Nameless
      <4>5. /\ {m \in Nameless : m < next}' = {m \in Nameless : m < next} \cup {q}
            /\ q \notin {m \in Nameless : m < next}
        <5>1. Nameless \subseteq Frames
          BY DEF Nameless
        <5>2. {m \in Nameless : m < next'} = {m \in Nameless : m < next} \cup {q}
          BY <3>2, <4>4, <5>1
        <5>3. q \notin {m \in Nameless : m < next}
          BY <1>0, <2>1
        <5>4. QED
          BY <1>0, <5>2, <5>3
      <4>6. Cardinality({m \in Nameless : m < next}') = Cardinality({m \in Nameless : m < next}) + 1
        BY <4>5, FiniteAnswers, FS_AddElement
      <4>7. Cardinality(Lines(NullId)') = Cardinality(Lines(NullId)) + 1
        <5>1. Lines(NullId)' = Lines(NullId) \cup {Len(wire) + 1}
          BY <3>1, <3>6 DEF NullId
        <5>2. QED
          BY <5>1, FiniteAnswers, FS_AddElement
      <4>8. QED
        BY <1>0, <4>3, <4>6, <4>7 DEF AnswerInv, NullId
    <3>7. QED
      BY <3>5, <3>6
  <2>7. QED
    BY <2>5, <2>6
<1>7. QED
  BY <1>1, <1>2, <1>3, <1>4, <1>5, <1>6, Steps DEF InCall
-----------------------------------------------------------------------------
LEMMA InitInv == Init => Inv
<1> SUFFICES ASSUME Init PROVE Inv
  OBVIOUS
<1>1. input \in Seq(FrameShapes) /\ Len(input) \in Nat /\ Frames = 1..Len(input)
  BY BoundsAssumption, LenProperties DEF Init, Frames
<1>2. \A S : <<>> \in Seq(S) /\ Len(<<>>) = 0
  BY EmptySeq
<1>3. TypeOK
  <2>1. next \in 1..(Len(input) + 1) /\ lock \in 0..(Len(input) + 1)
    BY <1>1 DEF Init
  <2>2. files \in [Frames -> 0..MaxFiles]
    BY BoundsAssumption DEF Init
  <2>3. checks \in [Frames -> Seq(Endings)] /\ \A n \in Frames : Len(checks[n]) <= 2 * MaxFiles
    BY <1>2, BoundsAssumption DEF Init
  <2>4. wire \in Seq(Halves) /\ input \in Inputs /\ dirs \subseteq Frames
    BY <1>2 DEF Init
  <2>5. /\ pc \in [Frames -> Stages] /\ reply \in [Frames -> Replies]
        /\ process \in [Frames -> Endings \cup {"none"}]
        /\ reader \in {"read", "reply", "eof"}
    BY DEF Init, Stages, Replies
  <2>6. done \in [Frames -> BOOLEAN]
    BY DEF Init
  <2>7. QED
    BY <2>1, <2>2, <2>3, <2>4, <2>5, <2>6 DEF TypeOK, Stages, Replies
<1>4. ReaderInv
  BY DEF Init, ReaderInv
<1>5. CallInv
  BY <1>1 DEF Init, CallInv
<1>6. CheckInv
  BY <1>2 DEF Init, CheckInv, CallOwes
<1>7. Len(wire) = 0 /\ DOMAIN wire = {} /\ lock = 0
  BY <1>2 DEF Init
<1>8. LockInv
  <2>1. Even(0)
    BY DEF Even
  <2>2. \A w \in Frames \cup {Reader} : lock # w + 1
    BY <1>1, <1>7 DEF Reader
  <2>3. QED
    BY <1>7, <2>1, <2>2 DEF LockInv
<1>9. LinesAreWhole
  BY <1>7 DEF LinesAreWhole
<1>10. AnswerInv
  <2>1. \A i : Lines(i) = {}
    BY <1>7 DEF Lines
  <2>2. \A n \in Frames : pc[n] # "closed" /\ ~(n < next)
    BY <1>1 DEF Init
  <2>3. {n \in Nameless : n < next} = {}
    BY <2>2 DEF Nameless
  <2>4. QED
    BY <2>1, <2>2, <2>3 DEF AnswerInv, Refused
<1>11. VerdictsAreReal
  BY DEF Init, VerdictsAreReal
<1>12. QED
  BY <1>3, <1>4, <1>5, <1>6, <1>8, <1>9, <1>10, <1>11 DEF Inv

\* McpServer keeps the inductive invariant.
THEOREM Invariance == Spec => []Inv
<1>1. Inv /\ [Next]_vars => Inv'
  BY TypeStep, ReaderStep, CallStep, CheckStep, LockStep, LinesStep, AnswerStep, VerdictsStep
     DEF Inv
<1>2. QED
  BY InitInv, <1>1, PTL DEF Spec

\* Every variable of the server keeps its type: no call takes more than two
\* verdicts for each file, or counts its files below zero.
THEOREM TypeCorrect == Spec => []TypeOK
<1>1. Inv => TypeOK
  BY DEF Inv
<1>2. QED
  BY <1>1, Invariance, PTL

\* Whatever is answered at the same time, by whichever goroutines, stdout is a
\* sequence of whole lines.
THEOREM StreamIsWhole == Spec => []LinesAreWhole
<1>1. Inv => LinesAreWhole
  BY DEF Inv
<1>2. QED
  BY <1>1, Invariance, PTL

\* A syntax result rests on two real verdicts of native Zsh for each file.
THEOREM SyntaxIsReal == Spec => []VerdictsAreReal
<1>1. Inv => VerdictsAreReal
  BY DEF Inv
<1>2. QED
  BY <1>1, Invariance, PTL

\* One answer for each request, whether it was run, refused, cancelled or cut
\* short; none for a notification; and one anonymous reply for each frame that
\* was refused and has no usable ID.
THEOREM RepliesMatchRequests == Spec => []AnsweredOnce
<1>1. Inv => AnsweredOnce
  <2> SUFFICES ASSUME Inv PROVE AnsweredOnce
    OBVIOUS
  <2> USE DEF Inv
  <2>1. /\ \A n \in Frames : n \in Nat \ {0} /\ n # NullId
        /\ Frames = 1..Len(input) /\ Len(input) \in Nat
    BY Positions
  <2>2. Idle => \A n \in Frames : n < next
    BY <2>1 DEF Idle, ReaderInv
  <2>3. ASSUME NEW n \in Frames, Lines(n) # {} PROVE Answerable(n)
    <3>1. CASE pc[n] = "closed"
      BY <3>1 DEF CallInv, Answerable
    <3>2. CASE Refused(n)
      BY <3>2 DEF Refused, Answerable
    <3>3. QED
      BY <2>3, <3>1, <3>2 DEF AnswerInv
  <2>4. ASSUME Idle, NEW n \in Frames, Answerable(n) PROVE Lines(n) # {}
    <3>1. CASE Accepted(input[n])
      <4>1. pc[n] # "none"
        BY <2>2, <2>4, <3>1 DEF CallInv, Answerable
      <4>2. pc[n] = "closed"
        BY <2>4, <4>1 DEF Idle
      <4>3. QED
        BY <4>2 DEF AnswerInv
    <3>2. CASE ~Accepted(input[n])
      <4>1. Refused(n)
        BY <2>2, <2>4, <3>2 DEF Refused, Answerable
      <4>2. QED
        BY <4>1 DEF AnswerInv
    <3>3. QED
      BY <3>1, <3>2
  <2>5. Cardinality(Lines(NullId)) = Cardinality({n \in Nameless : n < next})
    BY DEF AnswerInv
  <2>6. Cardinality({n \in Nameless : n < next}) <= Cardinality(Nameless)
    BY FiniteAnswers, FS_Subset
  <2>7. Idle => {n \in Nameless : n < next} = Nameless
    BY <2>2 DEF Nameless
  <2>8. \A n \in Frames : \A j, k \in Lines(n) : j = k
    BY DEF AnswerInv
  <2>9. QED
    BY <2>3, <2>4, <2>5, <2>6, <2>7, <2>8 DEF AnsweredOnce
<1>2. QED
  BY <1>1, Invariance, PTL
=============================================================================
