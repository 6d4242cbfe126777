----------------------------- MODULE McpServer -----------------------------
(***************************************************************************)
(* The MCP server of cmd/zsh-lint (mcp.go, mcp_transport.go): a reader     *)
(* loop that rejects bad frames itself and hands the others to the SDK,    *)
(* which runs each tool call in a goroutine of its own; tool calls that    *)
(* validate their files and run the linter, or native Zsh twice per file   *)
(* under a deadline; replies that share one output stream.                 *)
(*                                                                         *)
(* A frame is a record of what the envelope checks look at.  json and      *)
(* object: the line is valid JSON, and an object; version: "jsonrpc" is    *)
(* "2.0"; id: "absent", "number" (a number out of range), "other" (neither *)
(* string nor number) or "good"; method: "absent", "bad" (not a string),   *)
(* "lint", "syntax" or "cancel"; outcome: result or error members are      *)
(* present; target: the input position a cancellation names, 0 for an ID   *)
(* that is not supported.  Request IDs are the positions of the frames.    *)
(***************************************************************************)
EXTENDS Naturals, Sequences, FiniteSets

CONSTANTS Inputs,     \* the frame sequences a client may send
          MaxFrames,  \* bound: frames in one session
          MaxFiles    \* bound: files in one zsh_syntax call

FrameShapes == [json : BOOLEAN, object : BOOLEAN, version : BOOLEAN,
                id : {"absent", "number", "other", "good"},
                method : {"absent", "bad", "lint", "syntax", "cancel"},
                outcome : BOOLEAN, target : Nat]

ASSUME BoundsAssumption == /\ MaxFiles \in Nat \ {0}
                           /\ Inputs \subseteq Seq(FrameShapes)
                           /\ \A s \in Inputs : Len(s) <= MaxFrames

VARIABLES input,      \* the frames of this session
          next,       \* the frame the reader reads next
          reader,     \* "read", "reply" (an error reply is due), or "eof"
          pc,         \* where the tool call of each frame is
          done,       \* its context is cancelled or past its deadline
          files,      \* files of a zsh_syntax call still to check
          process,    \* how its native process ended: "none", "clean", ...
          checks,     \* endings the call has taken as verdicts
          dirs,       \* calls whose temporary directory exists
          reply,      \* what the call will answer: "none", "result", "error"
          lock,       \* holder of writeMu: 0 free, else writer + 1
          wire        \* what is on stdout: [id, part], halves of lines

vars == <<input, next, reader, pc, done, files, process, checks, dirs, reply, lock, wire>>
callVars == <<done, files, process, checks, dirs, reply>>
stream == <<lock, wire>>

Frames == DOMAIN input
Reader == 0                 \* the reader as a writer; a call writes as its position
NullId == 0                 \* the ID of a reply that can name no request
Endings == {"clean", "errors", "signal", "failed"}
Halves == [id : Frames \cup {NullId}, part : {"first", "last"}]

TypeOK == /\ input \in Inputs
          /\ next \in 1..(Len(input) + 1)
          /\ reader \in {"read", "reply", "eof"}
          /\ pc \in [Frames -> {"none", "lint", "linting", "syntax", "prepare", "check",
                                "compile", "clean", "answer", "closed"}]
          /\ done \in [Frames -> BOOLEAN]
          /\ files \in [Frames -> 0..MaxFiles]
          /\ process \in [Frames -> Endings \cup {"none"}]
          /\ checks \in [Frames -> Seq(Endings)]
          /\ \A n \in Frames : Len(checks[n]) <= 2 * MaxFiles
          /\ dirs \in SUBSET Frames
          /\ reply \in [Frames -> {"none", "result", "error"}]
          /\ lock \in 0..(Len(input) + 1)
          /\ wire \in Seq(Halves)

Init == /\ input \in Inputs
        /\ next = 1
        /\ reader = "read"
        /\ pc = [n \in Frames |-> "none"]
        /\ done = [n \in Frames |-> FALSE]
        /\ files = [n \in Frames |-> 0]
        /\ process = [n \in Frames |-> "none"]
        /\ checks = [n \in Frames |-> <<>>]
        /\ dirs = {}
        /\ reply = [n \in Frames |-> "none"]
        /\ lock = 0
        /\ wire = <<>>
-----------------------------------------------------------------------------
\* validateMCPEnvelope, for a frame that is a JSON object.
ValidEnvelope(f) ==
  /\ f.version
  /\ f.id \in {"absent", "good"}
  /\ \/ /\ f.method \in {"lint", "syntax", "cancel"}
        /\ ~f.outcome
        /\ f.method = "cancel" => f.target # 0
     \/ f.method = "absent" /\ f.id = "good" /\ f.outcome

Accepted(f) == f.json /\ f.object /\ ValidEnvelope(f)

\* A notification is never answered, not even a rejected one.
Notification(f) == /\ f.json /\ f.object
                   /\ f.id = "absent" /\ f.version
                   /\ f.method \notin {"absent", "bad"}

\* Mutant: only an accepted notification goes unanswered.
Silent_Accepted(f) == Accepted(f) /\ Notification(f)

Silent(f) == Notification(f)

\* An error reply echoes a string or a numeric ID, and is null otherwise.
ReplyId(n) == IF input[n].json /\ input[n].object /\ input[n].id \in {"good", "number"}
                THEN n ELSE NullId

\* The SDK starts a tool call, or cancels the context of one that runs.
Dispatch(n) ==
  LET f == input[n] IN
  IF f.method = "cancel"
    THEN /\ done' = [k \in Frames |-> done[k] \/ (k = f.target /\ pc[k] # "none")]
         /\ UNCHANGED <<pc, files>>
    ELSE IF f.id = "good" /\ f.method \in {"lint", "syntax"}
    THEN /\ pc' = [pc EXCEPT ![n] = f.method]
         /\ \E k \in 1..MaxFiles : files' = [files EXCEPT ![n] = k]
         /\ UNCHANGED done
    ELSE UNCHANGED <<pc, done, files>>

\* One line of the scanner loop of stdioConnection.Read.
Read == /\ reader = "read"
        /\ next <= Len(input)
        /\ IF Accepted(input[next])
             THEN /\ Dispatch(next)
                  /\ next' = next + 1
                  /\ UNCHANGED reader
             ELSE /\ IF Silent(input[next]) THEN next' = next + 1 /\ UNCHANGED reader
                     ELSE reader' = "reply" /\ UNCHANGED next
                  /\ UNCHANGED <<pc, done, files>>
        /\ UNCHANGED <<input, process, checks, dirs, reply, stream>>

\* The scanner is at the end: the SDK waits for the calls in flight.
Eof == /\ reader = "read"
       /\ next = Len(input) + 1
       /\ reader' = "eof"
       /\ UNCHANGED <<input, next, pc, callVars, stream>>
-----------------------------------------------------------------------------
\* Mutant: the line is started without waiting for the mutex.
Lock_Taken(w) == /\ lock' = w + 1
                 /\ UNCHANGED wire

\* writeMu: one line at a time; a line reaches the stream in two halves.
Lock(w) == /\ lock = 0
           /\ lock' = w + 1
           /\ UNCHANGED wire

\* The holder writes the next half of its line and unlocks after the last.
Put(w, id) ==
  LET half == wire # <<>> /\ wire[Len(wire)].part = "first"
  IN  /\ lock = w + 1
      /\ wire' = Append(wire, [id |-> id, part |-> IF half THEN "last" ELSE "first"])
      /\ lock' = IF half THEN 0 ELSE lock

Wrote == wire'[Len(wire')].part = "last"

ReplyLock == reader = "reply" /\ Lock(Reader)
             /\ UNCHANGED <<input, next, reader, pc, callVars>>

\* The reader answers a rejected frame itself, then reads on.
ReplyPut == /\ reader = "reply"
            /\ Put(Reader, ReplyId(next))
            /\ IF Wrote THEN reader' = "read" /\ next' = next + 1
                        ELSE UNCHANGED <<reader, next>>
            /\ UNCHANGED <<input, pc, callVars>>

AnswerLock(n) == pc[n] = "answer" /\ Lock(n)
                 /\ UNCHANGED <<input, next, reader, pc, callVars>>

\* The SDK writes the answer of a call.
AnswerPut(n) == /\ pc[n] = "answer"
                /\ Put(n, n)
                /\ pc' = IF Wrote THEN [pc EXCEPT ![n] = "closed"] ELSE pc
                /\ UNCHANGED <<input, next, reader, callVars>>
-----------------------------------------------------------------------------
Answer(n, r) == /\ reply' = [reply EXCEPT ![n] = r]
                /\ pc' = [pc EXCEPT ![n] = "answer"]

\* lintTool: the files are validated, then the context is looked at once.
LintBegin(n) == /\ pc[n] = "lint"
                /\ \/ Answer(n, "error")
                   \/ ~done[n] /\ pc' = [pc EXCEPT ![n] = "linting"] /\ UNCHANGED reply
                /\ UNCHANGED <<input, next, reader, done, files, process, checks, dirs, stream>>

\* run(): anything on stderr makes the answer an error, next to the envelope.
LintEnd(n) == /\ pc[n] = "linting"
              /\ \E r \in {"result", "error"} : Answer(n, r)
              /\ UNCHANGED <<input, next, reader, done, files, process, checks, dirs, stream>>

\* checkNativeSyntax up to the temporary directory; the deadline starts here.
SyntaxBegin(n) == /\ pc[n] = "syntax"
                  /\ \/ Answer(n, "error")
                     \/ pc' = [pc EXCEPT ![n] = "prepare"] /\ UNCHANGED reply
                  /\ UNCHANGED <<input, next, reader, done, files, process, checks, dirs, stream>>

MakeTemp(n) == /\ pc[n] = "prepare"
               /\ \/ dirs' = dirs \cup {n} /\ pc' = [pc EXCEPT ![n] = "check"] /\ UNCHANGED reply
                  \/ Answer(n, "error") /\ UNCHANGED dirs
               /\ UNCHANGED <<input, next, reader, done, files, process, checks, stream>>

\* The deadline passes.
Deadline(n) == /\ pc[n] \in {"prepare", "check", "compile"}
               /\ ~done[n]
               /\ done' = [done EXCEPT ![n] = TRUE]
               /\ UNCHANGED <<input, next, reader, pc, files, process, checks, dirs, reply, stream>>

\* A native process ends by itself; nothing makes it.
Exits(n) == /\ pc[n] \in {"check", "compile"}
            /\ process[n] = "none"
            /\ \E e \in Endings : process' = [process EXCEPT ![n] = e]
            /\ UNCHANGED <<input, next, reader, pc, done, files, checks, dirs, reply, stream>>

\* Mutant: the command is started without the context.
Killed_Never(n) == /\ FALSE
                   /\ UNCHANGED vars

\* CommandContext kills the process once the context is done.
Killed(n) == /\ pc[n] \in {"check", "compile"}
             /\ process[n] = "none" /\ done[n]
             /\ process' = [process EXCEPT ![n] = "signal"]
             /\ UNCHANGED <<input, next, reader, pc, done, files, checks, dirs, reply, stream>>

\* Mutant: a process that a signal ended counts as a verdict.
IsVerdict_Signal(n) == process[n] # "failed"

\* nativeCommand: a verdict unless the context is done by now, or the process
\* did not start or did not exit by itself.
IsVerdict(n) == ~done[n] /\ process[n] \in {"clean", "errors"}

\* Mutant: one file too many.
LastFile_OffByOne(n) == files[n] = 0

\* The file under check is the last of the call.
LastFile(n) == files[n] = 1

\* Both commands of a file in turn, then the next file, then the answer.
Judged(n) == /\ pc[n] \in {"check", "compile"}
             /\ process[n] # "none"
             /\ process' = [process EXCEPT ![n] = "none"]
             /\ IF IsVerdict(n)
                  THEN /\ checks' = [checks EXCEPT ![n] = Append(@, process[n])]
                       /\ IF pc[n] = "check"
                            THEN pc' = [pc EXCEPT ![n] = "compile"] /\ UNCHANGED <<files, reply>>
                            ELSE /\ files' = [files EXCEPT ![n] = @ - 1]
                                 /\ pc' = [pc EXCEPT ![n] = IF LastFile(n) THEN "clean"
                                                           ELSE "check"]
                                 /\ reply' = [reply EXCEPT ![n] = IF LastFile(n) THEN "result"
                                                                 ELSE @]
                  ELSE /\ pc' = [pc EXCEPT ![n] = "clean"]
                       /\ reply' = [reply EXCEPT ![n] = "error"]
                       /\ UNCHANGED <<files, checks>>
             /\ UNCHANGED <<input, next, reader, done, dirs, stream>>

\* The deferred removal of the temporary directory.
CleanUp(n) == /\ pc[n] = "clean"
              /\ dirs' = dirs \ {n}
              /\ pc' = [pc EXCEPT ![n] = "answer"]
              /\ UNCHANGED <<input, next, reader, done, files, process, checks, reply, stream>>
-----------------------------------------------------------------------------
Call(n) == \/ LintBegin(n) \/ LintEnd(n) \/ SyntaxBegin(n) \/ MakeTemp(n) \/ Killed(n)
           \/ Judged(n) \/ CleanUp(n) \/ AnswerLock(n) \/ AnswerPut(n)
ReadLoop == Read \/ Eof \/ ReplyLock \/ ReplyPut

Idle == reader = "eof" /\ \A n \in Frames : pc[n] \in {"none", "closed"}
Closed == Idle /\ UNCHANGED vars

Next == \/ ReadLoop
        \/ \E n \in Frames : Call(n) \/ Deadline(n) \/ Exits(n)
        \/ Closed

Spec == Init /\ [][Next]_vars

\* Goroutines are scheduled, the deadline passes, and a blocked writer gets the
\* mutex.  No native process has to end by itself.
Fairness == /\ WF_vars(ReadLoop)
            /\ SF_vars(ReplyLock)
            /\ \A n \in 1..MaxFrames : /\ WF_vars(n \in Frames /\ Call(n))
                                       /\ WF_vars(n \in Frames /\ Deadline(n))
                                       /\ SF_vars(n \in Frames /\ AnswerLock(n))
FairSpec == Spec /\ Fairness
-----------------------------------------------------------------------------
Lines(id) == {k \in DOMAIN wire : wire[k].id = id /\ wire[k].part = "last"}

\* Replies of calls that run at the same time, and of the reader, never mix
\* on stdout: a started line is finished before another begins.
LinesAreWhole == \A k \in DOMAIN wire :
  IF k % 2 = 1 THEN wire[k].part = "first"
  ELSE wire[k] = [wire[k - 1] EXCEPT !.part = "last"]

\* The frames that ask for a reply.
Answerable(n) == IF Accepted(input[n])
                   THEN input[n].method \in {"lint", "syntax"} /\ input[n].id = "good"
                   ELSE ~Notification(input[n]) /\ ReplyId(n) = n

\* The rejected frames whose reply can only carry a null ID.
Nameless == {n \in Frames : /\ ~Accepted(input[n]) /\ ~Notification(input[n])
                            /\ ReplyId(n) = NullId}

\* A request is answered once, a notification and an accepted response never,
\* also when the frame was rejected, cancelled or cut short by the deadline; a
\* frame with no usable ID gets one reply without.
AnsweredOnce ==
  /\ \A n \in Frames :
       /\ \A j, k \in Lines(n) : j = k
       /\ Lines(n) # {} => Answerable(n)
       /\ Idle /\ Answerable(n) => Lines(n) # {}
  /\ Cardinality(Lines(NullId)) <= Cardinality(Nameless)
  /\ Idle => Cardinality(Lines(NullId)) = Cardinality(Nameless)

\* A syntax result rests on both verdicts of each file; a call that lost a
\* native process to a signal, or could not start it, is an error.
VerdictsAreReal == \A n \in Frames :
  input[n].method = "syntax" /\ reply[n] = "result" =>
    /\ files[n] = 0
    /\ Len(checks[n]) % 2 = 0 /\ checks[n] # <<>>
    /\ \A k \in DOMAIN checks[n] : checks[n][k] \in {"clean", "errors"}

\* A session survives what it rejects, and a native process that hangs: in the
\* end the input is read, every call it began has been answered and no
\* temporary directory is left.
EndsIdle == <>(Idle /\ dirs = {})
=============================================================================
