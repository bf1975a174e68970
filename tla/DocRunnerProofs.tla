--------------------------- MODULE DocRunnerProofs --------------------------
(***************************************************************************)
(* Proofs about DocRunner: the types, that a stored document is the whole  *)
(* output of a command that succeeded, and that no command is left behind. *)
(* RunnerInv is inductive: StreamInv accounts for every chunk written, in  *)
(* the pipe, kept or dropped; CommandInv says what has ended by the time   *)
(* the two tasks are joined.                                               *)
(***************************************************************************)
EXTENDS DocRunner, TLAPS

\* Init establishes the invariant.
LEMMA InitInv ==
  ASSUME Init
  PROVE  RunnerInv
<1> USE RunnerAssumption DEF Init
<1>0. 0 \in Nat /\ 0 \in 0..PIPE_CAPACITY /\ 0 \in 0..ByteLimit /\ 0 \in 0..MaxReads
  OBVIOUS
<1>1. TypeOK
  BY <1>0 DEF TypeOK
<1>2. StreamInv
  BY DEF StreamInv, Streams, TakenBy, LesserOf
<1>3. CommandInv /\ DocsAreWhole /\ CommandOver
  BY DEF CommandInv, DocsAreWhole, CommandOver
<1> QED
  BY <1>1, <1>2, <1>3 DEF RunnerInv

\* A new command has fresh pipes and tasks.
LEMMA BeginInv ==
  ASSUME RunnerInv, NEW q \in Requests, NEW first \in {"none", "running"},
         NEW task \in {"none", "reading"}, Begin(q, first, task),
         \/ Ends("refused") /\ first = "none"
         \/ Ends("failed") /\ first = "none"
         \/ /\ pc' = "waiting"
            /\ task = "reading"
            /\ result' = [kind |-> "none", text |-> None]
            /\ UNCHANGED docs
  PROVE  RunnerInv'
<1> USE RunnerAssumption DEF Begin, Ends
<1>0. /\ q # None
      /\ 0 \in Nat /\ 0 \in 0..PIPE_CAPACITY /\ 0 \in 0..ByteLimit
      /\ reads + 1 \in 0..MaxReads
  BY DEF RunnerInv, TypeOK
<1>1. TypeOK'
  <2>1. docs' \in [Docs -> Texts \cup {None}] /\ pc' \in {"idle", "waiting"}
    BY DEF RunnerInv, TypeOK
  <2>2. result' \in [kind : {"none", "refused", "failed"}, text : {None}]
    OBVIOUS
  <2>3. request' \in Requests /\ request' # None
    BY <1>0
  <2>4. /\ child' \in {"none", "running"} /\ lingering' = FALSE
        /\ reads' \in 0..MaxReads
    BY <1>0
  <2>5. /\ written' = [s \in Streams |-> 0] /\ pipe' = [s \in Streams |-> 0]
        /\ kept' = [s \in Streams |-> 0] /\ truncated' = [s \in Streams |-> FALSE]
        /\ reader' = [s \in Streams |-> task]
    OBVIOUS
  <2>6. /\ written' \in [Streams -> Nat] /\ pipe' \in [Streams -> 0..PIPE_CAPACITY]
        /\ kept' \in [Streams -> 0..ByteLimit] /\ truncated' \in [Streams -> BOOLEAN]
        /\ reader' \in [Streams -> {"none", "reading"}]
    BY <1>0, <2>5
  <2> HIDE DEF Begin, Ends
  <2> QED
    BY <2>1, <2>2, <2>3, <2>4, <2>6 DEF TypeOK, Texts
<1>2. StreamInv'
  BY DEF StreamInv, Streams, TakenBy, LesserOf
<1>3. CommandInv'
  BY DEF CommandInv, Streams
<1>4. DocsAreWhole' /\ CommandOver'
  BY DEF RunnerInv, DocsAreWhole, CommandOver
<1> QED
  BY <1>1, <1>2, <1>3, <1>4 DEF RunnerInv

\* What the command does.
LEMMA CommandSteps ==
  ASSUME RunnerInv,
         \/ \E s \in Streams : Write(s)
         \/ Exit
         \/ SandboxEnds
  PROVE  RunnerInv'
<1> USE RunnerAssumption DEF Runner, streams
<1>1. ASSUME NEW s \in Streams, Write(s) PROVE RunnerInv'
  <2>0. /\ request # None /\ request.program[s] \in Nat
        /\ written[s] \in Nat /\ pipe[s] \in Nat /\ PIPE_CAPACITY \in Nat
    BY <1>1 DEF RunnerInv, TypeOK, Write, Streams
  <2>1. TypeOK'
    BY <1>1, <2>0 DEF RunnerInv, TypeOK, Write
  <2>2. StreamInv'
    BY <1>1, <2>0 DEF RunnerInv, TypeOK, StreamInv, TakenBy, Write
  <2>3. CommandInv'
    BY <1>1 DEF RunnerInv, TypeOK, CommandInv, Write
  <2>4. DocsAreWhole' /\ CommandOver'
    BY <1>1 DEF RunnerInv, DocsAreWhole, CommandOver, LeftToItself, Write
  <2> QED
    BY <2>1, <2>2, <2>3, <2>4 DEF RunnerInv
<1>2. ASSUME Exit PROVE RunnerInv'
  <2>0. request # None /\ request.program.exit \in {"success", "failure", "never"}
    BY <1>2 DEF RunnerInv, TypeOK, Exit
  <2>1. TypeOK'
    BY <1>2, <2>0 DEF RunnerInv, TypeOK, Exit
  <2>2. StreamInv'
    BY <1>2, <2>0 DEF RunnerInv, TypeOK, StreamInv, TakenBy, Exit
  <2>3. CommandInv'
    BY <1>2, <2>0 DEF RunnerInv, TypeOK, CommandInv, Exit
  <2>4. DocsAreWhole' /\ CommandOver'
    BY <1>2, <2>0 DEF RunnerInv, DocsAreWhole, CommandOver, LeftToItself, Exit
  <2> QED
    BY <2>1, <2>2, <2>3, <2>4 DEF RunnerInv
<1>3. ASSUME SandboxEnds PROVE RunnerInv'
  <2>1. TypeOK'
    BY <1>3 DEF RunnerInv, TypeOK, SandboxEnds
  <2>2. StreamInv'
    BY <1>3 DEF RunnerInv, StreamInv, TakenBy, SandboxEnds
  <2>3. CommandInv' /\ DocsAreWhole' /\ CommandOver'
    BY <1>3 DEF RunnerInv, CommandInv, DocsAreWhole, CommandOver, LeftToItself, SandboxEnds
  <2> QED
    BY <2>1, <2>2, <2>3 DEF RunnerInv
<1> QED
  BY <1>1, <1>2, <1>3

\* What the two tasks do.
LEMMA TaskSteps ==
  ASSUME RunnerInv, NEW s \in Streams,
         \/ \E n \in 1..PIPE_CAPACITY : Read(s, n)
         \/ ReadEnds(s)
         \/ ReadFails(s)
  PROVE  RunnerInv'
<1> USE RunnerAssumption
<1>1. ASSUME NEW n \in 1..PIPE_CAPACITY, Read(s, n) PROVE RunnerInv'
  <2>0. /\ n \in Nat /\ ByteLimit \in Nat /\ PIPE_CAPACITY \in Nat
        /\ written[s] \in Nat /\ pipe[s] \in 0..PIPE_CAPACITY /\ kept[s] \in Nat
        /\ n <= pipe[s] /\ pipe[s] <= written[s]
        /\ pipe[s] - n \in 0..PIPE_CAPACITY
    BY <1>1 DEF RunnerInv, TypeOK, StreamInv, Read, ReadChunk, Streams
  <2>k. Kept(s, n) \in 0..ByteLimit
    BY <2>0 DEF Kept, LesserOf
  <2>t. truncated[s] \in BOOLEAN => Truncates(s, n) \in BOOLEAN
    BY DEF Truncates
  <2>1. TypeOK'
    BY <1>1, <2>0, <2>k, <2>t DEF RunnerInv, TypeOK, Read, ReadChunk
  <2>2. StreamInv'
    <3> SUFFICES ASSUME NEW t \in Streams
                 PROVE  /\ pipe'[t] <= written'[t]
                        /\ kept'[t] = LesserOf(written'[t] - pipe'[t], ByteLimit)
                        /\ truncated'[t] <=> written'[t] - pipe'[t] > ByteLimit
                        /\ reader'[t] = "ended" => pipe'[t] = 0 /\ child' # "running"
      BY DEF StreamInv, TakenBy, LesserOf
    <3>1. CASE t = s
      <4>1. /\ pipe'[s] = pipe[s] - n /\ written'[s] = written[s]
            /\ kept'[s] = Kept(s, n)
            /\ truncated'[s] = Truncates(s, n)
            /\ reader'[s] = "reading"
        BY <1>1 DEF RunnerInv, TypeOK, Read, ReadChunk
      <4>2. /\ kept[s] = LesserOf(written[s] - pipe[s], ByteLimit)
            /\ truncated[s] <=> written[s] - pipe[s] > ByteLimit
        BY DEF RunnerInv, StreamInv, TakenBy
      <4>3. Kept(s, n) = LesserOf(written[s] - (pipe[s] - n), ByteLimit)
        BY <2>0, <4>2 DEF Kept, LesserOf
      <4>4. Truncates(s, n) <=> written[s] - (pipe[s] - n) > ByteLimit
        BY <2>0, <4>2 DEF Truncates, LesserOf
      <4> QED
        BY <3>1, <2>0, <4>1, <4>3, <4>4
    <3>2. CASE t # s
      BY <1>1, <3>2 DEF RunnerInv, TypeOK, StreamInv, TakenBy, Read, ReadChunk
    <3> QED
      BY <3>1, <3>2
  <2>3. CommandInv' /\ DocsAreWhole' /\ CommandOver'
    BY <1>1 DEF RunnerInv, CommandInv, DocsAreWhole, CommandOver, LeftToItself, Read, ReadChunk
  <2> QED
    BY <2>1, <2>2, <2>3 DEF RunnerInv
<1>2. ASSUME NEW how \in {"ended", "failed"}, TaskEnds(s, how),
             how = "ended" => pipe[s] = 0 /\ child # "running"
      PROVE  RunnerInv'
  <2>1. TypeOK'
    BY <1>2 DEF RunnerInv, TypeOK, TaskEnds, command
  <2>2. StreamInv'
    BY <1>2 DEF RunnerInv, TypeOK, StreamInv, TakenBy, TaskEnds, command
  <2>3. CommandInv' /\ DocsAreWhole' /\ CommandOver'
    BY <1>2 DEF RunnerInv, TypeOK, CommandInv, DocsAreWhole, CommandOver, LeftToItself,
                TaskEnds, command
  <2> QED
    BY <2>1, <2>2, <2>3 DEF RunnerInv
<1> QED
  BY <1>1, <1>2 DEF ReadEnds, ReadFails

\* Aborting leaves the tasks that have ended as they are.
LEMMA AbortedTasks ==
  ASSUME TypeOK
  PROVE  /\ Aborted \in [Streams -> {"none", "reading", "ended", "failed", "aborted"}]
         /\ \A s \in Streams : Aborted[s] = "ended" => reader[s] = "ended"
BY DEF TypeOK, Aborted

\* A step that stores nothing and leaves the chunks where they are.
LEMMA RunnerSteps ==
  ASSUME RunnerInv,
         \/ WaitReturns \/ WaitFails \/ TimesOut \/ Kill \/ KillFails
         \/ JoinStdout \/ JoinStderrFails \/ CommandFailed \/ NotParsed
         \/ Interrupt
  PROVE  RunnerInv'
<1> USE RunnerAssumption, AbortedTasks DEF Ends, command, streams
<1>1. TypeOK'
  BY DEF RunnerInv, TypeOK, WaitReturns, WaitFails, TimesOut, Kill, KillFails, JoinStdout,
         JoinStderrFails, CommandFailed, NotParsed, Interrupt
<1>2. StreamInv'
  BY DEF RunnerInv, TypeOK, StreamInv, TakenBy, WaitReturns, WaitFails, TimesOut, Kill,
         KillFails, JoinStdout, JoinStderrFails, CommandFailed, NotParsed, Interrupt
<1>3. CommandInv'
  BY DEF RunnerInv, TypeOK, CommandInv, Streams, WaitReturns, WaitFails, TimesOut, Kill,
         KillFails, JoinStdout, JoinStderrFails, CommandFailed, NotParsed, Interrupt
<1>4. DocsAreWhole'
  BY DEF RunnerInv, DocsAreWhole, WaitReturns, WaitFails, TimesOut, Kill, KillFails,
         JoinStdout, JoinStderrFails, CommandFailed, NotParsed, Interrupt
<1>5. CommandOver'
  BY DEF RunnerInv, TypeOK, CommandInv, CommandOver, LeftToItself, WaitReturns, WaitFails,
         TimesOut, Kill, KillFails, JoinStdout, JoinStderrFails, CommandFailed, NotParsed,
         Succeeded, Interrupt
<1> QED
  BY <1>1, <1>2, <1>3, <1>4, <1>5 DEF RunnerInv

\* What is captured when both tasks have ended is the whole output.
LEMMA StoreInv ==
  ASSUME RunnerInv, Store
  PROVE  RunnerInv'
<1> USE RunnerAssumption DEF Store, Succeeded, command, streams
<1>0. /\ request \in Requests
      /\ request.doc \in Docs
      /\ request.program \in Programs
      /\ request.program.exit = "success"
      /\ \A s \in Streams : request.program[s] \in Nat
  BY DEF RunnerInv, TypeOK, CommandInv, Streams
<1>1. \A s \in Streams :
        /\ kept[s] = LesserOf(request.program[s], ByteLimit)
        /\ truncated[s] <=> request.program[s] > ByteLimit
  <2> TAKE s \in Streams
  <2>1. reader[s] = "ended"
    BY DEF RunnerInv, CommandInv, Streams
  <2>2. pipe[s] = 0 /\ written[s] = request.program[s]
    BY <2>1 DEF RunnerInv, StreamInv, CommandInv
  <2>3. TakenBy(s) = request.program[s]
    BY <2>2, <1>0 DEF TakenBy
  <2> QED
    BY <2>3 DEF RunnerInv, StreamInv
<1>2. Captured \in Texts
  <2>1. kept[Selected] \in 0..ByteLimit /\ truncated[Selected] \in BOOLEAN /\ Selected \in Streams
    BY DEF RunnerInv, TypeOK, Selected, Streams
  <2> QED
    BY <2>1, <1>0 DEF Captured, Texts
<1>3. Captured = WholeText(request.program)
  <2>1. request.program["stdout"] \in Nat /\ request.program["stderr"] \in Nat
    BY <1>0 DEF Streams
  <2>2. HasOutput("stdout") <=> request.program["stdout"] > 0
    BY <1>1, <2>1 DEF HasOutput, LesserOf, Streams
  <2>3. CASE request.program["stdout"] > 0
    <3>1. Selected = "stdout"
      BY <2>2, <2>3 DEF Selected
    <3>2. truncated["stdout"] = (request.program["stdout"] > ByteLimit)
      <4>1. truncated["stdout"] \in BOOLEAN
        BY DEF RunnerInv, TypeOK, Streams
      <4>2. truncated["stdout"] <=> request.program["stdout"] > ByteLimit
        BY <1>1 DEF Streams
      <4> QED
        BY <4>1, <4>2
    <3> QED
      BY <3>1, <3>2, <2>3, <1>1 DEF Captured, WholeText, Streams
  <2>4. CASE ~(request.program["stdout"] > 0)
    <3>1. Selected = "stderr"
      BY <2>2, <2>4 DEF Selected
    <3>2. truncated["stderr"] = (request.program["stderr"] > ByteLimit)
      <4>1. truncated["stderr"] \in BOOLEAN
        BY DEF RunnerInv, TypeOK, Streams
      <4>2. truncated["stderr"] <=> request.program["stderr"] > ByteLimit
        BY <1>1 DEF Streams
      <4> QED
        BY <4>1, <4>2
    <3> QED
      BY <3>1, <3>2, <2>4, <1>1 DEF Captured, WholeText, Streams
  <2> QED
    BY <2>3, <2>4
<1>4. TypeOK'
  BY <1>0, <1>2 DEF RunnerInv, TypeOK
<1>5. StreamInv' /\ CommandInv'
  BY DEF RunnerInv, StreamInv, TakenBy, CommandInv
<1>6. DocsAreWhole'
  <2>1. Captured.program = request.program
    BY DEF Captured
  <2> SUFFICES ASSUME NEW d \in Docs, docs'[d] # None
               PROVE  /\ docs'[d].program.exit = "success"
                      /\ docs'[d] = WholeText(docs'[d].program)
    BY DEF DocsAreWhole, WholeText
  <2>2. CASE d = request.doc
    <3>1. docs'[d] = Captured
      BY <2>2, <1>0 DEF RunnerInv, TypeOK
    <3> QED
      BY <3>1, <2>1, <1>0, <1>3
  <2>3. CASE d # request.doc
    <3>1. docs'[d] = docs[d]
      BY <2>3 DEF RunnerInv, TypeOK
    <3> QED
      BY <3>1 DEF RunnerInv, DocsAreWhole
  <2> QED
    BY <2>2, <2>3
<1>7. CommandOver'
  BY DEF CommandOver
<1> QED
  BY <1>4, <1>5, <1>6, <1>7 DEF RunnerInv

\* RunnerInv holds in every reachable state.
THEOREM RunnerCorrect == Spec => []RunnerInv
<1>1. ASSUME RunnerInv, [Next]_vars PROVE RunnerInv'
  <2>1. ASSUME NEW q \in Requests, Refuse(q) \/ SpawnFails(q) \/ Spawn(q) PROVE RunnerInv'
    <3>1. CASE Refuse(q)
      BY <1>1, <3>1, BeginInv DEF Refuse
    <3>2. CASE SpawnFails(q)
      BY <1>1, <3>2, BeginInv DEF SpawnFails
    <3>3. CASE Spawn(q)
      BY <1>1, <3>3, BeginInv DEF Spawn
    <3> QED
      BY <2>1, <3>1, <3>2, <3>3
  <2>2. CASE Continue
    BY <1>1, <2>2, CommandSteps, TaskSteps, RunnerSteps, StoreInv DEF Continue
  <2>3. CASE \E s \in Streams : ReadFails(s)
    BY <1>1, <2>3, TaskSteps
  <2>4. CASE WaitFails \/ TimesOut \/ KillFails \/ Interrupt
    BY <1>1, <2>4, RunnerSteps
  <2>5. CASE UNCHANGED vars
    BY <1>1, <2>5 DEF vars, command, streams, RunnerInv, TypeOK, StreamInv, TakenBy,
                      CommandInv, DocsAreWhole, CommandOver, LeftToItself
  <2> QED
    BY <1>1, <2>1, <2>2, <2>3, <2>4, <2>5 DEF Next
<1> QED
  BY <1>1, InitInv, PTL DEF Spec

\* Every variable keeps its type.
THEOREM RunnerTyped == Spec => []TypeOK
<1>1. RunnerInv => TypeOK
  BY DEF RunnerInv
<1> QED
  BY <1>1, RunnerCorrect, PTL

\* A stored document is the whole output of a command that succeeded, up to
\* the limit, for every capacity of the pipes and every limit.
THEOREM DocumentsAreWhole == Spec => []DocsAreWhole
<1>1. RunnerInv => DocsAreWhole
  BY DEF RunnerInv
<1> QED
  BY <1>1, RunnerCorrect, PTL

\* A read that has returned leaves no command running, unless waiting for it
\* or killing it failed.
THEOREM NoCommandLeft == Spec => []CommandOver
<1>1. RunnerInv => CommandOver
  BY DEF RunnerInv
<1> QED
  BY <1>1, RunnerCorrect, PTL
=============================================================================
