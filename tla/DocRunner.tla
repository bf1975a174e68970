------------------------------ MODULE DocRunner -----------------------------
(***************************************************************************)
(* cps-doc-runner: a documentation command in its sandbox, the two tasks   *)
(* that read what it writes, the wait with a timeout, and the doc store    *)
(* the output ends up in.  Reads follow one another, as the agent loop     *)
(* dispatches them.                                                        *)
(*                                                                         *)
(*   pc        "idle" between reads; "waiting" for the command, "killing"  *)
(*             it, joining the "stdout" or the "stderr" task in            *)
(*             run_in_bwrap; "over" after an interrupt                     *)
(*   request   the read in progress, or the last one                       *)
(*   result    how it ended                                                *)
(*   docs      the captured documents                                      *)
(*   child     "none", "running", "success", "failure" or "killed"         *)
(*   lingering something else in the sandbox holds the pipes open          *)
(*   written   chunks written to each pipe                                 *)
(*   pipe      chunks in each pipe                                         *)
(*   reader    the task at the other end of each: "none", "reading",       *)
(*             "ended", "failed" or "aborted"                              *)
(*   kept, truncated  what read_limited has of each stream                 *)
(*   reads     number of reads (bound)                                     *)
(***************************************************************************)
EXTENDS Naturals

CONSTANTS
  Docs,
  Programs,        \* [stdout, stderr, exit]: chunks written, how it ends
  Requests,        \* [doc, program, refused, schema, parses]
  ByteLimit,       \* max_output_bytes, in chunks
  PIPE_CAPACITY,   \* chunks a pipe holds
  MaxReads,        \* bound: reads in a session
  None

ASSUME RunnerAssumption ==
  /\ Programs \subseteq [stdout : Nat, stderr : Nat, exit : {"success", "failure", "never"}]
  /\ Requests \subseteq [doc : Docs, program : Programs, refused : BOOLEAN,
                         schema : BOOLEAN, parses : BOOLEAN]
  /\ ByteLimit \in Nat
  /\ PIPE_CAPACITY \in Nat \ {0}
  /\ MaxReads \in Nat
  /\ None \notin Requests

VARIABLES pc, request, result, docs, child, lingering, written, pipe, reader,
          kept, truncated, reads

command == <<child, lingering, written, pipe>>
streams == <<reader, kept, truncated>>
vars == <<pc, request, result, docs, command, streams, reads>>

Streams == {"stdout", "stderr"}

LesserOf(a, b) == IF a <= b THEN a ELSE b

Init ==
  /\ pc = "idle"
  /\ request = None
  /\ result = [kind |-> "none", text |-> None]
  /\ docs = [d \in Docs |-> None]
  /\ child = "none"
  /\ lingering = FALSE
  /\ written = [s \in Streams |-> 0]
  /\ pipe = [s \in Streams |-> 0]
  /\ reader = [s \in Streams |-> "none"]
  /\ kept = [s \in Streams |-> 0]
  /\ truncated = [s \in Streams |-> FALSE]
  /\ reads = 0

---------------------------------------------------------------------------
(* A read: the whitelists and the syntax of its arguments come first.      *)
(* Every command has pipes and tasks of its own; what is left of an        *)
(* earlier one is no longer looked at.                                     *)

Ends(kind) ==
  /\ pc' = "idle"
  /\ result' = [kind |-> kind, text |-> None]
  /\ UNCHANGED docs

Begin(q, first, task) ==
  /\ pc = "idle"
  /\ reads < MaxReads
  /\ reads' = reads + 1
  /\ request' = q
  /\ child' = first
  /\ lingering' = FALSE
  /\ written' = [s \in Streams |-> 0]
  /\ pipe' = [s \in Streams |-> 0]
  /\ reader' = [s \in Streams |-> task]
  /\ kept' = [s \in Streams |-> 0]
  /\ truncated' = [s \in Streams |-> FALSE]

Refuse(q) ==
  /\ q.refused
  /\ Begin(q, "none", "none")
  /\ Ends("refused")

SpawnFails(q) ==
  /\ ~q.refused
  /\ Begin(q, "none", "none")
  /\ Ends("failed")

Spawn(q) ==
  /\ ~q.refused
  /\ Begin(q, "running", "reading")
  /\ pc' = "waiting"
  /\ result' = [kind |-> "none", text |-> None]
  /\ UNCHANGED docs

---------------------------------------------------------------------------
(* The command.  It blocks when a pipe is full, and ends when it finds     *)
(* that nobody reads any more.                                             *)

Runner == <<pc, request, result, docs, streams, reads>>

Write(s) ==
  /\ child = "running"
  /\ written[s] < request.program[s]
  /\ IF reader[s] = "reading"
     THEN /\ pipe[s] < PIPE_CAPACITY
          /\ pipe' = [pipe EXCEPT ![s] = @ + 1]
          /\ written' = [written EXCEPT ![s] = @ + 1]
          /\ UNCHANGED <<child, lingering>>
     ELSE /\ child' = "failure"
          /\ UNCHANGED <<lingering, written, pipe>>
  /\ UNCHANGED Runner

Exit ==
  /\ child = "running"
  /\ request.program.exit # "never"
  /\ \A s \in Streams : written[s] = request.program[s]
  /\ child' = request.program.exit
  /\ lingering' \in BOOLEAN
  /\ UNCHANGED <<written, pipe>>
  /\ UNCHANGED Runner

\* --die-with-parent: the sandbox does not outlive its first process.
SandboxEnds ==
  /\ lingering
  /\ child # "running"
  /\ lingering' = FALSE
  /\ UNCHANGED <<child, written, pipe>>
  /\ UNCHANGED Runner

---------------------------------------------------------------------------
(* read_limited: it reads to the end of the stream, whatever it keeps.     *)

Kept(s, n) == LesserOf(kept[s] + n, ByteLimit)

\* (mistake: reaching the limit counts as truncation)
TruncatesEarly(s, n) == truncated[s] \/ kept[s] + n >= ByteLimit

Truncates(s, n) == truncated[s] \/ kept[s] + n > ByteLimit

ReadChunk(s, n) ==
  /\ reader[s] = "reading"
  /\ n <= pipe[s]
  /\ pipe' = [pipe EXCEPT ![s] = @ - n]
  /\ kept' = [kept EXCEPT ![s] = Kept(s, n)]
  /\ truncated' = [truncated EXCEPT ![s] = Truncates(s, n)]
  /\ UNCHANGED <<pc, request, result, docs, child, lingering, written, reader, reads>>

\* (mistake: nothing is read once the limit is reached)
ReadToLimit(s, n) == kept[s] < ByteLimit /\ ReadChunk(s, n)

Read(s, n) == ReadChunk(s, n)

TaskEnds(s, how) ==
  /\ reader[s] = "reading"
  /\ reader' = [reader EXCEPT ![s] = how]
  /\ UNCHANGED <<pc, request, result, docs, command, kept, truncated, reads>>

ReadEnds(s) ==
  /\ pipe[s] = 0
  /\ child # "running"
  /\ ~lingering
  /\ TaskEnds(s, "ended")

ReadFails(s) == TaskEnds(s, "failed")

Aborted == [s \in Streams |-> IF reader[s] = "reading" THEN "aborted" ELSE reader[s]]

---------------------------------------------------------------------------
(* run_in_bwrap: the wait with its timeout, then the two tasks.            *)

WaitReturns ==
  /\ pc = "waiting"
  /\ child # "running"
  /\ pc' = "stdout"
  /\ UNCHANGED <<request, result, docs, command, streams, reads>>

\* The command is left to itself.
WaitFails ==
  /\ pc = "waiting"
  /\ Ends("wait")
  /\ reader' = Aborted
  /\ UNCHANGED <<request, command, kept, truncated, reads>>

\* The command may have ended a moment before.
TimesOut ==
  /\ pc = "waiting"
  /\ pc' = "killing"
  /\ reader' = Aborted
  /\ UNCHANGED <<request, result, docs, command, kept, truncated, reads>>

\* (mistake: the command is told to go, and not waited for)
KillOnly ==
  /\ pc = "killing"
  /\ Ends("timeout")
  /\ UNCHANGED <<request, command, streams, reads>>

Kill ==
  /\ pc = "killing"
  /\ child' = IF child = "running" THEN "killed" ELSE child
  /\ Ends("timeout")
  /\ UNCHANGED <<request, lingering, written, pipe, streams, reads>>

\* The caller is told of the timeout either way.
KillFails ==
  /\ pc = "killing"
  /\ Ends("unkilled")
  /\ UNCHANGED <<request, command, streams, reads>>

\* (mistake: only a task that came to the end counts as done)
JoinsOnlyTheEnd ==
  /\ pc = "stdout"
  /\ reader["stdout"] = "ended"
  /\ pc' = "stderr"
  /\ UNCHANGED <<request, result, docs, command, streams, reads>>

JoinStdout ==
  /\ pc = "stdout"
  /\ reader["stdout"] # "reading"
  /\ IF reader["stdout"] = "failed"
     THEN Ends("failed")
     ELSE pc' = "stderr" /\ UNCHANGED <<result, docs>>
  /\ UNCHANGED <<request, command, streams, reads>>

JoinStderrFails ==
  /\ pc = "stderr"
  /\ reader["stderr"] = "failed"
  /\ Ends("failed")
  /\ UNCHANGED <<request, command, streams, reads>>

CommandFailed ==
  /\ pc = "stderr"
  /\ reader["stderr"] = "ended"
  /\ child = "failure"
  /\ Ends("failed")
  /\ UNCHANGED <<request, command, streams, reads>>

---------------------------------------------------------------------------
(* capture_to_store, and try_schema, which stores what it can parse.       *)

HasOutput(s) == kept[s] > 0 \/ truncated[s]

Selected == IF HasOutput("stdout") THEN "stdout" ELSE "stderr"

Captured ==
  [program |-> request.program, stream |-> Selected, kept |-> kept[Selected],
   truncated |-> truncated[Selected]]

Succeeded == pc = "stderr" /\ reader["stderr"] = "ended" /\ child = "success"

NotParsed ==
  /\ Succeeded
  /\ request.schema /\ ~request.parses
  /\ Ends("unparsed")
  /\ UNCHANGED <<request, command, streams, reads>>

\* (mistake: it does not matter how the command ended)
StoreAnyway ==
  /\ pc = "stderr"
  /\ reader["stderr"] = "ended"
  /\ pc' = "idle"
  /\ docs' = [docs EXCEPT ![request.doc] = Captured]
  /\ result' = [kind |-> "stored", text |-> Captured]
  /\ UNCHANGED <<request, command, streams, reads>>

Store ==
  /\ Succeeded
  /\ request.schema => request.parses
  /\ pc' = "idle"
  /\ docs' = [docs EXCEPT ![request.doc] = Captured]
  /\ result' = [kind |-> "stored", text |-> Captured]
  /\ UNCHANGED <<request, command, streams, reads>>

\* Ctrl+C drops the read, and the program ends; its sandbox with it.
Interrupt ==
  /\ pc # "over"
  /\ pc' = "over"
  /\ reader' = Aborted
  /\ child' = IF child = "running" THEN "killed" ELSE child
  /\ UNCHANGED <<request, result, docs, lingering, written, pipe, kept, truncated, reads>>

---------------------------------------------------------------------------
Continue ==
  \/ \E s \in Streams : \/ Write(s) \/ ReadEnds(s)
                        \/ \E n \in 1..PIPE_CAPACITY : Read(s, n)
  \/ Exit \/ SandboxEnds
  \/ WaitReturns \/ Kill
  \/ JoinStdout \/ JoinStderrFails \/ CommandFailed
  \/ NotParsed \/ Store

Next ==
  \/ \E q \in Requests : Refuse(q) \/ SpawnFails(q) \/ Spawn(q)
  \/ Continue
  \/ \E s \in Streams : ReadFails(s)
  \/ WaitFails
  \/ TimesOut
  \/ KillFails
  \/ Interrupt

Spec == Init /\ [][Next]_vars

(* The tasks run, what the command does it does in the end, and the        *)
(* sandbox clears up behind it.  The timeout is only counted on for a      *)
(* command that never ends by itself.                                      *)
FairSpec ==
  /\ Spec
  /\ WF_vars(Continue \/ (TimesOut /\ request.program.exit = "never"))

---------------------------------------------------------------------------
Texts ==
  [program : Programs, stream : Streams, kept : 0..ByteLimit, truncated : BOOLEAN]

TypeOK ==
  /\ pc \in {"idle", "waiting", "killing", "stdout", "stderr", "over"}
  /\ request \in Requests \cup {None}
  /\ pc \notin {"idle", "over"} => request # None
  /\ result \in [kind : {"none", "refused", "failed", "wait", "timeout", "unkilled", "unparsed",
                        "stored"},
                 text : Texts \cup {None}]
  /\ docs \in [Docs -> Texts \cup {None}]
  /\ child \in {"none", "running", "success", "failure", "killed"}
  /\ child = "running" => request # None
  /\ lingering \in BOOLEAN
  /\ written \in [Streams -> Nat]
  /\ pipe \in [Streams -> 0..PIPE_CAPACITY]
  /\ reader \in [Streams -> {"none", "reading", "ended", "failed", "aborted"}]
  /\ kept \in [Streams -> 0..ByteLimit]
  /\ truncated \in [Streams -> BOOLEAN]
  /\ reads \in 0..MaxReads

(* What the whole output of a program is kept as.                          *)
WholeText(p) ==
  LET s == IF p.stdout > 0 THEN "stdout" ELSE "stderr"
  IN  [program |-> p, stream |-> s, kept |-> LesserOf(p[s], ByteLimit),
       truncated |-> p[s] > ByteLimit]

(* A document is the output of a command that succeeded, from its first    *)
(* byte to its last or to the limit, and marked as cut exactly when it is: *)
(* however writing, reading, ending, timeout and interrupt interleave.     *)
DocsAreWhole ==
  \A d \in Docs : docs[d] # None =>
    /\ docs[d].program.exit = "success"
    /\ docs[d] = WholeText(docs[d].program)

(* No command is left running behind a read that has returned, unless      *)
(* waiting for it or killing it failed.                                    *)
LeftToItself == result.kind \in {"wait", "unkilled"}

CommandOver == pc = "idle" /\ ~LeftToItself => child # "running"

(* A command is never kept from ending by what it writes, though only the  *)
(* beginning is kept and one pipe is joined after the other: it does not   *)
(* take the timeout to end it.                                             *)
OutputNeverBlocks ==
  child = "running" /\ request.program.exit # "never"
    ~> child # "running" \/ LeftToItself

(* A read returns, with no timeout after the command itself has ended.     *)
ReadReturns == pc \notin {"idle", "over"} ~> pc \in {"idle", "over"}

---------------------------------------------------------------------------
(* Why the documents are whole: where every chunk is.                      *)

TakenBy(s) == written[s] - pipe[s]

StreamInv ==
  \A s \in Streams :
    /\ pipe[s] <= written[s]
    /\ kept[s] = LesserOf(TakenBy(s), ByteLimit)
    /\ truncated[s] <=> TakenBy(s) > ByteLimit
    /\ reader[s] = "ended" => pipe[s] = 0 /\ child # "running"

CommandInv ==
  /\ pc \in {"waiting", "stdout", "stderr"} =>
       \A s \in Streams : reader[s] \in {"reading", "ended", "failed"}
  /\ pc \in {"stdout", "stderr"} => child # "running"
  /\ pc = "stderr" => reader["stdout"] = "ended"
  /\ child = "success" =>
       request.program.exit = "success" /\ \A s \in Streams : written[s] = request.program[s]

RunnerInv == TypeOK /\ StreamInv /\ CommandInv /\ DocsAreWhole /\ CommandOver
=============================================================================
