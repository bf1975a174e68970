----------------------------- MODULE ExecRunner -----------------------------
(***************************************************************************)
(* From a proposal to a finished command: the review and confirmation      *)
(* prompts of the interactive session, cps-exec's approval gate, its       *)
(* polling wait with a timeout, and the audit log.                         *)
(*                                                                         *)
(*   pc            "prompt", "review", "confirm" or "gate" before the      *)
(*                 command; "spawn", "poll", "check", "kill", "drain" and  *)
(*                 "audit" in execute; "over" after the session            *)
(*   enabled       approval.execute_enabled                                *)
(*   proposal      the proposal under review                               *)
(*   confirmation  what is passed to execute                               *)
(*   reply         how the last review ended                               *)
(*   log           the audit log                                           *)
(*   expired       the timeout has elapsed                                 *)
(*                                                                         *)
(* The command writes its output into a pipe that is only read once it has *)
(* ended; what it leaves running in the background holds the same pipe.    *)
(*                                                                         *)
(*   child         "none", "running", "writing" (blocked until the pipe    *)
(*                 has room), "exited", "signalled" or "killed"            *)
(*   holders       who has the pipe's write end open                       *)
(*   pipe          chunks in the pipe                                      *)
(*   written       chunks ever written to it (history variable)            *)
(*   output        chunks read from it                                     *)
(*   answer, typed what the human answered for this proposal (history)     *)
(*   started       the commands that were started (history)                *)
(***************************************************************************)
EXTENDS Naturals, Sequences, FiniteSetsExt

CONSTANTS
  Proposals,       \* [text, risk]: argv joined by blanks, the risk the model
                   \* declares, which is the one the prompts and the gate go by
  Lines,           \* what a human may type, sequences of words and blanks
  PIPE_CAPACITY,   \* chunks a pipe holds
  MaxOutput,       \* bound: chunks a command writes
  MaxRuns,         \* bound: commands started, and audited, in a session
  None

Risks == {"Low", "Medium", "High", "Critical"}

ASSUME ExecAssumption ==
  /\ Proposals \subseteq [text : Lines, risk : Risks]
  /\ PIPE_CAPACITY \in Nat \ {0}
  /\ MaxOutput \in Nat
  /\ MaxRuns \in Nat
  /\ None \notin Proposals
  /\ None \notin Lines

VARIABLES pc, enabled, proposal, confirmation, reply, log, expired,
          child, holders, pipe, written, output, answer, typed, started

human == <<answer, typed>>
command == <<child, holders, pipe, written>>
vars == <<pc, enabled, proposal, confirmation, reply, log, expired,
          command, output, human, started>>

Blank == " "

\* str::trim
Trim(line) ==
  LET words == {i \in DOMAIN line : line[i] # Blank}
  IN  IF words = {} THEN <<>> ELSE SubSeq(line, Min(words), Max(words))

Yes == <<"yes">>

Alive == child \in {"running", "writing"}

Init ==
  /\ pc = "prompt"
  /\ enabled \in BOOLEAN
  /\ proposal = None
  /\ confirmation = None
  /\ reply = "none"
  /\ log = <<>>
  /\ expired = FALSE
  /\ child = "none"
  /\ holders = {}
  /\ pipe = 0
  /\ written = 0
  /\ output = 0
  /\ answer = "none"
  /\ typed = None
  /\ started = <<>>

---------------------------------------------------------------------------
(* The prompts.  A proposal the policy rejects never gets here (AgentLoop).*)

Ends(how) ==
  /\ pc' = "prompt"
  /\ reply' = how
  /\ UNCHANGED <<enabled, proposal, confirmation, expired>>

\* A turn of the agent ends with a proposal; nothing is left of the one before.
Offer(p) ==
  /\ pc = "prompt"
  /\ ~Alive
  /\ Len(started) < MaxRuns
  /\ Len(log) < MaxRuns
  /\ pc' = "review"
  /\ proposal' = p
  /\ confirmation' = None
  /\ reply' = "none"
  /\ expired' = FALSE
  /\ child' = "none"
  /\ holders' = {}
  /\ pipe' = 0
  /\ written' = 0
  /\ output' = 0
  /\ answer' = "none"
  /\ typed' = None
  /\ UNCHANGED <<enabled, log, started>>

Decline(how) ==
  /\ pc = "review"
  /\ answer' = how
  /\ IF how = "reject"
     THEN Ends("rejected")
     ELSE /\ pc' = "over"
          /\ UNCHANGED <<enabled, proposal, confirmation, reply, expired>>
  /\ UNCHANGED <<log, command, output, typed, started>>

AcceptDisabled ==
  /\ pc = "review"
  /\ ~enabled
  /\ answer' = "accept"
  /\ Ends("disabled")
  /\ UNCHANGED <<log, command, output, typed, started>>

Accept ==
  /\ pc = "review"
  /\ enabled
  /\ answer' = "accept"
  /\ pc' = IF proposal.risk \in {"Low", "Medium"} THEN "gate" ELSE "confirm"
  /\ UNCHANGED <<enabled, proposal, confirmation, reply, log, expired, command,
                 output, typed, started>>

\* A High risk needs a "yes", a Critical one whatever the gate will accept.
Confirm(line) ==
  /\ pc = "confirm"
  /\ proposal.risk = "Critical" \/ Trim(line) = Yes
  /\ typed' = line
  /\ confirmation' = Trim(line)
  /\ pc' = "gate"
  /\ UNCHANGED <<enabled, proposal, reply, log, expired, command, output,
                 answer, started>>

ConfirmRejected ==
  /\ pc = "confirm"
  /\ \/ UNCHANGED typed
     \/ /\ proposal.risk = "High"
        /\ \E line \in Lines : Trim(line) # Yes /\ typed' = line
  /\ Ends("rejected")
  /\ UNCHANGED <<log, command, output, answer, started>>

---------------------------------------------------------------------------
(* validate_approval; the session always passes approved = true.           *)

\* (mistake: any confirmation will do)
ApprovalAny(p, c) ==
  CASE p.risk \in {"Low", "Medium"} -> "ok"
    [] p.risk = "High" -> IF c = Yes THEN "ok" ELSE "HighRiskNoConfirmation"
    [] p.risk = "Critical" -> IF c = None THEN "CriticalRiskNoConfirmation" ELSE "ok"

Approval(p, c) ==
  IF p.risk = "High" /\ c # Yes THEN "HighRiskNoConfirmation"
  ELSE IF p.risk = "Critical" /\ c = None THEN "CriticalRiskNoConfirmation"
  ELSE IF p.risk = "Critical" /\ c # p.text THEN "CriticalRiskMismatch"
  ELSE "ok"

Gate ==
  /\ pc = "gate"
  /\ IF Approval(proposal, confirmation) = "ok"
     THEN /\ pc' = "spawn"
          /\ UNCHANGED <<enabled, proposal, confirmation, reply, expired>>
     ELSE Ends(Approval(proposal, confirmation))
  /\ UNCHANGED <<log, command, output, human, started>>

---------------------------------------------------------------------------
(* run_argv.  try_wait and the look at the clock are separate steps, and   *)
(* the command runs on between them.                                       *)

Step(to) ==
  /\ pc' = to
  /\ UNCHANGED <<enabled, proposal, confirmation, reply, expired>>

Spawn ==
  /\ pc = "spawn"
  /\ child' = "running"
  /\ holders' = {"child"}
  /\ started' = Append(started, proposal)
  /\ Step("poll")
  /\ UNCHANGED <<log, pipe, written, output, human>>

SpawnFails ==
  /\ pc = "spawn"
  /\ Ends("Spawn")
  /\ UNCHANGED <<log, command, output, human, started>>

\* An error of kind TimedOut is taken for the runner's own.
SpawnTimesOut ==
  /\ pc = "spawn"
  /\ pc' = "audit"
  /\ reply' = "timed_out"
  /\ UNCHANGED <<enabled, proposal, confirmation, log, expired, command, output,
                 human, started>>

Poll ==
  /\ pc = "poll"
  /\ Step(IF Alive THEN "check" ELSE "drain")
  /\ UNCHANGED <<log, command, output, human, started>>

\* waitpid fails; the command is left to itself.
PollFails ==
  /\ pc = "poll"
  /\ Ends("Spawn")
  /\ UNCHANGED <<log, command, output, human, started>>

\* (mistake: the clock is only looked at after the command has ended)
CheckLate ==
  /\ pc = "check"
  /\ Step(IF expired /\ ~Alive THEN "kill" ELSE "poll")
  /\ UNCHANGED <<log, command, output, human, started>>

Check ==
  /\ pc = "check"
  /\ Step(IF expired THEN "kill" ELSE "poll")
  /\ UNCHANGED <<log, command, output, human, started>>

\* (mistake: the command is told to go, and not waited for)
KillOnly ==
  /\ pc = "kill"
  /\ pc' = "audit"
  /\ reply' = "timed_out"
  /\ UNCHANGED <<enabled, proposal, confirmation, log, expired, command, output,
                 human, started>>

\* kill and wait; a command that ended meanwhile is only waited for.
Kill ==
  /\ pc = "kill"
  /\ child' = IF Alive THEN "killed" ELSE child
  /\ holders' = holders \ {"child"}
  /\ pc' = "audit"
  /\ reply' = "timed_out"
  /\ UNCHANGED <<enabled, proposal, confirmation, log, expired, pipe, written,
                 output, human, started>>

\* wait_with_output reads until every write end is closed.
DrainSome ==
  /\ pc = "drain"
  /\ pipe > 0
  /\ pipe' = pipe - 1
  /\ output' = output + 1
  /\ UNCHANGED <<pc, enabled, proposal, confirmation, reply, log, expired, child,
                 holders, written, human, started>>

\* (mistake: the read stops when the pipe is empty)
DrainEndEarly ==
  /\ pc = "drain"
  /\ pipe = 0
  /\ pc' = "audit"
  /\ reply' = child
  /\ UNCHANGED <<enabled, proposal, confirmation, log, expired, command, output,
                 human, started>>

DrainEnd ==
  /\ pc = "drain"
  /\ pipe = 0
  /\ holders = {}
  /\ pc' = "audit"
  /\ reply' = child
  /\ UNCHANGED <<enabled, proposal, confirmation, log, expired, command, output,
                 human, started>>

---------------------------------------------------------------------------
(* The audit entry: best effort.                                           *)

Entry == [proposal |-> proposal, executed |-> TRUE, end |-> reply]

\* (mistake: the entry is written again)
AuditAgain ==
  /\ pc = "audit"
  /\ log' = Append(log, Entry)
  /\ UNCHANGED <<pc, enabled, proposal, confirmation, reply, expired, command,
                 output, human, started>>

Audit ==
  /\ pc = "audit"
  /\ log' = Append(log, Entry)
  /\ Ends(reply)
  /\ UNCHANGED <<command, output, human, started>>

AuditFails ==
  /\ pc = "audit"
  /\ Ends(reply)
  /\ UNCHANGED <<log, command, output, human, started>>

---------------------------------------------------------------------------
(* The command, and what it leaves running.                                *)

Runs == UNCHANGED <<pc, enabled, proposal, confirmation, reply, log, expired,
                    output, human, started>>

\* Once execute has returned nobody can read what is written.
HasReader == pc \notin {"prompt", "over"}

ChildWants ==
  /\ child = "running"
  /\ written < MaxOutput
  /\ child' = "writing"
  /\ UNCHANGED <<holders, pipe, written>>
  /\ Runs

ChildWrites ==
  /\ child = "writing"
  /\ HasReader
  /\ pipe < PIPE_CAPACITY
  /\ child' = "running"
  /\ pipe' = pipe + 1
  /\ written' = written + 1
  /\ UNCHANGED holders
  /\ Runs

ChildForks ==
  /\ child = "running"
  /\ holders' = holders \cup {"background"}
  /\ UNCHANGED <<child, pipe, written>>
  /\ Runs

\* It exits on its own, unless it is blocked in a write; a signal (Ctrl+C goes
\* to it as well) ends it anywhere.
ChildEnds ==
  /\ \/ child = "running" /\ child' = "exited"
     \/ Alive /\ child' = "signalled"
  /\ holders' = holders \ {"child"}
  /\ UNCHANGED <<pipe, written>>
  /\ Runs

BackgroundWrites ==
  /\ "background" \in holders
  /\ pipe < PIPE_CAPACITY
  /\ written + (IF child = "writing" THEN 1 ELSE 0) < MaxOutput
  /\ HasReader
  /\ pipe' = pipe + 1
  /\ written' = written + 1
  /\ UNCHANGED <<child, holders>>
  /\ Runs

BackgroundEnds ==
  /\ "background" \in holders
  /\ holders' = holders \ {"background"}
  /\ UNCHANGED <<child, pipe, written>>
  /\ Runs

Expire ==
  /\ pc \in {"poll", "check"}
  /\ ~expired
  /\ expired' = TRUE
  /\ UNCHANGED <<pc, enabled, proposal, confirmation, reply, log, command, output,
                 human, started>>

---------------------------------------------------------------------------
Execute ==
  \/ Gate \/ Spawn \/ SpawnFails \/ SpawnTimesOut
  \/ Poll \/ PollFails \/ Check \/ Kill
  \/ DrainSome \/ DrainEnd
  \/ Audit \/ AuditFails

Command ==
  \/ ChildWants \/ ChildWrites \/ ChildForks \/ ChildEnds
  \/ BackgroundWrites \/ BackgroundEnds

Next ==
  \/ \E p \in Proposals : Offer(p)
  \/ \E how \in {"reject", "quit"} : Decline(how)
  \/ AcceptDisabled
  \/ Accept
  \/ \E line \in Lines : Confirm(line)
  \/ ConfirmRejected
  \/ Execute
  \/ Command
  \/ Expire

Spec == Init /\ [][Next]_vars

(* execute runs on without the human, and time passes.  Nothing makes a    *)
(* command, or what it leaves behind, come to an end.                      *)
FairSpec == Spec /\ WF_vars(Execute) /\ WF_vars(Expire)

---------------------------------------------------------------------------
Executing == pc \in {"spawn", "poll", "check", "kill", "drain", "audit"}

TypeOK ==
  /\ pc \in {"prompt", "review", "confirm", "gate", "over"} \/ Executing
  /\ enabled \in BOOLEAN
  /\ proposal \in Proposals \cup {None}
  /\ pc # "prompt" /\ pc # "over" => proposal # None
  /\ reply \in {"none", "rejected", "disabled", "HighRiskNoConfirmation",
                "CriticalRiskNoConfirmation", "CriticalRiskMismatch", "Spawn",
                "timed_out", "exited", "signalled"}
  /\ log \in Seq([proposal : Proposals, executed : {TRUE},
                  end : {"timed_out", "exited", "signalled"}])
  /\ expired \in BOOLEAN
  /\ child \in {"none", "running", "writing", "exited", "signalled", "killed"}
  /\ holders \subseteq {"child", "background"}
  /\ pipe \in 0..PIPE_CAPACITY
  /\ written \in 0..MaxOutput
  /\ output \in 0..MaxOutput
  /\ answer \in {"none", "accept", "reject", "quit"}
  /\ typed \in Lines \cup {None}
  /\ started \in Seq(Proposals)

(* A command runs only if execution is enabled, the human accepted this    *)
(* proposal, and confirmed it as its declared risk asks: with a yes, or    *)
(* with the whole command.  The prompts and the gate have to cover for     *)
(* each other.                                                             *)
Confirmed(p, line) ==
  /\ p.risk = "High" => line # None /\ Trim(line) = Yes
  /\ p.risk = "Critical" => line # None /\ Trim(line) = p.text

OnlyApprovedRuns ==
  child # "none" => enabled /\ answer = "accept" /\ Confirmed(proposal, typed)

(* Once the human is asked again nothing of the command is left running in *)
(* the foreground, unless waiting for it failed.                           *)
NothingLeftRunning == pc = "prompt" /\ reply # "Spawn" => ~Alive

(* A result that is no timeout comes with all the command and its children *)
(* ever wrote, though the pipe is only read after the end; and a command   *)
(* whose output is read has ended on its own.                              *)
OutputComplete ==
  pc \in {"audit", "prompt"} /\ reply \in {"exited", "signalled"} =>
    /\ output = written
    /\ child = reply

(* The log lists commands that came to an end in the order they were       *)
(* started, each once: entries may be missing, none is made up or repeated.*)
Ended == {i \in DOMAIN log : log[i].end # "timed_out"}

InOrder(place) ==
  /\ \A i \in Ended : started[place[i]] = log[i].proposal
  /\ \A i, j \in Ended : i < j => place[i] < place[j]

AuditOrdered == \E place \in [Ended -> DOMAIN started] : InOrder(place)

(* execute returns, the timeout ending every wait for the command, unless  *)
(* something the command left in the background still holds the pipe.      *)
ExecuteReturns == Executing ~> (~Executing \/ "background" \in holders)

---------------------------------------------------------------------------
(* Why the above holds: the inductive strengthening.                       *)

(* What the human said is settled before the command starts, and nothing   *)
(* of an earlier command is left by then.                                  *)
ApprovalInv ==
  /\ pc \in {"review", "confirm", "gate", "spawn"} => child = "none"
  /\ pc \in {"confirm", "gate"} \/ Executing => enabled /\ answer = "accept"
  /\ pc = "review" => confirmation = None
  /\ pc = "confirm" => proposal.risk \notin {"Low", "Medium"} /\ confirmation = None
  /\ pc = "gate" /\ proposal.risk \notin {"Low", "Medium"} =>
       typed # None /\ confirmation = Trim(typed)
  /\ Executing => Confirmed(proposal, typed)
  /\ OnlyApprovedRuns

(* Where the output is, and who can still add to it.                       *)
CommandInv ==
  /\ "child" \in holders <=> Alive
  /\ child = "none" => holders = {}
  /\ written = pipe + output
  /\ child = "writing" => written < MaxOutput
  /\ pc \in {"check", "poll", "kill"} => child \in {"running", "writing", "exited", "signalled"}
  /\ pc = "drain" => child \in {"exited", "signalled"}
  /\ pc \in {"poll", "check", "kill", "drain", "audit"} => proposal # None
  /\ pc = "audit" => ~Alive /\ reply \in {"timed_out", "exited", "signalled"}
  /\ pc \in {"audit", "prompt"} /\ reply \in {"exited", "signalled"} =>
       child = reply /\ holders = {} /\ pipe = 0
  /\ NothingLeftRunning

ExecInv == TypeOK /\ ApprovalInv /\ CommandInv

(* A command that may yet be entered was started last, and is not one of   *)
(* those that are.                                                         *)
ToBeEntered ==
  pc \in {"poll", "check", "kill", "drain"} \/ (pc = "audit" /\ reply # "timed_out")

AuditInv ==
  /\ ToBeEntered => started # <<>> /\ started[Len(started)] = proposal
  /\ \E place \in [Ended -> DOMAIN started] :
       /\ InOrder(place)
       /\ ToBeEntered => \A i \in Ended : place[i] < Len(started)
=============================================================================
