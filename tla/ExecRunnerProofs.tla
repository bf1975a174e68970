-------------------------- MODULE ExecRunnerProofs --------------------------
(***************************************************************************)
(* The approval gate and the polling wait of ExecRunner, for every set of  *)
(* proposals, every pipe capacity and every number of commands.            *)
(*                                                                         *)
(* The inductive invariant ExecInv has two parts beside the types:         *)
(* ApprovalInv follows what the human said through the prompts and the     *)
(* gate, CommandInv the command's output and who can still write to it.    *)
(* AuditInv, on top of it, relates the log to the commands started.        *)
(***************************************************************************)
EXTENDS ExecRunner, TLAPS

(* The initial state satisfies the invariant.                              *)
LEMMA InitInv == Init => ExecInv
<1> SUFFICES ASSUME Init PROVE ExecInv
  OBVIOUS
<1>1. TypeOK
  <2>1. 0 \in 0..MaxOutput /\ 0 \in 0..PIPE_CAPACITY
    BY ExecAssumption
  <2>2. /\ log \in Seq([proposal : Proposals, executed : {TRUE},
                       end : {"timed_out", "exited", "signalled"}])
        /\ started \in Seq(Proposals)
    BY DEF Init
  <2> QED BY <2>1, <2>2 DEF Init, TypeOK
<1>2. ApprovalInv
  BY DEF Init, ApprovalInv, Executing, OnlyApprovedRuns
<1>3. CommandInv
  BY DEF Init, CommandInv, Alive, NothingLeftRunning
<1> QED BY <1>1, <1>2, <1>3 DEF ExecInv

---------------------------------------------------------------------------
(* The prompts keep the invariant.                                         *)
LEMMA PromptsKeep ==
  ASSUME ExecInv,
         \/ \E p \in Proposals : Offer(p)
         \/ \E how \in {"reject", "quit"} : Decline(how)
         \/ AcceptDisabled \/ Accept
         \/ \E line \in Lines : Confirm(line)
         \/ ConfirmRejected
  PROVE  ExecInv'
<1> USE ExecAssumption DEF ExecInv, Ends, command, human
<1>1. ASSUME NEW p \in Proposals, Offer(p) PROVE ExecInv'
  <2>1. TypeOK'
    <3>1. 0 \in 0..MaxOutput /\ 0 \in 0..PIPE_CAPACITY
      OBVIOUS
    <3> QED BY <1>1, <3>1 DEF TypeOK, Offer
  <2>2. ApprovalInv'
    BY <1>1 DEF ApprovalInv, Offer, Executing, OnlyApprovedRuns
  <2>3. CommandInv'
    BY <1>1 DEF CommandInv, Offer, Alive, NothingLeftRunning
  <2> QED BY <2>1, <2>2, <2>3
<1>2. ASSUME NEW how \in {"reject", "quit"}, Decline(how) PROVE ExecInv'
  <2>1. TypeOK'
    BY <1>2 DEF TypeOK, Decline, Executing
  <2>2. ApprovalInv'
    BY <1>2 DEF ApprovalInv, Decline, Executing, OnlyApprovedRuns
  <2>3. CommandInv'
    BY <1>2 DEF CommandInv, ApprovalInv, TypeOK, Decline, Alive, NothingLeftRunning
  <2> QED BY <2>1, <2>2, <2>3
<1>3. CASE AcceptDisabled
  <2>1. TypeOK'
    BY <1>3 DEF TypeOK, AcceptDisabled, Executing
  <2>2. ApprovalInv'
    BY <1>3 DEF ApprovalInv, AcceptDisabled, Executing, OnlyApprovedRuns
  <2>3. CommandInv'
    BY <1>3 DEF CommandInv, ApprovalInv, TypeOK, AcceptDisabled, Alive, NothingLeftRunning
  <2> QED BY <2>1, <2>2, <2>3
<1>4. CASE Accept
  <2>1. TypeOK'
    BY <1>4 DEF TypeOK, Accept, Executing
  <2>2. ApprovalInv'
    BY <1>4 DEF ApprovalInv, Accept, Executing, OnlyApprovedRuns
  <2>3. CommandInv'
    BY <1>4 DEF CommandInv, Accept, Alive, NothingLeftRunning
  <2> QED BY <2>1, <2>2, <2>3
<1>5. ASSUME NEW line \in Lines, Confirm(line) PROVE ExecInv'
  <2>1. TypeOK'
    BY <1>5 DEF TypeOK, Confirm, Executing
  <2>2. ApprovalInv'
    BY <1>5 DEF ApprovalInv, Confirm, Executing, OnlyApprovedRuns
  <2>3. CommandInv'
    BY <1>5 DEF CommandInv, Confirm, Alive, NothingLeftRunning
  <2> QED BY <2>1, <2>2, <2>3
<1>6. CASE ConfirmRejected
  <2>1. TypeOK'
    BY <1>6 DEF TypeOK, ConfirmRejected, Executing
  <2>2. ApprovalInv'
    BY <1>6 DEF ApprovalInv, ConfirmRejected, Executing, OnlyApprovedRuns
  <2>3. CommandInv'
    BY <1>6 DEF CommandInv, ApprovalInv, ConfirmRejected, Alive, NothingLeftRunning
  <2> QED BY <2>1, <2>2, <2>3
<1> QED BY <1>1, <1>2, <1>3, <1>4, <1>5, <1>6

(* So does the gate: what it lets through was confirmed as its risk asks,  *)
(* because at the gate the confirmation is the line the human typed.       *)
LEMMA GateKeeps == ExecInv /\ Gate => ExecInv'
<1> SUFFICES ASSUME ExecInv, Gate PROVE ExecInv'
  OBVIOUS
<1> USE ExecAssumption DEF ExecInv, Ends, command, human
<1>1. Approval(proposal, confirmation) = "ok" => Confirmed(proposal, typed)
  BY DEF Gate, Approval, ApprovalInv, Confirmed
<1>2. Approval(proposal, confirmation) \in
        {"ok", "HighRiskNoConfirmation", "CriticalRiskNoConfirmation", "CriticalRiskMismatch"}
  BY DEF Approval
<1>3. TypeOK'
  BY <1>2 DEF TypeOK, Gate, Executing
<1>4. ApprovalInv'
  BY <1>1 DEF ApprovalInv, Gate, Executing, OnlyApprovedRuns, Confirmed
<1>5. CommandInv'
  BY <1>2 DEF CommandInv, ApprovalInv, TypeOK, Gate, Alive, NothingLeftRunning
<1> QED BY <1>3, <1>4, <1>5

---------------------------------------------------------------------------
(* The steps of run_argv and of the audit keep the invariant.              *)
LEMMA ExecuteKeeps == ExecInv /\ Execute => ExecInv'
<1> SUFFICES ASSUME ExecInv, Execute PROVE ExecInv'
  OBVIOUS
<1> USE ExecAssumption DEF ExecInv, Ends, Step, command, human
<1>1. CASE Gate
  BY <1>1, GateKeeps
<1>2. CASE Spawn
  <2>1. TypeOK'
    BY <1>2 DEF TypeOK, Spawn, Executing
  <2>2. ApprovalInv'
    BY <1>2 DEF ApprovalInv, Spawn, Executing, OnlyApprovedRuns, Confirmed
  <2>3. CommandInv'
    BY <1>2 DEF CommandInv, ApprovalInv, TypeOK, Spawn, Executing, Alive, NothingLeftRunning
  <2> QED BY <2>1, <2>2, <2>3
<1>3. CASE SpawnFails
  <2>1. TypeOK'
    BY <1>3 DEF TypeOK, SpawnFails, Executing
  <2>2. ApprovalInv'
    BY <1>3 DEF ApprovalInv, SpawnFails, Executing, OnlyApprovedRuns
  <2>3. CommandInv'
    BY <1>3 DEF CommandInv, SpawnFails, Alive, NothingLeftRunning
  <2> QED BY <2>1, <2>2, <2>3
<1>4. CASE SpawnTimesOut
  <2>1. TypeOK'
    BY <1>4 DEF TypeOK, SpawnTimesOut, Executing
  <2>2. ApprovalInv'
    BY <1>4 DEF ApprovalInv, SpawnTimesOut, Executing, OnlyApprovedRuns, Confirmed
  <2>3. CommandInv'
    BY <1>4 DEF CommandInv, ApprovalInv, TypeOK, SpawnTimesOut, Alive, NothingLeftRunning
  <2> QED BY <2>1, <2>2, <2>3
<1>5. CASE Poll
  <2>1. TypeOK'
    BY <1>5 DEF TypeOK, Poll, Executing
  <2>2. ApprovalInv'
    BY <1>5 DEF ApprovalInv, Poll, Executing, OnlyApprovedRuns, Confirmed
  <2>3. CommandInv'
    BY <1>5 DEF CommandInv, Poll, Alive, NothingLeftRunning
  <2> QED BY <2>1, <2>2, <2>3
<1>6. CASE PollFails
  <2>1. TypeOK'
    BY <1>6 DEF TypeOK, PollFails, Executing
  <2>2. ApprovalInv'
    BY <1>6 DEF ApprovalInv, PollFails, Executing, OnlyApprovedRuns
  <2>3. CommandInv'
    BY <1>6 DEF CommandInv, PollFails, Alive, NothingLeftRunning
  <2> QED BY <2>1, <2>2, <2>3
<1>7. CASE Check
  <2>1. TypeOK'
    BY <1>7 DEF TypeOK, Check, Executing
  <2>2. ApprovalInv'
    BY <1>7 DEF ApprovalInv, Check, Executing, OnlyApprovedRuns, Confirmed
  <2>3. CommandInv'
    BY <1>7 DEF CommandInv, Check, Alive, NothingLeftRunning
  <2> QED BY <2>1, <2>2, <2>3
<1>8. CASE Kill
  <2>1. TypeOK'
    BY <1>8 DEF TypeOK, Kill, Executing
  <2>2. ApprovalInv'
    BY <1>8 DEF ApprovalInv, Kill, Executing, OnlyApprovedRuns, Confirmed, Alive
  <2>3. CommandInv'
    BY <1>8 DEF CommandInv, TypeOK, Kill, Alive, NothingLeftRunning
  <2> QED BY <2>1, <2>2, <2>3
<1>9. CASE DrainSome
  <2>1. TypeOK'
    BY <1>9 DEF TypeOK, CommandInv, DrainSome, Executing
  <2>2. ApprovalInv'
    BY <1>9 DEF ApprovalInv, DrainSome, Executing, OnlyApprovedRuns, Confirmed
  <2>3. CommandInv'
    BY <1>9 DEF CommandInv, TypeOK, DrainSome, Alive, NothingLeftRunning
  <2> QED BY <2>1, <2>2, <2>3
<1>10. CASE DrainEnd
  <2>1. TypeOK'
    BY <1>10 DEF TypeOK, CommandInv, DrainEnd, Executing
  <2>2. ApprovalInv'
    BY <1>10 DEF ApprovalInv, DrainEnd, Executing, OnlyApprovedRuns, Confirmed
  <2>3. CommandInv'
    BY <1>10 DEF CommandInv, DrainEnd, Alive, NothingLeftRunning
  <2> QED BY <2>1, <2>2, <2>3
<1>11. CASE Audit
  <2>1. TypeOK'
    <3> DEFINE Entries == [proposal : Proposals, executed : {TRUE},
                           end : {"timed_out", "exited", "signalled"}]
    <3>1. Entry \in Entries /\ log \in Seq(Entries) /\ log' = Append(log, Entry)
      BY <1>11 DEF Entry, Audit, TypeOK, CommandInv
    <3>2. log' \in Seq(Entries)
      <4> HIDE DEF Entries
      <4> QED BY <3>1
    <3> QED BY <1>11, <3>2, ZenonT(30) DEF TypeOK, Audit, Executing
  <2>2. ApprovalInv'
    BY <1>11 DEF ApprovalInv, Audit, Executing, OnlyApprovedRuns
  <2>3. CommandInv'
    BY <1>11 DEF CommandInv, Audit, Alive, NothingLeftRunning
  <2> QED BY <2>1, <2>2, <2>3
<1>12. CASE AuditFails
  <2>1. TypeOK'
    BY <1>12 DEF TypeOK, AuditFails, Executing
  <2>2. ApprovalInv'
    BY <1>12 DEF ApprovalInv, AuditFails, Executing, OnlyApprovedRuns
  <2>3. CommandInv'
    BY <1>12 DEF CommandInv, AuditFails, Alive, NothingLeftRunning
  <2> QED BY <2>1, <2>2, <2>3
<1> QED
  BY <1>1, <1>2, <1>3, <1>4, <1>5, <1>6, <1>7, <1>8, <1>9, <1>10, <1>11, <1>12 DEF Execute

---------------------------------------------------------------------------
(* The command and what it leaves running keep the invariant.              *)
LEMMA CommandKeeps == ExecInv /\ Command => ExecInv'
<1> SUFFICES ASSUME ExecInv, Command PROVE ExecInv'
  OBVIOUS
<1> USE ExecAssumption DEF ExecInv, Runs, command, human
<1>1. child # "none" /\ child' # "none"
  BY DEF Command, ChildWants, ChildWrites, ChildForks, ChildEnds, BackgroundWrites,
         BackgroundEnds, CommandInv, Alive
<1>2. Runs
  BY DEF Command, ChildWants, ChildWrites, ChildForks, ChildEnds, BackgroundWrites,
         BackgroundEnds
<1>3. ApprovalInv'
  BY <1>1, <1>2 DEF ApprovalInv, Executing, OnlyApprovedRuns, Confirmed
<1>4. TypeOK'
  <2>1. /\ child' \in {"none", "running", "writing", "exited", "signalled", "killed"}
        /\ holders' \subseteq {"child", "background"}
    BY DEF TypeOK, Command, ChildWants, ChildWrites, ChildForks, ChildEnds,
           BackgroundWrites, BackgroundEnds
  <2>2. pipe' \in 0..PIPE_CAPACITY /\ written' \in 0..MaxOutput
    <3>1. CASE ChildWrites \/ BackgroundWrites
      <4>1. pipe \in 0..PIPE_CAPACITY /\ written \in 0..MaxOutput
        BY DEF TypeOK
      <4>2. pipe < PIPE_CAPACITY /\ pipe' = pipe + 1 /\ written' = written + 1
        BY <3>1 DEF ChildWrites, BackgroundWrites
      <4>3. written < MaxOutput
        BY <3>1, <4>1 DEF ChildWrites, BackgroundWrites, CommandInv
      <4> QED BY <4>1, <4>2, <4>3
    <3>2. CASE UNCHANGED <<pipe, written>>
      BY <3>2 DEF TypeOK
    <3> QED
      BY <3>1, <3>2 DEF Command, ChildWants, ChildForks, ChildEnds, BackgroundEnds
  <2> QED BY <1>2, <2>1, <2>2 DEF TypeOK, Executing
<1>5. CommandInv'
  <2>1. CASE ChildWants
    BY <2>1 DEF CommandInv, TypeOK, ChildWants, Alive, NothingLeftRunning
  <2>2. CASE ChildWrites
    BY <2>2 DEF CommandInv, TypeOK, ChildWrites, Alive, NothingLeftRunning
  <2>3. CASE ChildForks
    BY <2>3 DEF CommandInv, TypeOK, ChildForks, Alive, NothingLeftRunning
  <2>4. CASE ChildEnds
    BY <2>4 DEF CommandInv, TypeOK, ChildEnds, Alive, NothingLeftRunning
  <2>5. CASE BackgroundWrites
    BY <2>5 DEF CommandInv, TypeOK, BackgroundWrites, Alive, NothingLeftRunning
  <2>6. CASE BackgroundEnds
    BY <2>6 DEF CommandInv, TypeOK, BackgroundEnds, Alive, NothingLeftRunning
  <2> QED BY <2>1, <2>2, <2>3, <2>4, <2>5, <2>6 DEF Command
<1> QED BY <1>3, <1>4, <1>5

---------------------------------------------------------------------------
(* ExecInv is inductive.                                                   *)
LEMMA NextKeeps == ExecInv /\ [Next]_vars => ExecInv'
<1> SUFFICES ASSUME ExecInv, [Next]_vars PROVE ExecInv'
  OBVIOUS
<1>1. CASE Execute
  BY <1>1, ExecuteKeeps
<1>2. CASE Command
  BY <1>2, CommandKeeps
<1>3. CASE Expire
  <2> USE <1>3 DEF ExecInv, Expire, command, human
  <2>1. TypeOK'
    BY DEF TypeOK, Executing
  <2>2. ApprovalInv'
    BY DEF ApprovalInv, Executing, OnlyApprovedRuns, Confirmed
  <2>3. CommandInv'
    BY DEF CommandInv, Alive, NothingLeftRunning
  <2> QED BY <2>1, <2>2, <2>3
<1>4. CASE UNCHANGED vars
  BY <1>4 DEF vars, command, human, ExecInv, TypeOK, ApprovalInv, CommandInv, Executing, Alive,
              OnlyApprovedRuns, Confirmed, NothingLeftRunning
<1> QED BY <1>1, <1>2, <1>3, <1>4, PromptsKeep DEF Next

THEOREM ExecInvariant == Spec => []ExecInv
BY InitInv, NextKeeps, PTL DEF Spec

(* The variables keep their types, whatever commands and humans do.        *)
THEOREM TypeCorrect == Spec => []TypeOK
<1>1. ExecInv => TypeOK
  BY DEF ExecInv
<1> QED BY <1>1, ExecInvariant, PTL

(* No command starts that the human did not accept and confirm as its      *)
(* declared risk asks.                                                     *)
THEOREM RunsAreApproved == Spec => []OnlyApprovedRuns
<1>1. ExecInv => OnlyApprovedRuns
  BY DEF ExecInv, ApprovalInv
<1> QED BY <1>1, ExecInvariant, PTL

(* The prompt comes back only when the command is over, unless waiting for *)
(* it failed.                                                              *)
THEOREM PromptAfterTheCommand == Spec => []NothingLeftRunning
<1>1. ExecInv => NothingLeftRunning
  BY DEF ExecInv, CommandInv
<1> QED BY <1>1, ExecInvariant, PTL

(* A result that is no timeout holds everything that was written, however  *)
(* small the pipe.                                                         *)
THEOREM ResultsHoldAllOutput == Spec => []OutputComplete
<1>1. ExecInv => OutputComplete
  BY DEF ExecInv, CommandInv, TypeOK, OutputComplete
<1> QED BY <1>1, ExecInvariant, PTL
---------------------------------------------------------------------------
(* The audit log.  The place of an entry is the command it stands for.     *)
LEMMA AuditInit == Init => AuditInv
<1> SUFFICES ASSUME Init PROVE AuditInv
  OBVIOUS
<1> DEFINE place == [i \in Ended |-> 1]
<1>1. Ended = {} /\ ~ToBeEntered
  BY DEF Init, Ended, ToBeEntered
<1>2. place \in [Ended -> DOMAIN started] /\ InOrder(place)
  BY <1>1 DEF InOrder
<1> QED BY <1>1, <1>2 DEF AuditInv

(* A step that starts nothing and enters nothing keeps the places.         *)
LEMMA PlacesKept ==
  ASSUME AuditInv, log' = log, started' = started,
         ToBeEntered' => ToBeEntered /\ proposal' = proposal
  PROVE  AuditInv'
<1>1. PICK place \in [Ended -> DOMAIN started] :
        /\ InOrder(place)
        /\ ToBeEntered => \A i \in Ended : place[i] < Len(started)
  BY DEF AuditInv
<1>2. Ended' = Ended
  BY DEF Ended
<1>3. InOrder(place)'
  BY <1>1, <1>2 DEF InOrder
<1>4. ToBeEntered' => \A i \in Ended' : place[i] < Len(started')
  BY <1>1, <1>2
<1>5. ToBeEntered' => started' # <<>> /\ started'[Len(started')] = proposal'
  BY DEF AuditInv
<1> QED BY <1>1, <1>2, <1>3, <1>4, <1>5 DEF AuditInv

(* A command that starts comes after every one entered so far.             *)
LEMMA SpawnKeepsPlaces == ExecInv /\ AuditInv /\ Spawn => AuditInv'
<1> SUFFICES ASSUME ExecInv, AuditInv, Spawn PROVE AuditInv'
  OBVIOUS
<1>1. PICK place \in [Ended -> DOMAIN started] : InOrder(place)
  BY DEF AuditInv
<1>2. started \in Seq(Proposals) /\ proposal \in Proposals
  BY DEF ExecInv, TypeOK, Spawn
<1>3. /\ Len(started') = Len(started) + 1
      /\ DOMAIN started = 1..Len(started) /\ DOMAIN started' = 1..(Len(started) + 1)
      /\ \A k \in DOMAIN started : started'[k] = started[k]
      /\ started'[Len(started')] = proposal /\ Len(started) \in Nat
  BY <1>2 DEF Spawn
<1>4. Ended' = Ended /\ log' = log /\ proposal' = proposal
  BY DEF Ended, Spawn, Step
<1>5. place \in [Ended' -> DOMAIN started'] /\ \A i \in Ended' : place[i] < Len(started')
  BY <1>1, <1>3, <1>4
<1>6. InOrder(place)'
  BY <1>1, <1>3, <1>4 DEF InOrder
<1>7. started' # <<>>
  BY <1>3
<1> QED BY <1>3, <1>4, <1>5, <1>6, <1>7 DEF AuditInv

(* A new entry takes the place of the last command started.                *)
LEMMA EntryTakesLastPlace == ExecInv /\ AuditInv /\ Audit => AuditInv'
<1> SUFFICES ASSUME ExecInv, AuditInv, Audit PROVE AuditInv'
  OBVIOUS
<1>1. PICK place \in [Ended -> DOMAIN started] :
        /\ InOrder(place)
        /\ ToBeEntered => \A i \in Ended : place[i] < Len(started)
  BY DEF AuditInv
<1> DEFINE Entries == [proposal : Proposals, executed : {TRUE},
                       end : {"timed_out", "exited", "signalled"}]
           new == Len(log) + 1
<1>2. log \in Seq(Entries) /\ Entry \in Entries /\ started \in Seq(Proposals)
  BY DEF ExecInv, TypeOK, CommandInv, Audit, Entry
<1>3. /\ Len(log) \in Nat /\ Len(started) \in Nat
      /\ DOMAIN log = 1..Len(log) /\ DOMAIN log' = 1..new
      /\ \A i \in DOMAIN log : log'[i] = log[i]
      /\ log'[new] = Entry
      /\ DOMAIN started = 1..Len(started)
  <2> HIDE DEF Entries
  <2> QED BY <1>2 DEF Audit
<1>4. started' = started /\ pc' = "prompt" /\ ~ToBeEntered'
  BY DEF Audit, Ends, ToBeEntered
<1>5. Entry.end = reply /\ Entry.proposal = proposal
  BY DEF Entry
<1>6. CASE reply = "timed_out"
  <2>1. Ended' = Ended
    BY <1>3, <1>5, <1>6 DEF Ended
  <2>2. InOrder(place)'
    BY <1>1, <1>3, <1>4, <2>1 DEF InOrder, Ended
  <2> QED BY <1>1, <1>4, <2>1, <2>2 DEF AuditInv
<1>7. CASE reply # "timed_out"
  <2> DEFINE longer == [i \in Ended' |-> IF i = new THEN Len(started) ELSE place[i]]
  <2>1. Ended' = Ended \cup {new} /\ new \notin Ended /\ \A i \in Ended : i < new /\ i \in Nat
    BY <1>3, <1>5, <1>7 DEF Ended
  <2>2. ToBeEntered
    BY <1>7 DEF ToBeEntered, Audit
  <2>3. Len(started) \in DOMAIN started /\ started[Len(started)] = proposal
    BY <1>2, <1>3, <2>2 DEF AuditInv
  <2>4. longer \in [Ended' -> DOMAIN started']
    BY <1>1, <1>4, <2>1, <2>3
  <2>5. /\ longer[new] = Len(started)
        /\ \A i \in Ended : longer[i] = place[i] /\ place[i] < Len(started)
    BY <1>1, <2>1, <2>2
  <2>6. \A i \in Ended' : started'[longer[i]] = log'[i].proposal
    <3> HIDE DEF longer
    <3> QED BY <1>1, <1>3, <1>4, <1>5, <2>1, <2>3, <2>5 DEF InOrder, Ended
  <2>7. ASSUME NEW i \in Ended', NEW j \in Ended', i < j PROVE longer[i] < longer[j]
    <3> HIDE DEF longer
    <3>1. i \in Ended
      BY <1>3, <2>1, <2>7
    <3>2. CASE j = new
      BY <2>5, <3>1, <3>2
    <3>3. CASE j \in Ended
      BY <1>1, <2>5, <2>7, <3>1, <3>3 DEF InOrder
    <3> QED BY <2>1, <3>2, <3>3
  <2> HIDE DEF longer
  <2>8. PICK extended : extended = longer
    OBVIOUS
  <2>9. InOrder(extended)'
    BY <2>6, <2>7, <2>8 DEF InOrder
  <2> QED BY <1>4, <2>4, <2>8, <2>9 DEF AuditInv
<1> QED BY <1>6, <1>7

(* AuditInv is inductive, given ExecInv.                                   *)
LEMMA AuditKeeps == ExecInv /\ AuditInv /\ [Next]_vars => AuditInv'
<1> SUFFICES ASSUME ExecInv, AuditInv, [Next]_vars PROVE AuditInv'
  OBVIOUS
<1> USE DEF ToBeEntered, Ends, Step, Runs, vars, command, human
<1>1. CASE \/ \E p \in Proposals : Offer(p)
           \/ \E how \in {"reject", "quit"} : Decline(how)
           \/ AcceptDisabled \/ Accept
           \/ \E line \in Lines : Confirm(line)
           \/ ConfirmRejected \/ Gate
  BY <1>1, PlacesKept DEF Offer, Decline, AcceptDisabled, Accept, Confirm,
                          ConfirmRejected, Gate
<1>2. CASE Spawn
  BY <1>2, SpawnKeepsPlaces
<1>3. CASE SpawnFails \/ SpawnTimesOut \/ Poll \/ PollFails \/ Check
  BY <1>3, PlacesKept DEF SpawnFails, SpawnTimesOut, Poll, PollFails, Check
<1>4. CASE Kill \/ DrainSome \/ DrainEnd \/ AuditFails
  BY <1>4, PlacesKept DEF Kill, DrainSome, DrainEnd, AuditFails
<1>5. CASE Audit
  BY <1>5, EntryTakesLastPlace
<1>6. CASE Command \/ Expire \/ UNCHANGED vars
  BY <1>6, PlacesKept DEF Command, ChildWants, ChildWrites, ChildForks, ChildEnds,
                          BackgroundWrites, BackgroundEnds, Expire
<1> QED BY <1>1, <1>2, <1>3, <1>4, <1>5, <1>6 DEF Next, Execute

(* The log lists the commands that ended in the order they were started,   *)
(* each once, however many entries could not be written.                   *)
THEOREM AuditStaysOrdered == Spec => []AuditOrdered
<1>1. AuditInv => AuditOrdered
  BY DEF AuditInv, AuditOrdered
<1>2. Spec => []AuditInv
  BY ExecInvariant, AuditInit, AuditKeeps, PTL DEF Spec
<1> QED BY <1>1, <1>2, PTL
=============================================================================
