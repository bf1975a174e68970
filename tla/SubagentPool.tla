---------------------------- MODULE SubagentPool ----------------------------
(***************************************************************************)
(* cps-agent's SubagentPool: callers spawn subagent tasks through one      *)
(* mutex-protected list of join handles.                                   *)
(*                                                                         *)
(*   active    the handles in the pool, in the order they were pushed      *)
(*   next_id   number of the next subagent                                 *)
(*   poisoned  a caller panicked while it held the mutex                   *)
(*   task      what became of each subagent                                *)
(*   at        where each caller is in spawn: "idle", "push" before its    *)
(*             first critical section, "pop" between the two, "waiting"    *)
(*             for a handle                                                *)
(*   mine      the subagent the caller spawned (history variable)          *)
(*   handle    the subagent whose handle the caller waits for              *)
(*   reply     the caller's last answer                                    *)
(*   session   who uses the pool, and how large it is                      *)
(*                                                                         *)
(* Ctrl+C ends the process, the tasks with it: there is no step for it.    *)
(***************************************************************************)
EXTENDS Integers, Sequences, FiniteSets, SequencesExt

CONSTANTS
  Callers,
  Sessions,      \* [max_parallel, callers, others]: the pool's size, who calls
                 \* spawn, whether cancel_all and active_count are called too
  MaxSpawns,     \* bound: subagents in a session
  NoSubagent

ASSUME PoolAssumption ==
  /\ IsFiniteSet(Callers)
  /\ Sessions \subseteq [max_parallel : Nat, callers : SUBSET Callers, others : BOOLEAN]
  /\ MaxSpawns \in Nat
  /\ NoSubagent \notin Nat

VARIABLES active, next_id, poisoned, task, at, mine, handle, reply, session

poolVars == <<active, next_id, poisoned, task, at, mine, handle, reply, session>>

Ids == 0..(MaxSpawns - 1)

Spawned == 0..(next_id - 1)

Unfinished == {"running", "aborting"}

PoolInit ==
  /\ active = <<>>
  /\ next_id = 0
  /\ poisoned = FALSE
  /\ task = [id \in Ids |-> "none"]
  /\ at = [c \in Callers |-> "idle"]
  /\ mine = [c \in Callers |-> NoSubagent]
  /\ handle = [c \in Callers |-> NoSubagent]
  /\ reply = [c \in Callers |-> [kind |-> "none", id |-> NoSubagent]]
  /\ session \in Sessions

---------------------------------------------------------------------------
Answers(c, kind, id) ==
  /\ at' = [at EXCEPT ![c] = "idle"]
  /\ mine' = [mine EXCEPT ![c] = NoSubagent]
  /\ handle' = [handle EXCEPT ![c] = NoSubagent]
  /\ reply' = [reply EXCEPT ![c] = [kind |-> kind, id |-> id]]

\* The handles a retain(|handle| !handle.is_finished()) leaves.
Live(handles) ==
  LET kept[n \in 0..Len(handles)] ==
        IF n = 0 THEN <<>>
        ELSE IF task[handles[n]] \in Unfinished THEN Append(kept[n - 1], handles[n])
        ELSE kept[n - 1]
  IN  kept[Len(handles)]

\* spawn starts; a request that asks for too much context or for a tool its
\* role does not have is answered before the pool is looked at.
Call(c) ==
  /\ c \in session.callers
  /\ at[c] = "idle"
  /\ at' = [at EXCEPT ![c] = "push"]
  /\ reply' = [reply EXCEPT ![c] = [kind |-> "none", id |-> NoSubagent]]
  /\ UNCHANGED <<active, next_id, poisoned, task, mine, handle, session>>

Invalid(c) ==
  /\ at[c] = "push"
  /\ Answers(c, "invalid", NoSubagent)
  /\ UNCHANGED <<active, next_id, poisoned, task, session>>

\* (mistake: the second lock is waited for until it can be had)
PoolPoisonedFirst(c) ==
  /\ at[c] = "push"
  /\ poisoned
  /\ Answers(c, "error", NoSubagent)
  /\ UNCHANGED <<active, next_id, poisoned, task, session>>

PoolPoisoned(c) ==
  /\ at[c] \in {"push", "pop"}
  /\ poisoned
  /\ Answers(c, "error", NoSubagent)
  /\ UNCHANGED <<active, next_id, poisoned, task, session>>

\* The first critical section: finished handles go, then the limit is looked
\* at, then the task is started and its handle pushed.
AtCapacity(c) ==
  /\ at[c] = "push"
  /\ ~poisoned
  /\ Len(Live(active)) >= session.max_parallel
  /\ active' = Live(active)
  /\ Answers(c, "full", NoSubagent)
  /\ UNCHANGED <<next_id, poisoned, task, session>>

\* (mistake: the limit is not looked at again)
PushUnbounded(c) ==
  /\ at[c] = "push"
  /\ ~poisoned
  /\ next_id < MaxSpawns
  /\ active' = Append(Live(active), next_id)
  /\ next_id' = next_id + 1
  /\ task' = [task EXCEPT ![next_id] = "running"]
  /\ at' = [at EXCEPT ![c] = "pop"]
  /\ mine' = [mine EXCEPT ![c] = next_id]
  /\ UNCHANGED <<poisoned, handle, reply, session>>

\* (mistake: the handle is not kept)
PushForgotten(c) ==
  /\ at[c] = "push"
  /\ ~poisoned
  /\ next_id < MaxSpawns
  /\ Len(Live(active)) < session.max_parallel
  /\ active' = Live(active)
  /\ next_id' = next_id + 1
  /\ task' = [task EXCEPT ![next_id] = "running"]
  /\ at' = [at EXCEPT ![c] = "pop"]
  /\ mine' = [mine EXCEPT ![c] = next_id]
  /\ UNCHANGED <<poisoned, handle, reply, session>>

Push(c) ==
  /\ at[c] = "push"
  /\ ~poisoned
  /\ next_id < MaxSpawns
  /\ Len(Live(active)) < session.max_parallel
  /\ active' = Append(Live(active), next_id)
  /\ next_id' = next_id + 1
  /\ task' = [task EXCEPT ![next_id] = "running"]
  /\ at' = [at EXCEPT ![c] = "pop"]
  /\ mine' = [mine EXCEPT ![c] = next_id]
  /\ UNCHANGED <<poisoned, handle, reply, session>>

\* (mistake: the handle is read, not taken)
PopKeeps(c) ==
  /\ at[c] = "pop"
  /\ ~poisoned
  /\ active # <<>>
  /\ handle' = [handle EXCEPT ![c] = Last(active)]
  /\ at' = [at EXCEPT ![c] = "waiting"]
  /\ UNCHANGED <<active, next_id, poisoned, task, mine, reply, session>>

\* The second critical section takes the last handle, whoever pushed it; with
\* none left the unwrap panics under the lock.
Pop(c) ==
  /\ at[c] = "pop"
  /\ ~poisoned
  /\ active # <<>>
  /\ active' = Front(active)
  /\ handle' = [handle EXCEPT ![c] = Last(active)]
  /\ at' = [at EXCEPT ![c] = "waiting"]
  /\ UNCHANGED <<next_id, poisoned, task, mine, reply, session>>

PopPanics(c) ==
  /\ at[c] = "pop"
  /\ ~poisoned
  /\ active = <<>>
  /\ poisoned' = TRUE
  /\ Answers(c, "panic", NoSubagent)
  /\ UNCHANGED <<active, next_id, task, session>>

\* The awaited task is over; an aborted one is a JoinError.
Return(c) ==
  /\ at[c] = "waiting"
  /\ task[handle[c]] \notin Unfinished
  /\ Answers(c, task[handle[c]], handle[c])
  /\ UNCHANGED <<active, next_id, poisoned, task, session>>

---------------------------------------------------------------------------
\* A task completes, fails or times out; an aborted one may still be faster.
Finish(id) ==
  /\ task[id] \in Unfinished
  /\ \E end \in {"result", "error", "timeout"} \cup
                (IF task[id] = "aborting" THEN {"aborted"} ELSE {}) :
       task' = [task EXCEPT ![id] = end]
  /\ UNCHANGED <<active, next_id, poisoned, at, mine, handle, reply, session>>

\* cancel_all drains the pool and aborts what it drains.
CancelAll ==
  /\ session.others
  /\ ~poisoned
  /\ active' = <<>>
  /\ task' = [id \in Ids |-> IF id \in ToSet(active) /\ task[id] \in Unfinished
                             THEN "aborting" ELSE task[id]]
  /\ UNCHANGED <<next_id, poisoned, at, mine, handle, reply, session>>

\* active_count counts what is left after a retain.
ActiveCount ==
  /\ session.others
  /\ ~poisoned
  /\ active' = Live(active)
  /\ UNCHANGED <<next_id, poisoned, task, at, mine, handle, reply, session>>

Spawn(c) ==
  \/ Invalid(c) \/ PoolPoisoned(c) \/ AtCapacity(c) \/ Push(c)
  \/ Pop(c) \/ PopPanics(c) \/ Return(c)

PoolNext ==
  \/ \E c \in Callers : Call(c) \/ Spawn(c)
  \/ \E id \in Ids : Finish(id)
  \/ CancelAll
  \/ ActiveCount

PoolSpec == PoolInit /\ [][PoolNext]_poolVars

(* A task is bounded by its timeout, and the executor polls every caller   *)
(* whose lock is free or whose task is over.                               *)
PoolFairSpec ==
  /\ PoolSpec
  /\ \A c \in Callers : WF_poolVars(Spawn(c))
  /\ \A id \in Ids : WF_poolVars(Finish(id))

---------------------------------------------------------------------------
PoolTypeOK ==
  /\ active \in Seq(Ids)
  /\ next_id \in 0..MaxSpawns
  /\ poisoned \in BOOLEAN
  /\ task \in [Ids -> {"none", "running", "aborting", "result", "error", "timeout", "aborted"}]
  /\ at \in [Callers -> {"idle", "push", "pop", "waiting"}]
  /\ mine \in [Callers -> Ids \cup {NoSubagent}]
  /\ handle \in [Callers -> Ids \cup {NoSubagent}]
  /\ reply \in [Callers -> [kind : {"none", "invalid", "full", "panic", "result", "error",
                                    "timeout", "aborted"},
                            id : Ids \cup {NoSubagent}]]
  /\ session \in Sessions

Held == {handle[c] : c \in Callers} \ {NoSubagent}

(* A task's answer is taken at most once and no task is lost sight of: a   *)
(* handle is in one place, the pool or a caller's hands, it is that of a   *)
(* task that was started, and every running task has one.                  *)
HandlesConserved ==
  /\ IsInjective(active)
  /\ Held \cap ToSet(active) = {}
  /\ \A c, e \in Callers : handle[c] = handle[e] /\ handle[c] # NoSubagent => c = e
  /\ ToSet(active) \cup Held \subseteq Spawned
  /\ \A id \in Spawned : task[id] = "running" => id \in ToSet(active) \cup Held

(* max_parallel bounds the pool, and a handle leaves the pool while its    *)
(* task still runs: so at any time there may be as many tasks more as      *)
(* there are callers who wait, and no more.                                *)
TasksBounded ==
  /\ Len(active) <= session.max_parallel
  /\ Cardinality({id \in Spawned : task[id] = "running"})
       <= session.max_parallel + Cardinality({c \in Callers : at[c] = "waiting"})

(* What spawn says of the handle it takes out of the pool ("We just pushed *)
(* it"): it is there, the last one, and the caller's own.  So it is for    *)
(* one caller that has the pool to itself, as the agent loop uses it,      *)
(* whatever its earlier subagents left in the pool.                        *)
Alone == \E c \in Callers : session.callers = {c} /\ ~session.others

AloneJustPushed ==
  Alone => \A c \in Callers :
    at[c] = "pop" => active # <<>> /\ Last(active) = mine[c]

(* A caller of spawn is answered: the tasks are bounded by their timeouts, *)
(* and a poisoned lock is an error of its own.                             *)
EveryCallReturns == \A c \in Callers : at[c] \in {"pop", "waiting"} ~> at[c] = "idle"
---------------------------------------------------------------------------
(* Why the above holds: the inductive strengthening.  A handle is held by  *)
(* who waits for it, ids are given out in order, nobody calls who is not   *)
(* of the session, and the limit was looked at when a handle was pushed.   *)
CallersInv ==
  /\ \A c \in Callers : at[c] = "waiting" <=> handle[c] # NoSubagent
  /\ \A c \in Callers : at[c] # "idle" => c \in session.callers
  /\ \A id \in Ids : task[id] = "none" <=> id \notin Spawned
  /\ Len(active) <= session.max_parallel

PoolInv == PoolTypeOK /\ HandlesConserved /\ CallersInv /\ AloneJustPushed
=============================================================================
