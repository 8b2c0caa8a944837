---------------------------- MODULE SerialQueue ----------------------------
(***************************************************************************)
(* class SerialQueue of src/io/serialQueue.ts: run(task) chains a task     *)
(* behind the last one with promises.  What makes it a queue is the order  *)
(* in which the runtime runs promise reactions: first come, first served   *)
(* (jobs).  A call of run() and the settling of a task may come between    *)
(* any two of them.                                                        *)
(***************************************************************************)
EXTENDS Integers, Sequences, FiniteSets

CONSTANT Tasks    \* the calls of run()

VARIABLES
  submitted,     \* the calls of run(), in order
  started,       \* the tasks that were started, in order
  settled,       \* those whose promise `next` has settled, ...
  failed,        \* ... and those among them that rejected
  tailResolved,  \* those whose promise _tail has resolved
  depth,         \* _depth
  jobs,          \* the reactions that are due
  unhandled      \* tasks that left a rejected promise without a handler

queueVars ==
  <<submitted, started, settled, failed, tailResolved, depth, jobs, unhandled>>

Elements(s) == {s[i] : i \in 1..Len(s)}
Job(kind, t) == [kind |-> kind, task |-> t]

QueueInit ==
  /\ submitted = <<>> /\ started = <<>>
  /\ settled = {} /\ failed = {} /\ tailResolved = {}
  /\ depth = 0
  /\ jobs = <<>>
  /\ unhandled = {}

\* Mutated form: the task does not wait for the tail.
RunAtOnce(t) ==
  /\ t \notin Elements(submitted)
  /\ submitted' = Append(submitted, t)
  /\ depth' = depth + 1
  /\ jobs' = Append(jobs, Job("task", t))
  /\ UNCHANGED <<started, settled, failed, tailResolved, unhandled>>

\* run(task): the task is a reaction to the tail, due at once if that resolved.
Run(t) ==
  /\ t \notin Elements(submitted)
  /\ submitted' = Append(submitted, t)
  /\ depth' = depth + 1
  /\ jobs' = IF Elements(submitted) \subseteq tailResolved
             THEN Append(jobs, Job("task", t)) ELSE jobs
  /\ UNCHANGED <<started, settled, failed, tailResolved, unhandled>>

\* The task's promise settles: catch() and finally() are due, in this order.
Settle(t, ok) ==
  /\ t \in Elements(started) \ settled
  /\ settled' = settled \cup {t}
  /\ failed' = IF ok THEN failed ELSE failed \cup {t}
  /\ jobs' = jobs \o <<Job("catch", t), Job("finally", t)>>
  /\ UNCHANGED <<submitted, started, tailResolved, depth, unhandled>>

Due(kind, t) == jobs # <<>> /\ Head(jobs) = Job(kind, t)

Start(t) ==
  /\ Due("task", t)
  /\ started' = Append(started, t)
  /\ jobs' = Tail(jobs)
  /\ UNCHANGED <<submitted, settled, failed, tailResolved, depth, unhandled>>

\* The tasks for which t's tail is the one they were chained to.
Followers(t) ==
  {submitted[i + 1] : i \in {j \in 1..Len(submitted) - 1 : submitted[j] = t}}

\* Mutated form: a task that failed does not let the next one go.
TailSticks(t) ==
  /\ Due("catch", t)
  /\ tailResolved' = IF t \in failed THEN tailResolved ELSE tailResolved \cup {t}
  /\ jobs' = Tail(jobs) \o
       (IF t \in failed THEN <<>>
        ELSE IF Followers(t) = {} THEN <<>>
        ELSE <<Job("task", CHOOSE u \in Followers(t) : TRUE)>>)
  /\ UNCHANGED <<submitted, started, settled, failed, depth, unhandled>>

\* The tail resolves whether the task failed or not.
TailResolves(t) ==
  /\ Due("catch", t)
  /\ tailResolved' = tailResolved \cup {t}
  /\ jobs' = Tail(jobs) \o
       (IF Followers(t) = {} THEN <<>>
        ELSE <<Job("task", CHOOSE u \in Followers(t) : TRUE)>>)
  /\ UNCHANGED <<submitted, started, settled, failed, depth, unhandled>>

\* finally() returns a promise of its own, which rejects as `next` does.
CountDown(t) ==
  /\ Due("finally", t)
  /\ depth' = depth - 1
  /\ unhandled' = IF t \in failed THEN unhandled \cup {t} ELSE unhandled
  /\ jobs' = Tail(jobs)
  /\ UNCHANGED <<submitted, started, settled, failed, tailResolved>>

QueueNext ==
  \E t \in Tasks :
    \/ Run(t)
    \/ \E ok \in BOOLEAN : Settle(t, ok)
    \/ Start(t)
    \/ TailResolves(t)
    \/ CountDown(t)

QueueSpec == QueueInit /\ [][QueueNext]_queueVars

\* Reactions that are due run, and every task settles once it was started.
QueueFairness ==
  \A t \in Tasks :
    /\ WF_queueVars(Start(t)) /\ WF_queueVars(TailResolves(t)) /\ WF_queueVars(CountDown(t))
    /\ WF_queueVars(\E ok \in BOOLEAN : Settle(t, ok))

-----------------------------------------------------------------------------

Running == Elements(started) \ settled

\* serialQueue.ts:1, "at most one task at a time, in submit order".
OneAtATime ==
  /\ Cardinality(Running) <= 1
  /\ started = SubSeq(submitted, 1, Len(started))

\* Every task runs and settles, whether those before it failed or not.
EveryTaskSettles ==
  \A t \in Tasks : t \in Elements(submitted) ~> t \in settled

\* serialQueue.ts:13-14, the comment: the chain leaves no unhandled rejection.
NoUnhandledRejection == unhandled = {}
=============================================================================
