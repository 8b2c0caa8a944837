------------------------------ MODULE Io_proofs -----------------------------
(***************************************************************************)
(* Proofs about src/io/ below the tunnel client.  Of a transport, for every*)
(* stream of units and all sizes of its chunks: each frame arrives whole   *)
(* and once.  Of a queue, for every set of tasks: they run one at a time,  *)
(* in the order of the calls of run(), whatever comes between two promise  *)
(* reactions.  Of a search, for all responses: each gateway is found by its*)
(* first answer, and a search that has settled has settled for good.       *)
(***************************************************************************)
EXTENDS Transports, SerialQueue, Discovery, CounterArithmetic, FiniteSetTheorems,
        SequenceTheorems, TLAPS


-----------------------------------------------------------------------------
(* THE SERIAL QUEUE                                                        *)

Kinds == {"task", "catch", "finally"}
Jobs == [kind : Kinds, task : Tasks]

Count == Len(started)

\* No two jobs of a sequence start a task, and no two let one go.
Once(s) ==
  \A i, j \in 1..Len(s) :
    s[i].kind = s[j].kind /\ s[i].kind \in {"task", "catch"} => i = j

QueueType ==
  /\ submitted \in Seq(Tasks) /\ started \in Seq(Tasks) /\ jobs \in Seq(Jobs)
  /\ \A i, j \in 1..Len(submitted) : submitted[i] = submitted[j] => i = j

\* The tasks started are the first that were submitted; all of them but the last
\* have let the next one go.
InOrder ==
  /\ Count <= Len(submitted)
  /\ \A i \in 1..Count : started[i] = submitted[i]
  /\ tailResolved \subseteq settled /\ settled \subseteq Elements(started)
  /\ \A i \in 1..Count - 1 : started[i] \in tailResolved

\* A job that starts a task is for the next one, behind a promise that resolved;
\* a job that lets the next task go is that of the last one started.
NextIsDue(t) ==
  /\ Count < Len(submitted) /\ t = submitted[Count + 1]
  /\ Count > 0 => started[Count] \in tailResolved

LastIsDone(t) ==
  /\ Count > 0 /\ t = started[Count]
  /\ t \in settled /\ t \notin tailResolved

Rightly(job) ==
  /\ job.kind = "task" => NextIsDue(job.task)
  /\ job.kind = "catch" => LastIsDone(job.task)

JobsRight == Once(jobs) /\ \A job \in Elements(jobs) : Rightly(job)

QueueInv == QueueType /\ InOrder /\ JobsRight

-----------------------------------------------------------------------------
\* Sequences of jobs: what is left when the first has run, and when one is added.

LEMMA TailJobs ==
  ASSUME NEW s \in Seq(Jobs), s # <<>>, Once(s)
  PROVE  /\ Tail(s) \in Seq(Jobs) /\ Head(s) \in Elements(s) /\ Once(Tail(s))
         /\ Elements(Tail(s)) \subseteq Elements(s)
         /\ Head(s).kind \in {"task", "catch"} =>
              \A job \in Elements(Tail(s)) : job.kind # Head(s).kind
<1>1. /\ Tail(s) \in Seq(Jobs) /\ Len(s) \in Nat /\ Len(s) > 0 /\ Len(Tail(s)) = Len(s) - 1
      /\ Head(s) = s[1]
      /\ \A i \in 1..Len(Tail(s)) : Tail(s)[i] = s[i + 1]
  OBVIOUS
<1>2. \A i \in 1..Len(Tail(s)) : i + 1 \in 1..Len(s) /\ i + 1 # 1
  BY <1>1
<1>3. Head(s) \in Elements(s)
  BY <1>1 DEF Elements
<1>4. Elements(Tail(s)) \subseteq Elements(s)
  BY <1>1, <1>2 DEF Elements
<1>5. Once(Tail(s))
  <2> SUFFICES ASSUME NEW i \in 1..Len(Tail(s)), NEW j \in 1..Len(Tail(s)),
                      Tail(s)[i].kind = Tail(s)[j].kind, Tail(s)[i].kind \in {"task", "catch"}
               PROVE  i = j
    BY DEF Once
  <2>1. s[i + 1].kind = s[j + 1].kind /\ s[i + 1].kind \in {"task", "catch"}
    BY <1>1
  <2>2. i + 1 = j + 1
    BY <1>2, <2>1 DEF Once
  <2> QED
    BY <1>1, <2>2
<1>6. ASSUME Head(s).kind \in {"task", "catch"}, NEW job \in Elements(Tail(s))
      PROVE  job.kind # Head(s).kind
  <2>1. PICK i \in 1..Len(Tail(s)) : job = Tail(s)[i]
    BY DEF Elements
  <2>2. job = s[i + 1] /\ i + 1 \in 1..Len(s) /\ 1 \in 1..Len(s) /\ i + 1 # 1
    BY <1>1, <1>2, <2>1
  <2> QED
    BY <1>1, <1>6, <2>2 DEF Once
<1> QED
  BY <1>1, <1>3, <1>4, <1>5, <1>6

LEMMA AppendJob ==
  ASSUME NEW s \in Seq(Jobs), Once(s), NEW job \in Jobs,
         job.kind = "finally" \/ \A other \in Elements(s) : other.kind # job.kind
  PROVE  /\ Append(s, job) \in Seq(Jobs) /\ Once(Append(s, job))
         /\ Elements(Append(s, job)) = Elements(s) \cup {job}
<1>1. /\ Append(s, job) \in Seq(Jobs) /\ Len(Append(s, job)) = Len(s) + 1 /\ Len(s) \in Nat
      /\ Append(s, job)[Len(s) + 1] = job
      /\ \A i \in 1..Len(s) : Append(s, job)[i] = s[i]
  OBVIOUS
<1>2. \A i \in 1..Len(Append(s, job)) : i \in 1..Len(s) \/ i = Len(s) + 1
  BY <1>1
<1>3. Elements(Append(s, job)) = Elements(s) \cup {job}
  <2>1. Elements(Append(s, job)) \subseteq Elements(s) \cup {job}
    BY <1>1, <1>2 DEF Elements
  <2>2. job \in Elements(Append(s, job))
    BY <1>1 DEF Elements
  <2>3. ASSUME NEW i \in 1..Len(s) PROVE s[i] \in Elements(Append(s, job))
    BY <1>1 DEF Elements
  <2> QED
    BY <2>1, <2>2, <2>3 DEF Elements
<1>4. Once(Append(s, job))
  <2> SUFFICES ASSUME NEW i \in 1..Len(Append(s, job)), NEW j \in 1..Len(Append(s, job)),
                      Append(s, job)[i].kind = Append(s, job)[j].kind,
                      Append(s, job)[i].kind \in {"task", "catch"}
               PROVE  i = j
    BY DEF Once
  <2>1. CASE i \in 1..Len(s) /\ j \in 1..Len(s)
    BY <1>1, <2>1 DEF Once
  <2>2. CASE i \in 1..Len(s) /\ j = Len(s) + 1
    <3>1. s[i].kind = job.kind /\ job.kind # "finally" /\ s[i] \in Elements(s)
      BY <1>1, <2>2 DEF Elements
    <3> QED
      BY <3>1
  <2>3. CASE i = Len(s) + 1 /\ j \in 1..Len(s)
    <3>1. s[j].kind = job.kind /\ job.kind # "finally" /\ s[j] \in Elements(s)
      BY <1>1, <2>3 DEF Elements
    <3> QED
      BY <3>1
  <2> QED
    BY <1>2, <2>1, <2>2, <2>3
<1> QED
  BY <1>1, <1>3, <1>4

LEMMA JobType ==
  ASSUME NEW t \in Tasks, NEW kind \in Kinds
  PROVE  Job(kind, t) \in Jobs /\ Job(kind, t).kind = kind /\ Job(kind, t).task = t
BY DEF Job, Jobs

LEMMA JoinJobs ==
  ASSUME NEW s \in Seq(Jobs), NEW a \in Jobs, NEW b \in Jobs
  PROVE  /\ s \o <<>> = s
         /\ s \o <<a>> = Append(s, a)
         /\ s \o <<a, b>> = Append(Append(s, a), b)
OBVIOUS

\* A job that is due: what is known of it, and of the jobs behind it.
LEMMA FirstJob ==
  ASSUME QueueInv, NEW t \in Tasks, NEW kind \in Kinds, Due(kind, t)
  PROVE  /\ Rightly(Job(kind, t))
         /\ Tail(jobs) \in Seq(Jobs) /\ Once(Tail(jobs))
         /\ \A job \in Elements(Tail(jobs)) :
              Rightly(job) /\ (kind \in {"task", "catch"} => job.kind # kind)
<1>1. jobs \in Seq(Jobs) /\ jobs # <<>> /\ Head(jobs) = Job(kind, t) /\ Once(jobs)
  BY DEF Due, QueueInv, QueueType, JobsRight
<1>2. Job(kind, t).kind = kind
  BY JobType
<1> QED
  BY <1>1, <1>2, TailJobs DEF QueueInv, JobsRight

-----------------------------------------------------------------------------
\* The actions.

LEMMA RunKeeps ==
  ASSUME QueueInv, NEW t \in Tasks, Run(t)
  PROVE  QueueInv'
<1>1. /\ submitted \in Seq(Tasks) /\ started \in Seq(Tasks) /\ jobs \in Seq(Jobs)
      /\ Count \in Nat /\ Len(submitted) \in Nat /\ Count <= Len(submitted)
  BY DEF QueueInv, QueueType, InOrder, Count
<1>2. /\ submitted' = Append(submitted, t) /\ t \notin Elements(submitted)
      /\ started' = started /\ settled' = settled /\ tailResolved' = tailResolved
  BY DEF Run
<1>3. /\ submitted' \in Seq(Tasks) /\ Len(submitted') = Len(submitted) + 1
      /\ submitted'[Len(submitted) + 1] = t
      /\ \A i \in 1..Len(submitted) : submitted'[i] = submitted[i] /\ submitted[i] # t
  BY <1>1, <1>2 DEF Elements
<1>4. InOrder'
  <2>1. \A i \in 1..Count : started'[i] = submitted'[i]
    BY <1>1, <1>2, <1>3 DEF QueueInv, InOrder
  <2> QED
    BY <1>1, <1>2, <1>3, <2>1 DEF QueueInv, InOrder, Count
<1>5. ASSUME NEW i \in 1..Len(submitted'), NEW j \in 1..Len(submitted'),
             submitted'[i] = submitted'[j]
      PROVE  i = j
  <2>1. \A k, l \in 1..Len(submitted) : submitted[k] = submitted[l] => k = l
    BY DEF QueueInv, QueueType
  <2>2. /\ i \in 1..Len(submitted) \/ i = Len(submitted) + 1
        /\ j \in 1..Len(submitted) \/ j = Len(submitted) + 1
    BY <1>1, <1>3
  <2>3. CASE i \in 1..Len(submitted) /\ j \in 1..Len(submitted)
    BY <2>1, <2>3, <1>3, <1>5
  <2>4. CASE i = Len(submitted) + 1 /\ j \in 1..Len(submitted)
    BY <2>4, <1>3, <1>5
  <2>5. CASE i \in 1..Len(submitted) /\ j = Len(submitted) + 1
    BY <2>5, <1>3, <1>5
  <2> QED
    BY <2>2, <2>3, <2>4, <2>5
<1>6. ASSUME NEW job, Rightly(job) PROVE Rightly(job)'
  <2>1. job.kind = "task" => NextIsDue(job.task)'
    <3> SUFFICES ASSUME NextIsDue(job.task) PROVE NextIsDue(job.task)'
      BY <1>6 DEF Rightly
    <3>1. Count + 1 \in 1..Len(submitted)
      BY <1>1 DEF NextIsDue
    <3> QED
      BY <1>1, <1>2, <1>3, <3>1 DEF NextIsDue, Count
  <2>2. job.kind = "catch" => LastIsDone(job.task)'
    BY <1>2, <1>6 DEF Rightly, LastIsDone, Count
  <2> QED
    BY <2>1, <2>2 DEF Rightly
<1>7. CASE ~(Elements(submitted) \subseteq tailResolved)
  <2>1. jobs' = jobs
    BY <1>7 DEF Run
  <2>2. JobsRight'
    <3>1. Once(jobs) /\ \A job \in Elements(jobs) : Rightly(job)
      BY DEF QueueInv, JobsRight
    <3>2. \A job \in Elements(jobs) : Rightly(job)'
      BY <1>6, <3>1
    <3> QED
      BY <2>1, <3>1, <3>2 DEF JobsRight
  <2>3. QueueType'
    BY <1>1, <1>2, <1>3, <1>5, <2>1 DEF QueueType
  <2> QED
    BY <1>4, <2>2, <2>3 DEF QueueInv
<1>8. CASE Elements(submitted) \subseteq tailResolved
  <2>1. jobs' = Append(jobs, Job("task", t))
    BY <1>8 DEF Run
  <2>2. Count = Len(submitted)
    <3> SUFFICES ASSUME Count # Len(submitted) PROVE FALSE
      OBVIOUS
    <3>1. Count + 1 \in 1..Len(submitted)
      BY <1>1
    <3>2. submitted[Count + 1] \in Elements(started)
      BY <1>8, <3>1 DEF Elements, QueueInv, InOrder
    <3>3. PICK i \in 1..Count : started[i] = submitted[Count + 1]
      BY <3>2 DEF Elements, Count
    <3>4. submitted[i] = submitted[Count + 1] /\ i \in 1..Len(submitted)
      BY <1>1, <3>3 DEF QueueInv, InOrder
    <3>5. i = Count + 1
      BY <3>1, <3>4 DEF QueueInv, QueueType
    <3> QED
      BY <1>1, <3>3, <3>5
  <2>3. \A job \in Elements(jobs) : job.kind # "task"
    BY <1>1, <2>2 DEF QueueInv, JobsRight, Rightly, NextIsDue
  <2>4. /\ Job("task", t) \in Jobs /\ Job("task", t).kind = "task"
        /\ Job("task", t).task = t
    BY JobType DEF Kinds
  <2>5. Once(jobs)
    BY DEF QueueInv, JobsRight
  <2>6. /\ jobs' \in Seq(Jobs) /\ Once(jobs')
        /\ Elements(jobs') = Elements(jobs) \cup {Job("task", t)}
    BY <1>1, <2>1, <2>3, <2>4, <2>5, AppendJob
  <2>7. NextIsDue(t)'
    <3>1. Count > 0 => started[Count] \in Elements(submitted)
      BY <1>1, <2>2 DEF Elements, QueueInv, InOrder
    <3> QED
      BY <1>1, <1>2, <1>3, <1>8, <2>2, <3>1 DEF NextIsDue, Count
  <2>8. Rightly(Job("task", t))'
    BY <2>4, <2>7 DEF Rightly
  <2>9. \A job \in Elements(jobs') : Rightly(job)'
    BY <1>6, <2>6, <2>8 DEF QueueInv, JobsRight
  <2>10. QueueType'
    BY <1>1, <1>2, <1>3, <1>5, <2>6 DEF QueueType
  <2> QED
    BY <1>4, <2>6, <2>9, <2>10 DEF QueueInv, JobsRight
<1> QED
  BY <1>7, <1>8

LEMMA SettleKeeps ==
  ASSUME QueueInv, NEW t \in Tasks, NEW ok \in BOOLEAN, Settle(t, ok)
  PROVE  QueueInv'
<1>1. /\ started \in Seq(Tasks) /\ jobs \in Seq(Jobs) /\ Count \in Nat /\ Once(jobs)
  BY DEF QueueInv, QueueType, JobsRight, Count
<1>2. /\ t \in Elements(started) /\ t \notin settled /\ settled' = settled \cup {t}
      /\ jobs' = jobs \o <<Job("catch", t), Job("finally", t)>>
      /\ submitted' = submitted /\ started' = started /\ tailResolved' = tailResolved
  BY DEF Settle
<1>3. Count > 0 /\ t = started[Count] /\ t \notin tailResolved
  <2>1. PICK i \in 1..Count : t = started[i]
    BY <1>2 DEF Elements, Count
  <2>2. t \notin tailResolved
    BY <1>2 DEF QueueInv, InOrder
  <2>3. ~(i \in 1..Count - 1)
    BY <2>1, <2>2 DEF QueueInv, InOrder
  <2> QED
    BY <1>1, <2>1, <2>2, <2>3
<1>4. InOrder'
  BY <1>2 DEF QueueInv, InOrder, Count
<1>5. \A job \in Elements(jobs) : Rightly(job)' /\ job.kind # "catch"
  <2> SUFFICES ASSUME NEW job \in Elements(jobs) PROVE Rightly(job)' /\ job.kind # "catch"
    OBVIOUS
  <2>1. Rightly(job)
    BY DEF QueueInv, JobsRight
  <2>2. job.kind # "catch"
    BY <1>2, <1>3, <2>1 DEF Rightly, LastIsDone
  <2>3. NextIsDue(job.task) => NextIsDue(job.task)'
    BY <1>2 DEF NextIsDue, Count
  <2> QED
    BY <2>1, <2>2, <2>3 DEF Rightly
<1>6. /\ Job("catch", t) \in Jobs /\ Job("catch", t).kind = "catch" /\ Job("catch", t).task = t
      /\ Job("finally", t) \in Jobs /\ Job("finally", t).kind = "finally"
  BY JobType DEF Kinds
<1> DEFINE s == Append(jobs, Job("catch", t))
<1>7. s \in Seq(Jobs) /\ Once(s) /\ Elements(s) = Elements(jobs) \cup {Job("catch", t)}
  BY <1>1, <1>5, <1>6, AppendJob
<1>8. jobs' = Append(s, Job("finally", t))
  BY <1>1, <1>2, <1>6, JoinJobs
<1> HIDE DEF s
<1>9. /\ jobs' \in Seq(Jobs) /\ Once(jobs')
      /\ Elements(jobs') = Elements(s) \cup {Job("finally", t)}
  BY <1>6, <1>7, <1>8, AppendJob
<1>10. Rightly(Job("catch", t))' /\ Rightly(Job("finally", t))'
  BY <1>2, <1>3, <1>6 DEF Rightly, LastIsDone, Count
<1>11. \A job \in Elements(jobs') : Rightly(job)'
  BY <1>5, <1>7, <1>9, <1>10
<1> QED
  BY <1>2, <1>4, <1>9, <1>11 DEF QueueInv, QueueType, JobsRight

LEMMA StartKeeps ==
  ASSUME QueueInv, NEW t \in Tasks, Start(t)
  PROVE  QueueInv'
<1>1. /\ submitted \in Seq(Tasks) /\ started \in Seq(Tasks)
      /\ Count \in Nat /\ Len(submitted) \in Nat
  BY DEF QueueInv, QueueType, Count
<1>2. /\ Due("task", t) /\ started' = Append(started, t) /\ jobs' = Tail(jobs)
      /\ submitted' = submitted /\ settled' = settled /\ tailResolved' = tailResolved
  BY DEF Start
<1>3. /\ Rightly(Job("task", t)) /\ jobs' \in Seq(Jobs) /\ Once(jobs')
      /\ \A job \in Elements(jobs') : Rightly(job) /\ job.kind # "task"
  BY <1>2, FirstJob DEF Kinds
<1>4. NextIsDue(t)
  BY <1>3, JobType DEF Rightly, Kinds
<1>5. /\ started' \in Seq(Tasks) /\ Len(started') = Count + 1 /\ started'[Count + 1] = t
      /\ \A i \in 1..Count : started'[i] = started[i]
  BY <1>1, <1>2 DEF Count
<1>6. InOrder'
  <2>1. \A i \in 1..Count + 1 : started'[i] = submitted'[i]
    <3>1. \A i \in 1..Count : started'[i] = submitted'[i]
      BY <1>1, <1>2, <1>5 DEF QueueInv, InOrder
    <3>2. started'[Count + 1] = submitted'[Count + 1]
      BY <1>2, <1>4, <1>5 DEF NextIsDue
    <3> QED
      BY <1>1, <3>1, <3>2
  <2>2. Elements(started) \subseteq Elements(started')
    BY <1>1, <1>5 DEF Elements, Count
  <2>3. \A i \in 1..Count : started'[i] \in tailResolved
    <3>1. \A i \in 1..Count - 1 : started[i] \in tailResolved
      BY DEF QueueInv, InOrder
    <3>2. Count > 0 => started[Count] \in tailResolved
      BY <1>4 DEF NextIsDue
    <3> QED
      BY <1>1, <1>5, <3>1, <3>2
  <2>4. Count + 1 <= Len(submitted)
    BY <1>1, <1>4 DEF NextIsDue
  <2>5. tailResolved \subseteq settled /\ settled \subseteq Elements(started')
    BY <2>2 DEF QueueInv, InOrder
  <2> QED
    BY <1>1, <1>2, <1>5, <2>1, <2>3, <2>4, <2>5 DEF InOrder, Count
<1>7. \A job \in Elements(jobs') : job.kind # "task" /\ job.kind # "catch"
  <2> SUFFICES ASSUME NEW job \in Elements(jobs'), job.kind = "catch" PROVE FALSE
    BY <1>3
  <2>1. LastIsDone(job.task)
    BY <1>3 DEF Rightly
  <2> QED
    BY <1>4, <2>1 DEF LastIsDone, NextIsDue
<1>8. \A job \in Elements(jobs') : Rightly(job)'
  BY <1>7 DEF Rightly
<1>9. QueueType'
  BY <1>1, <1>2, <1>3, <1>5 DEF QueueInv, QueueType
<1> QED
  BY <1>3, <1>6, <1>8, <1>9 DEF QueueInv, JobsRight

LEMMA TailResolvesKeeps ==
  ASSUME QueueInv, NEW t \in Tasks, TailResolves(t)
  PROVE  QueueInv'
<1>1. /\ submitted \in Seq(Tasks) /\ started \in Seq(Tasks)
      /\ Count \in Nat /\ Len(submitted) \in Nat /\ Count <= Len(submitted)
  BY DEF QueueInv, QueueType, InOrder, Count
<1>2. /\ Due("catch", t) /\ tailResolved' = tailResolved \cup {t}
      /\ submitted' = submitted /\ started' = started /\ settled' = settled
  BY DEF TailResolves
<1>3. /\ Rightly(Job("catch", t)) /\ Tail(jobs) \in Seq(Jobs) /\ Once(Tail(jobs))
      /\ \A job \in Elements(Tail(jobs)) : Rightly(job) /\ job.kind # "catch"
  BY <1>2, FirstJob DEF Kinds
<1>4. LastIsDone(t)
  BY <1>3, JobType DEF Rightly, Kinds
<1>5. \A job \in Elements(Tail(jobs)) : job.kind # "task" /\ job.kind # "catch"
  <2> SUFFICES ASSUME NEW job \in Elements(Tail(jobs)), job.kind = "task" PROVE FALSE
    BY <1>3
  <2>1. NextIsDue(job.task)
    BY <1>3 DEF Rightly
  <2> QED
    BY <1>4, <2>1 DEF LastIsDone, NextIsDue
<1>6. InOrder'
  BY <1>2, <1>4 DEF QueueInv, InOrder, LastIsDone, Count
<1>7. \A u \in Followers(t) : u \in Tasks /\ Count < Len(submitted) /\ u = submitted[Count + 1]
  <2> SUFFICES ASSUME NEW i \in 1..Len(submitted) - 1, submitted[i] = t
               PROVE  /\ submitted[i + 1] \in Tasks /\ Count < Len(submitted)
                      /\ submitted[i + 1] = submitted[Count + 1]
    BY DEF Followers
  <2>1. submitted[Count] = t /\ Count \in 1..Len(submitted) /\ i \in 1..Len(submitted)
    BY <1>1, <1>4 DEF LastIsDone, QueueInv, InOrder
  <2>2. i = Count
    BY <2>1 DEF QueueInv, QueueType
  <2> QED
    BY <1>1, <2>1, <2>2
<1>8. CASE Followers(t) = {}
  <2>1. jobs' = Tail(jobs)
    BY <1>3, <1>8, JoinJobs DEF TailResolves
  <2>2. \A job \in Elements(jobs') : Rightly(job)'
    BY <1>5, <2>1 DEF Rightly
  <2> QED
    BY <1>2, <1>3, <1>6, <2>1, <2>2 DEF QueueInv, QueueType, JobsRight
<1>9. CASE Followers(t) # {}
  <2>1. PICK u \in Followers(t) : jobs' = Tail(jobs) \o <<Job("task", u)>>
    BY <1>9 DEF TailResolves
  <2>2. u \in Tasks /\ Count < Len(submitted) /\ u = submitted[Count + 1]
    BY <1>7, <2>1
  <2>3. /\ Job("task", u) \in Jobs /\ Job("task", u).kind = "task" /\ Job("task", u).task = u
    BY <2>2, JobType DEF Kinds
  <2>4. jobs' = Append(Tail(jobs), Job("task", u))
    BY <1>3, <2>1, <2>3, JoinJobs
  <2>5. /\ jobs' \in Seq(Jobs) /\ Once(jobs')
        /\ Elements(jobs') = Elements(Tail(jobs)) \cup {Job("task", u)}
    BY <1>3, <1>5, <2>3, <2>4, AppendJob
  <2>6. NextIsDue(u)'
    BY <1>2, <1>4, <2>2 DEF NextIsDue, LastIsDone, Count
  <2>7. Rightly(Job("task", u))'
    BY <2>3, <2>6 DEF Rightly
  <2>8. ASSUME NEW job \in Elements(Tail(jobs)) PROVE Rightly(job)'
    BY <1>5 DEF Rightly
  <2>9. JobsRight'
    BY <2>5, <2>7, <2>8 DEF JobsRight
  <2>10. QueueType'
    BY <1>2, <2>5 DEF QueueInv, QueueType
  <2> QED
    BY <1>6, <2>9, <2>10 DEF QueueInv
<1> QED
  BY <1>8, <1>9

LEMMA CountDownKeeps ==
  ASSUME QueueInv, NEW t \in Tasks, CountDown(t)
  PROVE  QueueInv'
<1>1. /\ Due("finally", t) /\ jobs' = Tail(jobs)
      /\ submitted' = submitted /\ started' = started
      /\ settled' = settled /\ tailResolved' = tailResolved
  BY DEF CountDown
<1>2. /\ jobs' \in Seq(Jobs) /\ Once(jobs') /\ \A job \in Elements(jobs') : Rightly(job)
  BY <1>1, FirstJob DEF Kinds
<1>3. \A job : Rightly(job)' <=> Rightly(job)
  BY <1>1 DEF Rightly, NextIsDue, LastIsDone, Count
<1> QED
  BY <1>1, <1>2, <1>3 DEF QueueInv, QueueType, InOrder, JobsRight, Count

-----------------------------------------------------------------------------

LEMMA QueueInvariant == QueueSpec => []QueueInv
<1>1. QueueInit => QueueInv
  BY DEF QueueInit, QueueInv, QueueType, InOrder, JobsRight, Once, Elements, Count
<1>2. QueueInv /\ [QueueNext]_queueVars => QueueInv'
  <2> SUFFICES ASSUME QueueInv, [QueueNext]_queueVars PROVE QueueInv'
    OBVIOUS
  <2>1. CASE UNCHANGED queueVars
    BY <2>1 DEF queueVars, QueueInv, QueueType, InOrder, JobsRight, Rightly, NextIsDue,
                LastIsDone, Count
  <2> QED
    BY <2>1, RunKeeps, SettleKeeps, StartKeeps, TailResolvesKeeps, CountDownKeeps
    DEF QueueNext
<1> QED
  BY <1>1, <1>2, PTL DEF QueueSpec

\* serialQueue.ts:1: at most one task at a time, in submit order.
THEOREM Serial == QueueSpec => []OneAtATime
<1>1. QueueInv => OneAtATime
  <2> SUFFICES ASSUME QueueInv PROVE OneAtATime
    OBVIOUS
  <2>1. /\ submitted \in Seq(Tasks) /\ started \in Seq(Tasks)
        /\ Count \in Nat /\ Len(submitted) \in Nat /\ Count <= Len(submitted)
    BY DEF QueueInv, QueueType, InOrder, Count
  <2>2. \A t \in Running : Count > 0 /\ t = started[Count]
    <3> SUFFICES ASSUME NEW i \in 1..Count, started[i] \notin settled
                 PROVE  Count > 0 /\ started[i] = started[Count]
      BY DEF Running, Elements, Count
    <3>1. ~(i \in 1..Count - 1)
      BY DEF QueueInv, InOrder
    <3> QED
      BY <2>1, <3>1
  <2>3. Running \subseteq {started[Count]}
    BY <2>2
  <2>4. Cardinality(Running) <= 1
    <3>1. IsFiniteSet({started[Count]}) /\ Cardinality({started[Count]}) = 1
      BY FS_Singleton
    <3>2. IsFiniteSet(Running) /\ Cardinality(Running) <= Cardinality({started[Count]})
      BY <2>3, <3>1, FS_Subset
    <3> QED
      BY <3>1, <3>2
  <2>5. started = SubSeq(submitted, 1, Len(started))
    <3>1. /\ SubSeq(submitted, 1, Count) \in Seq(Tasks)
          /\ Len(SubSeq(submitted, 1, Count)) = Count
          /\ \A i \in 1..Count : SubSeq(submitted, 1, Count)[i] = submitted[i]
      BY <2>1
    <3>2. \A i \in 1..Count : started[i] = submitted[i]
      BY DEF QueueInv, InOrder
    <3> QED
      BY <2>1, <3>1, <3>2 DEF Count
  <2> QED
    BY <2>4, <2>5 DEF OneAtATime
<1> QED
  BY <1>1, QueueInvariant, PTL

-----------------------------------------------------------------------------
(* TRANSPORTS                                                              *)

-----------------------------------------------------------------------------
\* TRANSPORTS: the bytes of a stream

\* A concatenation, given by its beginnings.
LEMMA FlattenedBy ==
  ASSUME NEW S, NEW seqs \in Seq(Seq(S)), NEW f,
         f[0] = <<>>, \A k \in 1..Len(seqs) : f[k] = f[k - 1] \o seqs[k] /\ f[k] \in Seq(S)
  PROVE  Seqs!FlattenSeq(seqs) = f[Len(seqs)]
<1> DEFINE n == Len(seqs)
           Eq(F) == [i \in 1..n |-> IF i = 1 THEN seqs[i] ELSE F[i - 1] \o seqs[i]]
           h == CHOOSE F : F = Eq(F)
           g == [i \in 1..n |-> f[i]]
<1>0. n \in Nat
  OBVIOUS
<1>1. CASE n = 0
  BY <1>1 DEF Seqs!FlattenSeq
<1>2. CASE n # 0
  <2>1. Seqs!FlattenSeq(seqs) = h[n]
    BY <1>2 DEF Seqs!FlattenSeq
  <2>2. g = Eq(g)
    <3>1. ASSUME NEW i \in 1..n PROVE f[i] = IF i = 1 THEN seqs[i] ELSE g[i - 1] \o seqs[i]
      <4>1. CASE i = 1
        <5>1. seqs[i] \in Seq(S)
          OBVIOUS
        <5>3. 1 \in 1..Len(seqs) /\ 1 - 1 = 0
          BY <4>1
        <5>4. f[1] = f[0] \o seqs[1]
          BY <5>3
        <5>2. <<>> \o seqs[i] = seqs[i]
          BY <5>1
        <5> QED
          BY <5>4, <5>2, <4>1
      <4>2. CASE i # 1
        <5>1. i - 1 \in 1..n
          BY <4>2, <1>0
        <5> QED
          BY <5>1, <4>2
      <4> QED
        BY <4>1, <4>2
    <3> QED
      BY <3>1
  <2>3. h = Eq(h)
    <3> HIDE DEF g, Eq
    <3> QED
      BY <2>2
  <2> HIDE DEF h
  <2> DEFINE T == {k \in 0..n : k = 0 \/ h[k] = f[k]}
  <2>4. ASSUME NEW k \in 0..n - 1, k \in T PROVE k + 1 \in T
    <3>1. k + 1 \in 1..n /\ (k + 1) - 1 = k
      BY <1>0
    <3>2. h[k + 1] = IF k + 1 = 1 THEN seqs[k + 1] ELSE h[k] \o seqs[k + 1]
      BY <2>3, <3>1
    <3>3. f[k + 1] = f[k] \o seqs[k + 1]
      BY <3>1
    <3>6. k + 1 \in 0..n
      BY <1>0
    <3>4. CASE k = 0
      <4>1. seqs[k + 1] \in Seq(S)
        BY <3>1
      <4>2. <<>> \o seqs[k + 1] = seqs[k + 1]
        BY <4>1
      <4> QED
        <5>1. h[k + 1] = seqs[k + 1]
          BY <3>2, <3>4
        <5>2. f[k + 1] = seqs[k + 1]
          BY <3>3, <3>4, <4>2
        <5> QED
          BY <5>1, <5>2, <3>6
    <3>5. CASE k # 0
      <4>1. h[k] = f[k]
        BY <3>5, <2>4
      <4>2. h[k + 1] = h[k] \o seqs[k + 1]
        <5>1. k + 1 # 1
          BY <3>5
        <5> QED
          BY ONLY <5>1, <3>2
      <4> QED
        BY <3>3, <3>6, <4>1, <4>2
    <3> QED
      BY <3>4, <3>5
  <2> HIDE DEF T
  <2>5. 0..n \subseteq T
    <3>1. 0 \in T
      BY <1>0 DEF T
    <3> QED
      BY <3>1, <2>4, <1>0, CountingUp
  <2>6. n \in T
    BY <2>5, <1>0
  <2> QED
    BY <2>6, <2>1, <1>2 DEF T
<1> QED
  BY <1>1, <1>2

Bytewise == 0..255
Carriers(units) == \A k \in 1..Len(units) : units[k].bytes \in Seq(Bytewise) /\ units[k].bytes # <<>>

\* The bytes of the first units, and where they end.
Upto(units, k) == StreamBytes(SubSeq(units, 1, k))
End(units, k) == Len(Upto(units, k))

LEMMA UptoGrows ==
  ASSUME NEW S, NEW units \in Seq(S), Carriers(units)
  PROVE  /\ Upto(units, 0) = <<>>
         /\ Upto(units, Len(units)) = StreamBytes(units)
         /\ \A k \in 0..Len(units) : Upto(units, k) \in Seq(Bytewise)
         /\ \A k \in 1..Len(units) : Upto(units, k) = Upto(units, k - 1) \o units[k].bytes
<1> DEFINE n == Len(units)
           B == Seq(Bytewise)
           step == [k \in 1..n |-> [b \in B |-> b \o units[k].bytes]]
<1>0. n \in Nat /\ \A k \in 1..n : units[k].bytes \in B
  BY DEF Carriers
<1>1. step \in [1..n -> [B -> B]]
  <2>1. \A k \in 1..n, b \in B : b \o units[k].bytes \in B
    BY <1>0
  <2> QED
    BY <2>1
<1>2. PICK f \in [0..n -> B] : f[0] = <<>> /\ \A k \in 1..n : f[k] = step[k][f[k - 1]]
  <2>1. <<>> \in B /\ n \in Nat
    BY <1>0
  <2> HIDE DEF step, B, n
  <2>2. \E f : Iterates(f, n, B, <<>>, step)
    BY <2>1, <1>1, RecursionExists
  <2> QED
    BY <2>2 DEF Iterates
<1>3. \A k \in 1..n : f[k] = f[k - 1] \o units[k].bytes /\ f[k] \in B
  <2> SUFFICES ASSUME NEW k \in 1..n PROVE f[k] = f[k - 1] \o units[k].bytes /\ f[k] \in B
    OBVIOUS
  <2>1. k \in 0..n /\ k - 1 \in 0..n
    BY <1>0
  <2>2. f[k] \in B /\ f[k - 1] \in B
    BY <2>1, <1>2
  <2> QED
    BY <1>2, <2>2
<1> HIDE DEF step
<1>4. ASSUME NEW k \in 0..n PROVE Upto(units, k) = f[k]
  <2> DEFINE seqs == [i \in 1..k |-> units[i].bytes]
             part == SubSeq(units, 1, k)
  <2>1. k \in Nat /\ k <= n
    BY <1>0
  <2>2. part \in Seq(S) /\ Len(part) = k /\ \A i \in 1..k : part[i] = units[i]
    BY <2>1
  <2>3. [i \in 1..Len(part) |-> part[i].bytes] = seqs
    BY <2>2
  <2>4. Upto(units, k) = Seqs!FlattenSeq(seqs)
    BY <2>3 DEF Upto, StreamBytes
  <2>5. seqs \in Seq(B) /\ Len(seqs) = k
    BY <2>1, <1>0
  <2>6. \A i \in 1..Len(seqs) : f[i] = f[i - 1] \o seqs[i] /\ f[i] \in B
    <3> SUFFICES ASSUME NEW i \in 1..k PROVE f[i] = f[i - 1] \o units[i].bytes /\ f[i] \in B
      BY <2>5
    <3>1. i \in 1..n
      BY <2>1
    <3> QED
      BY <3>1, <1>3
  <2> HIDE DEF seqs
  <2>7. Seqs!FlattenSeq(seqs) = f[Len(seqs)]
    BY <2>5, <2>6, <1>2, FlattenedBy
  <2> QED
    BY <2>4, <2>5, <2>7
<1>5. SubSeq(units, 1, n) = units
  BY <1>0
<1>6. 0 \in 0..n /\ n \in 0..n /\ \A k \in 1..n : k \in 0..n /\ k - 1 \in 0..n
  BY <1>0
<1>7. Upto(units, 0) = <<>>
  BY <1>6, <1>4, <1>2
<1>8. Upto(units, n) = StreamBytes(units)
  BY <1>5 DEF Upto
<1>9. \A k \in 0..n : Upto(units, k) \in B
  BY <1>4, <1>2
<1>10. \A k \in 1..n : Upto(units, k) = Upto(units, k - 1) \o units[k].bytes
  BY <1>6, <1>4, <1>3
<1> QED
  BY <1>7, <1>8, <1>9, <1>10

\* Each unit has its place in the stream.
LEMMA Places ==
  ASSUME NEW S, NEW units \in Seq(S), Carriers(units)
  PROVE  /\ StreamBytes(units) \in Seq(Bytewise)
         /\ End(units, 0) = 0 /\ End(units, Len(units)) = Len(StreamBytes(units))
         /\ \A k \in 0..Len(units) : End(units, k) \in 0..Len(StreamBytes(units))
         /\ \A k \in 1..Len(units) :
              /\ End(units, k) = End(units, k - 1) + Len(units[k].bytes)
              /\ Len(units[k].bytes) \in Nat \ {0}
              /\ \A i \in 1..Len(units[k].bytes) :
                   StreamBytes(units)[End(units, k - 1) + i] = units[k].bytes[i]
         /\ \A j, k \in 0..Len(units) : j < k => End(units, j + 1) <= End(units, k)
<1> DEFINE n == Len(units)
           total == StreamBytes(units)
           u(k) == Upto(units, k)
           e(k) == End(units, k)
           b(k) == units[k].bytes
<1>0. n \in Nat
  OBVIOUS
<1>1. /\ u(0) = <<>> /\ u(n) = total
      /\ \A k \in 0..n : u(k) \in Seq(Bytewise)
      /\ \A k \in 1..n : u(k) = u(k - 1) \o b(k)
  BY UptoGrows
<1>2. \A k \in 1..n : b(k) \in Seq(Bytewise) /\ Len(b(k)) \in Nat \ {0}
  <2> SUFFICES ASSUME NEW k \in 1..n PROVE b(k) \in Seq(Bytewise) /\ Len(b(k)) \in Nat \ {0}
    OBVIOUS
  <2>1. b(k) \in Seq(Bytewise) /\ b(k) # <<>>
    BY DEF Carriers
  <2> HIDE DEF b
  <2> QED
    BY <2>1
<1> HIDE DEF u, b
<1>3. \A k \in 0..n : e(k) = Len(u(k)) /\ e(k) \in Nat
  <2>1. \A k \in 0..n : e(k) = Len(u(k))
    BY DEF End, u
  <2> QED
    BY <2>1, <1>1
<1> HIDE DEF e
<1>4. ASSUME NEW k \in 1..n PROVE e(k) = e(k - 1) + Len(b(k))
  <2>1. k \in 0..n /\ k - 1 \in 0..n
    BY <1>0
  <2>2. u(k) = u(k - 1) \o b(k) /\ u(k - 1) \in Seq(Bytewise) /\ b(k) \in Seq(Bytewise)
    BY <2>1, <1>1, <1>2
  <2>3. Len(u(k)) = Len(u(k - 1)) + Len(b(k))
    BY <2>2, ConcatProperties
  <2> QED
    BY <2>1, <2>3, <1>3
\* What is at a place stays there as units are added.
<1>5. ASSUME NEW k \in 0..n, NEW m \in k..n
      PROVE  e(k) <= e(m) /\ \A i \in 1..e(k) : u(m)[i] = u(k)[i]
  <2> DEFINE P(d) == e(k) <= e(k + d) /\ \A i \in 1..e(k) : u(k + d)[i] = u(k)[i]
             T == {d \in 0..n - k : P(d)}
  <2>1. n - k \in Nat /\ m - k \in 0..n - k /\ k \in Nat
    BY <1>0
  <2>2. 0 \in T
    <3>1. k + 0 = k
      BY <2>1
    <3>2. P(0)
      BY <3>1, <1>3
    <3> QED
      BY <3>2, <2>1
  <2>3. ASSUME NEW d \in 0..(n - k) - 1, d \in T PROVE d + 1 \in T
    <3>1. k + d \in 0..n /\ k + d + 1 \in 1..n /\ (k + d + 1) - 1 = k + d /\ k + (d + 1) = k + d + 1
      BY <2>1
    <3>2. P(d)
      BY <2>3
    <3>3. e(k + d + 1) = e(k + d) + Len(b(k + d + 1))
      BY <3>1, <1>4
    <3>4. u(k + d + 1) = u(k + d) \o b(k + d + 1)
      BY <3>1, <1>1
    <3>5. u(k + d) \in Seq(Bytewise) /\ b(k + d + 1) \in Seq(Bytewise)
          /\ Len(u(k + d)) = e(k + d) /\ e(k + d) \in Nat /\ e(k) \in Nat
          /\ Len(b(k + d + 1)) \in Nat
      BY <3>1, <1>1, <1>2, <1>3
    <3>6. ASSUME NEW i \in 1..e(k) PROVE u(k + d + 1)[i] = u(k)[i]
      <4>1. i \in 1..e(k + d)
        BY <3>2, <3>5
      <4>2. (u(k + d) \o b(k + d + 1))[i] = u(k + d)[i]
        BY <4>1, <3>5, ConcatProperties
      <4> QED
        BY <4>2, <3>4, <3>2
    <3>7. P(d + 1)
      BY <3>1, <3>2, <3>3, <3>5, <3>6
    <3> QED
      BY <3>7, <2>1
  <2> HIDE DEF T
  <2>4. 0..n - k \subseteq T
    BY <2>1, <2>2, <2>3, CountingUp
  <2>5. P(m - k)
    BY <2>1, <2>4 DEF T
  <2>6. k + (m - k) = m
    BY <2>1
  <2> QED
    BY <2>5, <2>6
<1>6. total \in Seq(Bytewise) /\ e(0) = 0 /\ e(n) = Len(total)
  BY <1>0, <1>1, <1>3
<1>7. \A k \in 0..n : e(k) \in 0..Len(total)
  <2> SUFFICES ASSUME NEW k \in 0..n PROVE e(k) \in 0..Len(total)
    OBVIOUS
  <2>1. n \in k..n
    BY <1>0
  <2>2. e(k) <= e(n)
    BY <2>1, <1>5
  <2> QED
    BY <2>2, <1>6, <1>3, <1>0
<1>8. ASSUME NEW k \in 1..n, NEW i \in 1..Len(b(k)) PROVE total[e(k - 1) + i] = b(k)[i]
  <2>1. k \in 0..n /\ k - 1 \in 0..n /\ n \in k..n
    BY <1>0
  <2>2. e(k) = e(k - 1) + Len(b(k)) /\ e(k - 1) \in Nat /\ Len(b(k)) \in Nat
    BY <2>1, <1>3, <1>4, <1>2
  <2>3. e(k - 1) + i \in 1..e(k)
    BY <2>2
  <2>4. total[e(k - 1) + i] = u(k)[e(k - 1) + i]
    BY <2>1, <2>3, <1>5, <1>1
  <2>5. u(k) = u(k - 1) \o b(k) /\ u(k - 1) \in Seq(Bytewise) /\ b(k) \in Seq(Bytewise)
        /\ Len(u(k - 1)) = e(k - 1)
    BY <2>1, <1>1, <1>2, <1>3
  <2>6. (u(k - 1) \o b(k))[e(k - 1) + i] = b(k)[(e(k - 1) + i) - e(k - 1)]
    BY <2>3, <2>2, <2>5, ConcatProperties
  <2>7. (e(k - 1) + i) - e(k - 1) = i
    BY <2>2
  <2> QED
    BY <2>4, <2>5, <2>6, <2>7
<1>9. ASSUME NEW j \in 0..n, NEW k \in 0..n, j < k PROVE e(j + 1) <= e(k)
  <2>1. j + 1 \in 0..n /\ k \in j + 1..n
    BY <1>0, <1>9
  <2> QED
    BY <2>1, <1>5
<1> QED
  BY <1>2, <1>4, <1>6, <1>7, <1>8, <1>9 DEF e, b

\* TRANSPORTS: the same in the same order

LEMMA PresentAppend ==
  ASSUME NEW S, NEW s \in Seq(S), NEW v
  PROVE  /\ v = Absent => Present(Append(s, v)) = Present(s)
         /\ v # Absent => Present(Append(s, v)) = Present(s) \cup {Len(s) + 1}
         /\ \A i \in Present(s) : i \in 1..Len(s) /\ Append(s, v)[i] = s[i]
         /\ Append(s, v)[Len(s) + 1] = v
<1> DEFINE n == Len(s)
           t == Append(s, v)
<1>1. n \in Nat /\ Len(t) = n + 1 /\ t[n + 1] = v /\ \A i \in 1..n : t[i] = s[i]
  <2>1. s \in Seq(S \cup {v}) /\ v \in S \cup {v}
    <3>1. Len(s) \in Nat /\ s = [i \in 1..Len(s) |-> s[i]] /\ \A i \in 1..Len(s) : s[i] \in S
      OBVIOUS
    <3> QED
      BY <3>1
  <2> QED
    BY <2>1
<1> HIDE DEF t
<1> QED
  BY <1>1 DEF Present, t

LEMMA AgreeBoth ==
  ASSUME NEW S, NEW T, NEW got \in Seq(S), NEW sent \in Seq(T), NEW v, v # Absent,
         Agree(got, sent)
  PROVE  Agree(Append(got, v), Append(sent, v))
<1> DEFINE g == Append(got, v)
           s == Append(sent, v)
           n == Len(got)
           m == Len(sent)
<1>1. PICK from \in [Present(got) -> Present(sent)] :
        /\ \A k \in Present(sent) : \E i \in Present(got) : from[i] = k
        /\ \A i, j \in Present(got) : i < j => from[i] < from[j]
        /\ \A i \in Present(got) : got[i] = sent[from[i]]
  BY DEF Agree
<1>2. /\ Present(g) = Present(got) \cup {n + 1}
      /\ \A i \in Present(got) : i \in 1..n /\ g[i] = got[i]
      /\ g[n + 1] = v
  BY PresentAppend
<1>3. /\ Present(s) = Present(sent) \cup {m + 1}
      /\ \A i \in Present(sent) : i \in 1..m /\ s[i] = sent[i]
      /\ s[m + 1] = v
  BY PresentAppend
<1>4. n \in Nat /\ m \in Nat
  OBVIOUS
<1> DEFINE new == [i \in Present(g) |-> IF i = n + 1 THEN m + 1 ELSE from[i]]
<1> HIDE DEF g, s, n, m
<1>5. n + 1 \notin Present(got) /\ m + 1 \notin Present(sent)
  BY <1>2, <1>3, <1>4
<1>6. \A i \in Present(got) : i \in Present(g) /\ new[i] = from[i] /\ from[i] \in Present(sent)
  BY <1>2, <1>5, <1>1
<1>7. n + 1 \in Present(g) /\ new[n + 1] = m + 1
  BY <1>2
<1>8. new \in [Present(g) -> Present(s)]
  BY <1>1, <1>2, <1>3
<1> HIDE DEF new
<1>9. ASSUME NEW k \in Present(s) PROVE \E i \in Present(g) : new[i] = k
  <2>1. CASE k = m + 1
    BY <2>1, <1>7
  <2>2. CASE k \in Present(sent)
    BY <2>2, <1>1, <1>6
  <2> QED
    BY <2>1, <2>2, <1>3
<1>10. ASSUME NEW i \in Present(g), NEW j \in Present(g), i < j PROVE new[i] < new[j]
  <2>1. CASE i \in Present(got) /\ j \in Present(got)
    BY <2>1, <1>10, <1>1, <1>6
  <2>2. CASE i \in Present(got) /\ j = n + 1
    <3>1. new[i] \in 1..m /\ new[j] = m + 1
      BY <2>2, <1>6, <1>3, <1>7
    <3> QED
      BY <3>1, <1>4
  <2>3. CASE i = n + 1
    <3>1. j \in 1..n + 1
      BY <1>2, <1>4
    <3> QED
      BY <3>1, <2>3, <1>10, <1>4
  <2> QED
    BY <2>1, <2>2, <2>3, <1>2
<1>11. ASSUME NEW i \in Present(g) PROVE g[i] = s[new[i]]
  <2>1. CASE i \in Present(got)
    BY <2>1, <1>1, <1>2, <1>3, <1>6
  <2>2. CASE i = n + 1
    BY <2>2, <1>2, <1>3, <1>7
  <2> QED
    BY <2>1, <2>2, <1>2
<1>12. Agree(g, s)
  BY <1>8, <1>9, <1>10, <1>11 DEF Agree
<1> QED
  BY <1>12 DEF g, s

LEMMA AgreeBut ==
  ASSUME NEW S, NEW T, NEW got \in Seq(S), NEW sent \in Seq(T), Agree(got, sent)
  PROVE  Agree(Append(got, Absent), sent) /\ Agree(got, Append(sent, Absent))
<1>1. PICK from \in [Present(got) -> Present(sent)] :
        /\ \A k \in Present(sent) : \E i \in Present(got) : from[i] = k
        /\ \A i, j \in Present(got) : i < j => from[i] < from[j]
        /\ \A i \in Present(got) : got[i] = sent[from[i]]
  BY DEF Agree
<1> DEFINE g == Append(got, Absent)
           s == Append(sent, Absent)
<1>2. Present(g) = Present(got) /\ \A i \in Present(got) : g[i] = got[i]
  BY PresentAppend
<1>3. Present(s) = Present(sent) /\ \A i \in Present(sent) : s[i] = sent[i]
  BY PresentAppend
<1>4. \A i \in Present(got) : from[i] \in Present(sent)
  OBVIOUS
<1> HIDE DEF g, s
<1>5. Agree(g, sent)
  BY <1>1, <1>2 DEF Agree
<1>6. Agree(got, s)
  <2>1. \A i \in Present(got) : got[i] = s[from[i]]
    BY <1>1, <1>3, <1>4
  <2>2. from \in [Present(got) -> Present(s)]
    BY <1>3
  <2>3. \A k \in Present(s) : \E i \in Present(got) : from[i] = k
    BY <1>1, <1>3
  <2> QED
    BY <1>1, <2>1, <2>2, <2>3 DEF Agree
<1> QED
  BY <1>5, <1>6 DEF g, s

LEMMA AgreeNothing == Agree(<<>>, <<>>)
<1>1. Present(<<>>) = {}
  BY DEF Present
<1> DEFINE from == [i \in {} |-> i]
<1>2. from \in [{} -> {}]
  OBVIOUS
<1> HIDE DEF from
<1> QED
  BY <1>1, <1>2 DEF Agree

-----------------------------------------------------------------------------
\* TRANSPORTS: what is emitted

Outputs == {Emitted("error", Absent)} \cup {FrameIn(b) : b \in Seq(0..255)}

LEMMA OutputsAre ==
  ASSUME NEW e \in Outputs
  PROVE  e.event \in {"raw", "error", "message"}
  BY DEF Outputs, FrameIn, Emitted

LEMMA ReceivedAppend ==
  ASSUME NEW out \in Seq(Outputs), NEW e \in Outputs
  PROVE  /\ Received(out) \in Seq({Absent} \cup {o.body : o \in Outputs})
         /\ Received(Append(out, e)) =
              Append(Received(out), IF e.event = "message" THEN e.body ELSE Absent)
<1> DEFINE n == Len(out)
           S == {Absent} \cup {o.body : o \in Outputs}
           v == IF e.event = "message" THEN e.body ELSE Absent
           r == Received(out)
           R == Received(Append(out, e))
<1>1. n \in Nat /\ \A i \in 1..n : out[i] \in Outputs
  OBVIOUS
<1>2. r = [i \in 1..n |-> IF out[i].event = "message" THEN out[i].body ELSE Absent]
  BY DEF Received
<1>3. r \in Seq(S) /\ Len(r) = n
  <2>1. \A i \in 1..n : (IF out[i].event = "message" THEN out[i].body ELSE Absent) \in S
    BY <1>1
  <2> HIDE DEF S
  <2> QED
    BY <1>1, <1>2, <2>1
<1>4. v \in S
  OBVIOUS
<1>5. Len(Append(out, e)) = n + 1 /\ Append(out, e)[n + 1] = e
      /\ \A i \in 1..n : Append(out, e)[i] = out[i]
  OBVIOUS
<1>6. R = [i \in 1..n + 1 |-> IF Append(out, e)[i].event = "message"
                              THEN Append(out, e)[i].body ELSE Absent]
  BY <1>5 DEF Received
<1> HIDE DEF S, v, r, R
<1>7. R[n + 1] = v /\ \A i \in 1..n : R[i] = r[i]
  <2>1. R[n + 1] = v
    BY <1>1, <1>5, <1>6 DEF v
  <2>2. ASSUME NEW i \in 1..n PROVE R[i] = r[i]
    <3>1. i \in 1..n + 1
      BY <1>1
    <3> QED
      BY <3>1, <1>2, <1>5, <1>6
  <2> QED
    BY <2>1, <2>2
<1>8. R \in Seq(S) /\ Len(R) = n + 1
  <2>1. \A i \in 1..n + 1 : R[i] \in S
    <3> SUFFICES ASSUME NEW i \in 1..n + 1 PROVE R[i] \in S
      OBVIOUS
    <3>1. i \in 1..n \/ i = n + 1
      BY <1>1
    <3> QED
      BY <3>1, <1>3, <1>4, <1>7
  <2>2. R = [i \in 1..n + 1 |-> R[i]]
    BY <1>6
  <2> QED
    BY <2>1, <2>2, <1>1
<1>9. Append(r, v) \in Seq(S) /\ Len(Append(r, v)) = n + 1 /\ Append(r, v)[n + 1] = v
      /\ \A i \in 1..n : Append(r, v)[i] = r[i]
  BY <1>3, <1>4
<1>10. R = Append(r, v)
  <2>1. \A i \in 1..n + 1 : R[i] = Append(r, v)[i]
    <3> SUFFICES ASSUME NEW i \in 1..n + 1 PROVE R[i] = Append(r, v)[i]
      OBVIOUS
    <3>1. i \in 1..n \/ i = n + 1
      BY <1>1
    <3> QED
      BY <3>1, <1>7, <1>9
  <2> QED
    BY <2>1, <1>8, <1>9, SeqEqual
<1> QED
  BY <1>3, <1>10 DEF r, R, S, v

-----------------------------------------------------------------------------
\* TRANSPORTS: the loop over a buffer

Buffers == [rx : Seq(Bytewise), out : Seq(Outputs)]

LEMMA DrainStepType ==
  ASSUME NEW s \in Buffers
  PROVE  /\ DrainStep(s) \in Buffers
         /\ DrainStep(s) # s => Len(DrainStep(s).rx) < Len(s.rx)
<1> DEFINE rx == s.rx
           t == TotalLength(rx)
<1>1. rx \in Seq(Bytewise) /\ s.out \in Seq(Outputs) /\ Len(rx) \in Nat
  BY DEF Buffers
<1>2. CASE Len(rx) < HeaderLength
  BY <1>2 DEF DrainStep
<1>3. CASE Len(rx) >= HeaderLength
  <2>1. t \in Nat /\ Len(rx) >= 6
    <3>2. 5 \in 1..Len(rx) /\ 6 \in 1..Len(rx)
      BY <1>1, <1>3 DEF HeaderLength
    <3>3. rx[5] \in Bytewise /\ rx[6] \in Bytewise
      BY <3>2, <1>1
    <3>1. rx[5] \in Nat /\ rx[6] \in Nat
      BY <3>3 DEF Bytewise
    <3> QED
      BY <3>1, <1>3 DEF TotalLength, U16At, HeaderLength
  <2>2. CASE HeaderFails(rx) \/ t < HeaderLength
    <3>1. DrainStep(s) = [rx |-> Tail(rx), out |-> s.out]
      BY <2>2, <1>3, <1>1 DEF DrainStep, HeaderLength
    <3>2. Tail(rx) \in Seq(Bytewise) /\ Len(Tail(rx)) = Len(rx) - 1
      BY <1>1, <2>1
    <3> QED
      BY <3>1, <3>2, <1>1 DEF Buffers
  <2>3. CASE ~(HeaderFails(rx) \/ t < HeaderLength) /\ t > Len(rx)
    BY <2>3, <1>3, <1>1 DEF DrainStep, HeaderLength
  <2>4. CASE ~(HeaderFails(rx) \/ t < HeaderLength) /\ ~(t > Len(rx))
    <3> DEFINE b == SubSeq(rx, 1, t)
               r == Rest(rx, t)
               out == IF FrameIn(b).event = "raw" THEN s.out ELSE Append(s.out, FrameIn(b))
    <3>1. DrainStep(s) = [rx |-> r, out |-> out]
      BY <2>4, <1>3, <1>1 DEF DrainStep, HeaderLength
    <3>2. b \in Seq(Bytewise)
      BY <1>1, <2>1, <2>4, SubSeqProperties DEF HeaderLength
    <3>3. FrameIn(b) \in Outputs
      BY <3>2 DEF Outputs, Bytewise
    <3>4. out \in Seq(Outputs)
      BY <3>3, <1>1
    <3>5. r \in Seq(Bytewise) /\ Len(r) = Len(rx) - t
      BY <1>1, <2>1, <2>4, SubSeqProperties DEF Rest, HeaderLength
    <3>6. Len(r) < Len(rx)
      BY <3>5, <2>4, <2>1, <1>1 DEF HeaderLength
    <3> HIDE DEF out, r
    <3> QED
      BY <3>1, <3>4, <3>5, <3>6 DEF Buffers
  <2> QED
    BY <2>2, <2>3, <2>4
<1> QED
  BY <1>1, <1>2, <1>3 DEF HeaderLength

\* The loop goes through rounds, and is over after as many as there are bytes.
LEMMA DrainIs ==
  ASSUME NEW rx \in Seq(Bytewise), NEW out \in Seq(Outputs)
  PROVE  \E after \in [0..Len(rx) -> Buffers] :
           /\ after[0] = [rx |-> rx, out |-> out]
           /\ \A k \in 1..Len(rx) : after[k] = DrainStep(after[k - 1])
           /\ Drain(rx, out) = after[Len(rx)]
           /\ DrainStep(after[Len(rx)]) = after[Len(rx)]
<1> DEFINE n == Len(rx)
           a == [rx |-> rx, out |-> out]
           round == [s \in Buffers |-> DrainStep(s)]
           step == [k \in 1..n |-> round]
           Eq(F) == [k \in 0..n |-> IF k = 0 THEN a ELSE DrainStep(F[k - 1])]
           h == CHOOSE F : F = Eq(F)
<1>1. n \in Nat /\ a \in Buffers
  BY DEF Buffers
<1>2. step \in [1..n -> [Buffers -> Buffers]]
  BY DrainStepType
<1>3. PICK f : Iterates(f, n, Buffers, a, step)
  <2> HIDE DEF a, step, n
  <2> QED
    BY <1>1, <1>2, RecursionExists
<1>16. f \in [0..n -> Buffers] /\ f[0] = a /\ \A k \in 1..n : f[k] = step[k][f[k - 1]]
  BY <1>3 DEF Iterates
<1>4. \A k \in 1..n : f[k] = DrainStep(f[k - 1])
  <2> SUFFICES ASSUME NEW k \in 1..n PROVE f[k] = DrainStep(f[k - 1])
    OBVIOUS
  <2>1. k - 1 \in 0..n
    BY <1>1
  <2>2. f[k - 1] \in Buffers
    BY <2>1, <1>16
  <2> QED
    BY <1>16, <2>2
<1> HIDE DEF a
<1>5. f = Eq(f)
  <2>1. ASSUME NEW k \in 0..n PROVE f[k] = IF k = 0 THEN a ELSE DrainStep(f[k - 1])
    <3>1. CASE k = 0
      BY <3>1, <1>16
    <3>2. CASE k # 0
      <4>1. k \in 1..n
        BY <3>2, <1>1
      <4> QED
        BY <4>1, <3>2, <1>4
    <3> QED
      BY <3>1, <3>2
  <2>2. f = [k \in 0..n |-> f[k]]
    BY <1>16
  <2> QED
    BY <2>1, <2>2
<1>6. h = Eq(h)
  <2> HIDE DEF Eq
  <2> QED
    BY <1>5
<1>7. Drain(rx, out) = h[n]
  BY DEF Drain, a
<1> HIDE DEF h
<1> DEFINE T == {k \in 0..n : h[k] = f[k]}
           U == {k \in 0..n : DrainStep(f[k]) = f[k] \/ Len(f[k].rx) <= n - k}
<1>8. \A k \in 0..n : h[k] = IF k = 0 THEN a ELSE DrainStep(h[k - 1])
  BY <1>6
<1>9. 0 \in T
  BY <1>8, <1>16, <1>1
<1>10. ASSUME NEW k \in 0..n - 1, k \in T PROVE k + 1 \in T
  <2>1. k + 1 \in 1..n /\ k + 1 \in 0..n /\ k + 1 # 0 /\ (k + 1) - 1 = k
    BY <1>1
  <2>2. h[k + 1] = DrainStep(h[k])
    BY <2>1, <1>8
  <2>3. f[k + 1] = DrainStep(f[k])
    BY <2>1, <1>4
  <2> QED
    BY <1>10, <2>1, <2>2, <2>3
<1>11. n \in T
  <2> HIDE DEF T
  <2>1. 0..n \subseteq T
    BY <1>1, <1>9, <1>10, CountingUp
  <2> QED
    BY <2>1, <1>1
<1>12. 0 \in U
  BY <1>16, <1>1 DEF a
<1>13. ASSUME NEW k \in 0..n - 1, k \in U PROVE k + 1 \in U
  <2>1. k + 1 \in 1..n /\ k + 1 \in 0..n /\ (k + 1) - 1 = k /\ k \in 0..n
    BY <1>1
  <2>2. f[k + 1] = DrainStep(f[k])
    BY <2>1, <1>4
  <2>3. CASE DrainStep(f[k]) = f[k]
    BY <2>3, <2>1, <2>2
  <2>4. CASE DrainStep(f[k]) # f[k]
    <3>1. Len(f[k].rx) <= n - k
      BY <1>13, <2>4
    <3>2. f[k] \in Buffers /\ f[k + 1] \in Buffers
      BY <2>1, <1>16
    <3>3. Len(f[k + 1].rx) < Len(f[k].rx)
      BY <2>2, <2>4, <3>2, DrainStepType
    <3>4. Len(f[k].rx) \in Nat /\ Len(f[k + 1].rx) \in Nat
      BY <3>2 DEF Buffers
    <3>5. Len(f[k + 1].rx) <= n - (k + 1)
      BY <3>1, <3>3, <3>4, <1>1
    <3> QED
      BY <3>5, <2>1
  <2> QED
    BY <2>3, <2>4
<1>14. n \in U
  <2> HIDE DEF U
  <2>1. 0..n \subseteq U
    BY <1>1, <1>12, <1>13, CountingUp
  <2> QED
    BY <2>1, <1>1
<1>15. DrainStep(f[n]) = f[n]
  <2>1. f[n] \in Buffers
    BY <1>1, <1>16
  <2>2. Len(f[n].rx) \in Nat
    BY <2>1 DEF Buffers
  <2>3. CASE Len(f[n].rx) <= n - n
    <3>1. Len(f[n].rx) < 6
      BY <2>2, <2>3, <1>1
    <3> QED
      BY <3>1 DEF DrainStep, HeaderLength
  <2> QED
    BY <2>3, <1>14
<1> QED
  BY <1>16, <1>4, <1>7, <1>11, <1>15 DEF a

-----------------------------------------------------------------------------
\* TRANSPORTS: how far a stream is read

GoodUnits(units) == \A k \in 1..Len(units) : IsUnit(units[k])

BodiesTo(units, j) == [k \in 1..j |-> units[k].body]

LEMMA BodiesToGrows ==
  ASSUME NEW units, NEW j \in Nat
  PROVE  /\ BodiesTo(units, j) \in Seq({units[k].body : k \in Nat})
         /\ BodiesTo(units, j + 1) = Append(BodiesTo(units, j), units[j + 1].body)
<1> DEFINE S == {units[k].body : k \in Nat}
           b(k) == units[k].body
<1>1. \A k \in Nat : b(k) \in S
  OBVIOUS
<1> HIDE DEF S, b
<1> DEFINE old == [k \in 1..j |-> b(k)]
           new == [k \in 1..j + 1 |-> b(k)]
<1>2. old \in Seq(S) /\ Len(old) = j
  BY <1>1
<1>3. new \in Seq(S) /\ Len(new) = j + 1
  BY <1>1
<1>4. b(j + 1) \in S
  BY <1>1
<1>5. Append(old, b(j + 1)) \in Seq(S) /\ Len(Append(old, b(j + 1))) = j + 1
  BY <1>2, <1>4
<1>6. \A k \in 1..j + 1 : new[k] = Append(old, b(j + 1))[k]
  <2> SUFFICES ASSUME NEW k \in 1..j + 1 PROVE new[k] = Append(old, b(j + 1))[k]
    OBVIOUS
  <2>1. new[k] = b(k)
    OBVIOUS
  <2>2. CASE k = j + 1
    BY <2>1, <2>2, <1>2, <1>4
  <2>3. CASE k \in 1..j
    BY <2>1, <2>3, <1>2, <1>4
  <2> QED
    BY <2>2, <2>3
<1> HIDE DEF old, new
<1>7. new = Append(old, b(j + 1))
  BY <1>3, <1>5, <1>6, SeqEqual
<1> QED
  BY <1>2, <1>7 DEF old, new, S, b, BodiesTo

\* p bytes are read, that are j units and, if the next one is noise, a part of it.
ReadTo(units, p, j) ==
  /\ End(units, j) <= p
  /\ \/ p = End(units, j)
     \/ j < Len(units) /\ p < End(units, j + 1) /\ ~Framed(units[j + 1].bytes)

\* What an endpoint that has got the first n bytes has made of them.
ReadAs(units, n, s, p, j) ==
  /\ s.rx = SubSeq(StreamBytes(units), p + 1, n)
  /\ ReadTo(units, p, j)
  /\ Agree(Received(s.out), BodiesTo(units, j))

Consumed(units, n, s) == \E p \in 0..n : \E j \in 0..Len(units) : ReadAs(units, n, s, p, j)

LEMMA UnitsCarry ==
  ASSUME NEW units, GoodUnits(units)
  PROVE  /\ Carriers(units)
         /\ \A k \in 1..Len(units) :
              /\ units[k].bytes \in Seq(Bytewise) /\ Len(units[k].bytes) \in Nat \ {0}
              /\ units[k].bytes[1] # 16
              /\ ~Framed(units[k].bytes) => Noise(units[k].bytes) /\ units[k].body = Absent
              /\ ReadsAsSent(units[k])
<1> SUFFICES ASSUME NEW k \in 1..Len(units)
             PROVE  /\ units[k].bytes \in Seq(Bytewise) /\ Len(units[k].bytes) \in Nat \ {0}
                    /\ units[k].bytes # <<>>
                    /\ units[k].bytes[1] # 16
                    /\ ~Framed(units[k].bytes) => Noise(units[k].bytes) /\ units[k].body = Absent
                    /\ ReadsAsSent(units[k])
  BY DEF Carriers
<1> DEFINE b == units[k].bytes
<1>1. IsUnit(units[k])
  BY DEF GoodUnits
<1>2. b \in Seq(Bytewise) /\ b # <<>>
  BY <1>1 DEF IsUnit, Bytewise
<1>3. Len(b) \in Nat \ {0}
  <2> HIDE DEF b
  <2> QED
    BY <1>2
<1> QED
  BY <1>1, <1>2, <1>3 DEF IsUnit

\* What is in the buffer: the next unit from where it is read, and behind it the
\* one after that.
Ahead(units, n, p, j, rx) ==
  /\ j + 1 \in 1..Len(units) /\ rx \in Seq(Bytewise) /\ Len(rx) = n - p
  /\ p < End(units, j + 1)
  /\ \A m \in 1..n - p : (p - End(units, j)) + m <= Len(units[j + 1].bytes) =>
       rx[m] = units[j + 1].bytes[(p - End(units, j)) + m]
  /\ \A m \in 1..n - p : (p - End(units, j)) + m = Len(units[j + 1].bytes) + 1 =>
       rx[m] # 16

LEMMA InTheBuffer ==
  ASSUME NEW S, NEW units \in Seq(S), GoodUnits(units),
         NEW n \in 0..Len(StreamBytes(units)), NEW p \in 0..n, p < n,
         NEW j \in 0..Len(units), ReadTo(units, p, j),
         NEW rx, rx = SubSeq(StreamBytes(units), p + 1, n)
  PROVE  Ahead(units, n, p, j, rx)
<1> DEFINE total == StreamBytes(units)
           e(k) == End(units, k)
           b(k) == units[k].bytes
           len == Len(units)
           N == Len(total)
<1>0. Carriers(units) /\ \A k \in 1..len : b(k)[1] # 16
  BY UnitsCarry
<1>1. /\ total \in Seq(Bytewise) /\ e(0) = 0 /\ e(len) = N
      /\ \A k \in 0..len : e(k) \in 0..N
      /\ \A k \in 1..len : /\ e(k) = e(k - 1) + Len(b(k)) /\ Len(b(k)) \in Nat \ {0}
                           /\ \A i \in 1..Len(b(k)) : total[e(k - 1) + i] = b(k)[i]
  BY <1>0, Places
<1>2. len \in Nat /\ N \in Nat
  BY <1>1
<1>11. n \in Nat /\ p \in Nat /\ n <= N /\ j \in Nat
  BY <1>2
<1>3. e(j) <= p /\ (p = e(j) \/ (j < len /\ p < e(j + 1)))
  BY DEF ReadTo
<1> HIDE DEF total, e, b, len, N
<1>4. j < len
  <2>1. j # len
    BY <1>1, <1>2, <1>3 DEF len, N, total
  <2> QED
    BY <2>1, <1>2 DEF len
<1>5. j + 1 \in 1..len /\ (j + 1) - 1 = j /\ j \in 0..len
  BY <1>2, <1>4 DEF len
<1>6. e(j + 1) = e(j) + Len(b(j + 1)) /\ Len(b(j + 1)) \in Nat \ {0} /\ e(j) \in Nat
  <2>1. e(j + 1) = e((j + 1) - 1) + Len(b(j + 1)) /\ Len(b(j + 1)) \in Nat \ {0}
    BY <1>1, <1>5
  <2>2. e(j) \in 0..N
    BY <1>1, <1>5
  <2> QED
    BY <2>1, <2>2, <1>2, <1>5
<1>7. p < e(j + 1)
  BY <1>3, <1>6
<1>8. rx \in Seq(Bytewise) /\ Len(rx) = n - p /\ \A m \in 1..n - p : rx[m] = total[p + m]
  <2>1. p + 1 \in 1..N + 1 /\ n \in (p + 1) - 1..N /\ N = Len(total) /\ total \in Seq(Bytewise)
    BY <1>1, <1>2, <1>11 DEF N
  <2>2. rx = SubSeq(total, p + 1, n)
    BY DEF total
  <2>3. SubSeq(total, p + 1, n) \in Seq(Bytewise)
        /\ Len(SubSeq(total, p + 1, n)) = n - (p + 1) + 1
        /\ \A m \in 1..n - (p + 1) + 1 : SubSeq(total, p + 1, n)[m] = total[p + 1 + m - 1]
    BY <2>1, SubSeqProperties
  <2>4. n - (p + 1) + 1 = n - p
    BY <1>11
  <2>5. \A m \in 1..n - p : p + 1 + m - 1 = p + m
    BY <1>11
  <2> QED
    BY <2>2, <2>3, <2>4, <2>5
<1>9. ASSUME NEW m \in 1..n - p, (p - e(j)) + m <= Len(b(j + 1))
      PROVE  rx[m] = b(j + 1)[(p - e(j)) + m]
  <2>1. (p - e(j)) + m \in 1..Len(b(j + 1)) /\ e(j) + ((p - e(j)) + m) = p + m
    <3>1. m \in Nat /\ m >= 1
      BY <1>11
    <3>2. p \in Nat /\ e(j) \in Nat /\ e(j) <= p /\ Len(b(j + 1)) \in Nat
      BY <1>3, <1>6, <1>11
    <3>3. (p - e(j)) + m \in Nat /\ (p - e(j)) + m >= 1
      BY ONLY <3>1, <3>2
    <3>4. e(j) + ((p - e(j)) + m) = p + m
      BY ONLY <3>1, <3>2
    <3> QED
      BY ONLY <3>2, <3>3, <3>4, <1>9
  <2>2. total[e(j) + ((p - e(j)) + m)] = b(j + 1)[(p - e(j)) + m]
    BY <2>1, <1>1, <1>5
  <2> QED
    BY <2>1, <2>2, <1>8
<1>10. ASSUME NEW m \in 1..n - p, (p - e(j)) + m = Len(b(j + 1)) + 1
       PROVE  rx[m] # 16
  <2>1. p + m = e(j + 1) + 1
    <3>1. m \in Nat
      BY <1>11
    <3>2. p \in Nat /\ e(j) \in Nat /\ Len(b(j + 1)) \in Nat
      BY <1>6, <1>11
    <3> QED
      BY ONLY <3>1, <3>2, <1>10, <1>6
  <2>2. j + 1 < len
    <3>1. p + m <= N
      BY <1>11, <1>2
    <3>3. e(len) = N
      BY <1>1
    <3>2. j + 1 # len
      BY <3>1, <3>3, <2>1, <1>2
    <3> QED
      BY <3>2, <1>5, <1>2, <1>11
  <2>3. j + 2 \in 1..len /\ (j + 2) - 1 = j + 1
    BY <2>2, <1>5, <1>2
  <2>4. 1 \in 1..Len(b(j + 2))
    BY <2>3, <1>1
  <2>5. total[e(j + 1) + 1] = b(j + 2)[1]
    BY <2>3, <2>4, <1>1
  <2>6. b(j + 2)[1] # 16
    BY <2>3, <1>0
  <2> QED
    BY <2>1, <2>5, <2>6, <1>8
<1> QED
  BY <1>5, <1>7, <1>8, <1>9, <1>10 DEF e, b, len, Ahead

\* Inside of noise no header is found.
LEMMA NoiseIsSkipped ==
  ASSUME NEW S, NEW units \in Seq(S), GoodUnits(units),
         NEW n \in 0..Len(StreamBytes(units)), NEW p \in 0..n,
         NEW j \in 0..Len(units), ReadTo(units, p, j),
         NEW rx, rx = SubSeq(StreamBytes(units), p + 1, n), n - p >= 6,
         ~Framed(units[j + 1].bytes)
  PROVE  HeaderFails(rx) \/ TotalLength(rx) < HeaderLength
<1> DEFINE b == units[j + 1].bytes
           i == p - End(units, j)
<1>1. /\ j + 1 \in 1..Len(units) /\ rx \in Seq(Bytewise) /\ Len(rx) = n - p
      /\ p < End(units, j + 1)
      /\ \A m \in 1..n - p : i + m <= Len(b) => rx[m] = b[i + m]
      /\ \A m \in 1..n - p : i + m = Len(b) + 1 => rx[m] # 16
  <2>1. p < n
    <3>1. Len(StreamBytes(units)) \in Nat
      BY Places, UnitsCarry
    <3> QED
      BY <3>1
  <2>2. Ahead(units, n, p, j, rx)
    BY <2>1, InTheBuffer
  <2> QED
    BY <2>2 DEF Ahead
<1>2. b \in Seq(Bytewise) /\ Noise(b) /\ Len(b) \in Nat
  BY <1>1, UnitsCarry
<1>3. i \in Nat /\ i < Len(b)
  <2>1. End(units, j) \in Nat /\ End(units, j + 1) = End(units, j) + Len(b)
    <3>1. /\ \A k \in 0..Len(units) : End(units, k) \in 0..Len(StreamBytes(units))
          /\ \A k \in 1..Len(units) : End(units, k) = End(units, k - 1) + Len(units[k].bytes)
          /\ StreamBytes(units) \in Seq(Bytewise)
      BY Places, UnitsCarry
    <3>2. j \in 0..Len(units) /\ (j + 1) - 1 = j
      OBVIOUS
    <3> QED
      BY <3>1, <3>2, <1>1
  <2>2. End(units, j) <= p
    BY DEF ReadTo
  <2> QED
    BY <2>1, <2>2, <1>1, <1>2
<1> HIDE DEF i, b
<1>4. \A m \in 1..6 : m \in 1..n - p
  OBVIOUS
<1>5. SUFFICES ASSUME rx[1] = 6, rx[2] = 16 PROVE TotalLength(rx) < HeaderLength
  BY DEF HeaderFails, HeaderLength
<1>6. i + 2 <= Len(b)
  <2>1. i + 2 # Len(b) + 1
    BY <1>1, <1>4, <1>5
  <2> QED
    BY <2>1, <1>2, <1>3
<1>7. b[i + 1] = 6 /\ b[i + 2] = 16
  <2>1. 1 \in 1..n - p /\ 2 \in 1..n - p /\ i + 1 <= Len(b) /\ i + 2 <= Len(b)
    BY <1>2, <1>3, <1>4, <1>6
  <2>2. rx[1] = b[i + 1] /\ rx[2] = b[i + 2]
    BY <2>1, <1>1
  <2> QED
    BY <2>2, <1>5
<1>8. i + 6 <= Len(b) /\ TotalLength(Rest(b, i)) < HeaderLength
  <2>1. i + 1 \in 1..Len(b) - 1 /\ (i + 1) + 1 = i + 2 /\ (i + 1) - 1 = i /\ (i + 1) + 5 = i + 6
    BY <1>2, <1>3, <1>6
  <2>2. b[i + 1] = HeaderLength /\ b[(i + 1) + 1] = 16
    BY <1>7, <2>1 DEF HeaderLength
  <2>3. (i + 1) + 5 <= Len(b) /\ TotalLength(Rest(b, (i + 1) - 1)) < HeaderLength
    BY <2>1, <2>2, <1>2 DEF Noise
  <2> QED
    BY <2>1, <2>3
<1>9. Rest(b, i)[5] = b[i + 5] /\ Rest(b, i)[6] = b[i + 6]
  <2>1. i + 1 \in 1..Len(b) + 1 /\ Len(b) \in (i + 1) - 1..Len(b)
    BY <1>2, <1>3
  <2>2. 5 \in 1..Len(b) - (i + 1) + 1 /\ 6 \in 1..Len(b) - (i + 1) + 1
    BY <1>2, <1>3, <1>8
  <2>3. \A m \in 1..Len(b) - (i + 1) + 1 : SubSeq(b, i + 1, Len(b))[m] = b[(i + 1) + m - 1]
    BY <2>1, <1>2, SubSeqProperties
  <2>4. (i + 1) + 5 - 1 = i + 5 /\ (i + 1) + 6 - 1 = i + 6
    BY <1>3
  <2> QED
    BY <2>2, <2>3, <2>4 DEF Rest
<1>10. rx[5] = b[i + 5] /\ rx[6] = b[i + 6]
  <2>1. 5 \in 1..n - p /\ 6 \in 1..n - p /\ i + 5 <= Len(b) /\ i + 6 <= Len(b)
    BY <1>2, <1>3, <1>4, <1>8
  <2> QED
    BY <2>1, <1>1
<1>11. TotalLength(rx) = TotalLength(Rest(b, i))
  BY <1>9, <1>10 DEF TotalLength, U16At
<1> QED
  BY <1>8, <1>11

-----------------------------------------------------------------------------
\* TRANSPORTS: a round of the loop

\* What follows the first p elements, up to the nth.
LEMMA Slice ==
  ASSUME NEW S, NEW s \in Seq(S), NEW n \in 0..Len(s), NEW p \in 0..n
  PROVE  /\ SubSeq(s, p + 1, n) \in Seq(S)
         /\ Len(SubSeq(s, p + 1, n)) = n - p
         /\ \A m \in 1..n - p : SubSeq(s, p + 1, n)[m] = s[p + m]
<1>0. Len(s) \in Nat
  OBVIOUS
<1>1. n \in Nat /\ p \in Nat /\ p <= n /\ n <= Len(s)
  BY <1>0
<1>2. p + 1 \in Int /\ n \in Int
  BY <1>1
<1>3. \A i \in p + 1..n : s[i] \in S
  <2> SUFFICES ASSUME NEW i \in p + 1..n PROVE s[i] \in S
    OBVIOUS
  <2>1. i \in 1..Len(s)
    BY <1>0, <1>1
  <2> QED
    BY <2>1
<1>4. /\ SubSeq(s, p + 1, n) \in Seq(S)
      /\ Len(SubSeq(s, p + 1, n)) = IF p + 1 <= n THEN n - (p + 1) + 1 ELSE 0
      /\ \A i \in 1..n - (p + 1) + 1 : SubSeq(s, p + 1, n)[i] = s[(p + 1) + i - 1]
  BY <1>2, <1>3, SubSeqProperties
<1>5. (IF p + 1 <= n THEN n - (p + 1) + 1 ELSE 0) = n - p /\ n - (p + 1) + 1 = n - p
  BY ONLY <1>1
<1>6. \A i \in 1..n - p : (p + 1) + i - 1 = p + i
  BY ONLY <1>1
<1> QED
  BY <1>4, <1>5, <1>6

LEMMA SliceOfSlice ==
  ASSUME NEW S, NEW s \in Seq(S), NEW n \in 0..Len(s), NEW p \in 0..n, NEW k \in 0..n - p,
         NEW r, r = SubSeq(s, p + 1, n)
  PROVE  Rest(r, k) = SubSeq(s, (p + k) + 1, n)
<1> DEFINE l == SubSeq(r, k + 1, n - p)
           t == SubSeq(s, (p + k) + 1, n)
<1>0. Len(s) \in Nat
  OBVIOUS
<1>1. n \in Nat /\ p \in Nat /\ p <= n /\ n - p \in Nat /\ k \in Nat /\ k <= n - p
  BY <1>0
<1>2. r \in Seq(S) /\ Len(r) = n - p /\ \A m \in 1..n - p : r[m] = s[p + m]
  BY Slice
<1>3. n - p \in 0..Len(r) /\ k \in 0..n - p
  BY <1>1, <1>2
<1>4. l \in Seq(S) /\ Len(l) = (n - p) - k /\ \A m \in 1..(n - p) - k : l[m] = r[k + m]
  BY <1>2, <1>3, Slice
<1>5. p + k \in 0..n
  BY ONLY <1>1
<1>6. t \in Seq(S) /\ Len(t) = n - (p + k) /\ \A m \in 1..n - (p + k) : t[m] = s[(p + k) + m]
  BY <1>5, Slice
<1>7. n - (p + k) = (n - p) - k /\ (n - p) - k \in Nat
  BY ONLY <1>1
<1>8. ASSUME NEW m \in 1..(n - p) - k PROVE l[m] = t[m]
  <2>1. m \in Nat /\ m <= (n - p) - k /\ m >= 1
    BY <1>7
  <2>2. k + m \in 1..n - p /\ p + (k + m) = (p + k) + m
    BY ONLY <2>1, <1>1
  <2> QED
    BY <2>2, <1>2, <1>4, <1>6, <1>7
<1> HIDE DEF l, t
<1>9. l = t
  BY <1>4, <1>6, <1>7, <1>8, SeqEqual
<1> QED
  BY <1>9, <1>2 DEF l, t, Rest

LEMMA ReadAsIs ==
  ASSUME NEW units, NEW n, NEW s, NEW p, NEW j
  PROVE  ReadAs(units, n, s, p, j) =>
           /\ s.rx = SubSeq(StreamBytes(units), p + 1, n)
           /\ ReadTo(units, p, j)
           /\ Agree(Received(s.out), BodiesTo(units, j))
BY DEF ReadAs

\* A round that drops a byte of noise reads one byte more.
LEMMA NoiseStep ==
  ASSUME NEW S, NEW units \in Seq(S), GoodUnits(units),
         NEW n \in 0..Len(StreamBytes(units)), NEW p \in 0..n, p < n,
         NEW j \in 0..Len(units), NEW s \in Buffers, ReadAs(units, n, s, p, j),
         ~Framed(units[j + 1].bytes)
  PROVE  Consumed(units, n, [rx |-> Tail(s.rx), out |-> s.out])
<1> DEFINE rx == s.rx
           t == [rx |-> Tail(rx), out |-> s.out]
           e(k) == End(units, k)
<1>0. /\ rx = SubSeq(StreamBytes(units), p + 1, n)
      /\ ReadTo(units, p, j) /\ Agree(Received(s.out), BodiesTo(units, j))
  BY ReadAsIs
<1>10. /\ j + 1 \in 1..Len(units) /\ rx \in Seq(Bytewise) /\ Len(rx) = n - p
       /\ p < e(j + 1)
  <2> HIDE DEF rx
  <2>1. Ahead(units, n, p, j, rx)
    BY <1>0, InTheBuffer
  <2> QED
    BY <2>1 DEF Ahead
<1>1. /\ j + 1 \in 1..Len(units) /\ rx \in Seq(Bytewise) /\ Len(rx) = n - p
      /\ p < e(j + 1) /\ ReadTo(units, p, j) /\ Agree(Received(s.out), BodiesTo(units, j))
      /\ rx = SubSeq(StreamBytes(units), p + 1, n)
  BY <1>0, <1>10
<1>2. StreamBytes(units) \in Seq(Bytewise) /\ n \in Nat /\ p \in Nat /\ j \in Nat
      /\ n <= Len(StreamBytes(units)) /\ Len(StreamBytes(units)) \in Nat
      /\ e(j + 1) \in Nat /\ e(j) \in Nat /\ e(j) <= p
  <2>1. StreamBytes(units) \in Seq(Bytewise)
        /\ \A k \in 0..Len(units) : End(units, k) \in 0..Len(StreamBytes(units))
    BY UnitsCarry, Places
  <2>2. j + 1 \in 0..Len(units)
    BY <1>1
  <2> QED
    BY <2>1, <2>2, <1>1 DEF ReadTo
<1>3. Tail(rx) = SubSeq(StreamBytes(units), (p + 1) + 1, n)
  <2>1. rx # <<>>
    <3>1. Len(rx) # 0
      BY <1>1, <1>2
    <3> HIDE DEF rx
    <3> QED
      BY <3>1
  <2>2. Tail(rx) = SubSeq(rx, 2, Len(rx))
    BY <1>1, <2>1, TailIsSubSeq
  <2>3. Tail(rx) = Rest(rx, 1)
    BY <2>2 DEF Rest
  <2>4. 1 \in 0..n - p /\ p \in 0..n /\ n \in 0..Len(StreamBytes(units))
    BY <1>2
  <2> QED
    BY <2>3, <2>4, <1>1, <1>2, SliceOfSlice
<1>4. p + 1 \in 0..n /\ j + 1 \in 0..Len(units) /\ j \in 0..Len(units)
  BY <1>1, <1>2
<1>5. CASE p + 1 < e(j + 1)
  <2>1. ReadTo(units, p + 1, j)
    BY <1>5, <1>1, <1>2 DEF ReadTo
  <2>2. ReadAs(units, n, t, p + 1, j)
    BY <2>1, <1>1, <1>3 DEF ReadAs
  <2> HIDE DEF t
  <2>3. Consumed(units, n, t)
    BY <2>2, <1>4 DEF Consumed
  <2> QED
    BY <2>3 DEF t
<1>6. CASE p + 1 = e(j + 1)
  <2>1. ReadTo(units, p + 1, j + 1)
    BY <1>6, <1>2 DEF ReadTo
  <2>2. units[j + 1].body = Absent
    BY <1>1, UnitsCarry
  <2>3. BodiesTo(units, j + 1) = Append(BodiesTo(units, j), Absent)
        /\ BodiesTo(units, j) \in Seq({units[k].body : k \in Nat})
    BY <2>2, <1>2, BodiesToGrows
  <2>4. Received(s.out) \in Seq({Absent} \cup {o.body : o \in Outputs})
    <3>1. s.out \in Seq(Outputs) /\ Emitted("error", Absent) \in Outputs
      BY DEF Buffers, Outputs
    <3> QED
      BY <3>1, ReceivedAppend
  <2>5. Agree(Received(s.out), BodiesTo(units, j + 1))
    BY <2>3, <2>4, <1>1, AgreeBut
  <2>6. ReadAs(units, n, t, p + 1, j + 1)
    BY <2>1, <2>5, <1>3 DEF ReadAs
  <2> HIDE DEF t
  <2>7. Consumed(units, n, t)
    BY <2>6, <1>4 DEF Consumed
  <2> QED
    BY <2>7 DEF t
<1> QED
  BY <1>1, <1>2, <1>5, <1>6

\* A round that takes a frame reads one unit more, and emits what it is read as.
LEMMA FrameStep ==
  ASSUME NEW S, NEW units \in Seq(S), GoodUnits(units),
         NEW n \in 0..Len(StreamBytes(units)), NEW p \in 0..n, p < n,
         NEW j \in 0..Len(units), NEW s \in Buffers, ReadAs(units, n, s, p, j),
         NEW b, b = units[j + 1].bytes, Framed(b), Len(b) <= n - p
  PROVE  LET frame == FrameIn(SubSeq(s.rx, 1, Len(b)))
         IN  Consumed(units, n,
                      [rx |-> Rest(s.rx, Len(b)),
                       out |-> IF frame.event = "raw" THEN s.out ELSE Append(s.out, frame)])
<1> DEFINE rx == s.rx
           total == StreamBytes(units)
           frame == FrameIn(SubSeq(rx, 1, Len(b)))
           out == IF frame.event = "raw" THEN s.out ELSE Append(s.out, frame)
           t == [rx |-> Rest(rx, Len(b)), out |-> out]
           e(k) == End(units, k)
           len == Len(b)
<1>0. /\ rx = SubSeq(total, p + 1, n)
      /\ ReadTo(units, p, j) /\ Agree(Received(s.out), BodiesTo(units, j))
  BY ReadAsIs
<1>11. /\ j + 1 \in 1..Len(units) /\ rx \in Seq(Bytewise) /\ Len(rx) = n - p
       /\ \A m \in 1..n - p : (p - e(j)) + m <= len => rx[m] = b[(p - e(j)) + m]
  <2> HIDE DEF rx
  <2>1. Ahead(units, n, p, j, rx)
    BY <1>0, InTheBuffer
  <2> QED
    BY <2>1 DEF Ahead
<1>1. /\ j + 1 \in 1..Len(units) /\ rx \in Seq(Bytewise) /\ Len(rx) = n - p
      /\ ReadTo(units, p, j) /\ Agree(Received(s.out), BodiesTo(units, j))
      /\ rx = SubSeq(total, p + 1, n)
      /\ \A m \in 1..n - p : (p - e(j)) + m <= len => rx[m] = b[(p - e(j)) + m]
  BY <1>0, <1>11
<1>2. /\ total \in Seq(Bytewise) /\ n \in Nat /\ p \in Nat /\ j \in Nat
      /\ n <= Len(total) /\ Len(total) \in Nat
      /\ e(j) \in Nat /\ e(j + 1) = e(j) + len
      /\ b \in Seq(Bytewise) /\ len \in Nat /\ len > 0
  <2>1. /\ total \in Seq(Bytewise)
        /\ \A k \in 0..Len(units) : e(k) \in 0..Len(total)
        /\ \A k \in 1..Len(units) : e(k) = e(k - 1) + Len(units[k].bytes)
    BY UnitsCarry, Places
  <2>2. j \in 0..Len(units) /\ (j + 1) - 1 = j
    OBVIOUS
  <2>3. b \in Seq(Bytewise) /\ len \in Nat \ {0}
    BY <1>1, UnitsCarry
  <2>5. total \in Seq(Bytewise) /\ n \in Nat /\ p \in Nat /\ j \in Nat
        /\ n <= Len(total) /\ Len(total) \in Nat
    BY <2>1, <1>1
  <2>6. e(j + 1) = e(j) + len
    BY <2>1, <2>2, <1>1
  <2>7. e(j) \in Nat
    BY <2>1
  <2> QED
    BY <2>3, <2>5, <2>6, <2>7
<1>3. p = e(j)
  BY <1>1 DEF ReadTo
<1> HIDE DEF e
<1>4. SubSeq(rx, 1, len) = b
  <2> DEFINE l == SubSeq(rx, 1, len)
  <2>1. \A i \in 1..len : rx[i] \in Bytewise
    BY <1>1, <1>2
  <2>2. l \in Seq(Bytewise) /\ Len(l) = len /\ \A i \in 1..len - 1 + 1 : l[i] = rx[1 + i - 1]
    BY <2>1, <1>2, SubSeqProperties
  <2>3. ASSUME NEW i \in 1..len PROVE l[i] = b[i]
    <3>1. i \in 1..n - p /\ i \in 1..len - 1 + 1 /\ 1 + i - 1 = i /\ (p - e(j)) + i = i
      BY <1>2, <1>3
    <3> QED
      BY <3>1, <2>2, <1>1
  <2> HIDE DEF l
  <2>4. l = b
    BY <2>2, <2>3, <1>2, SeqEqual
  <2> QED
    BY <2>4 DEF l
<1>5. Rest(rx, len) = SubSeq(total, (p + len) + 1, n)
  <2>1. len \in 0..n - p /\ p \in 0..n /\ n \in 0..Len(total)
    BY <1>2
  <2> QED
    BY <2>1, <1>1, <1>2, SliceOfSlice
<1>6. p + len \in 0..n /\ j + 1 \in 0..Len(units) /\ ReadTo(units, p + len, j + 1)
  <2>1. e(j + 1) = p + len
    BY <1>2, <1>3
  <2> QED
    BY <2>1, <1>1, <1>2 DEF ReadTo, e
<1>7. frame = FrameIn(b) /\ frame \in Outputs
  BY <1>4, <1>2 DEF Outputs, Bytewise
<1>8. Agree(Received(out), BodiesTo(units, j + 1))
  <2> DEFINE body == units[j + 1].body
             T == {units[k].body : k \in Nat}
             R == {Absent} \cup {o.body : o \in Outputs}
  <2>1. BodiesTo(units, j + 1) = Append(BodiesTo(units, j), body)
        /\ BodiesTo(units, j) \in Seq(T)
    BY <1>2, BodiesToGrows
  <2>2. ReadsAsSent(units[j + 1])
    BY <1>1, UnitsCarry
  <2>3. s.out \in Seq(Outputs)
    BY DEF Buffers
  <2>4. Received(s.out) \in Seq(R)
        /\ Received(Append(s.out, frame)) =
             Append(Received(s.out), IF frame.event = "message" THEN frame.body ELSE Absent)
    BY <2>3, <1>7, ReceivedAppend
  <2> HIDE DEF T, R
  <2>5. CASE body = Absent
    <3>1. frame.event # "message"
      BY <2>2, <2>5, <1>7 DEF ReadsAsSent
    <3>2. Agree(Received(s.out), Append(BodiesTo(units, j), Absent))
      BY <2>1, <2>4, <1>1, AgreeBut
    <3>3. Append(BodiesTo(units, j), Absent) \in Seq(T \cup {Absent})
      <4>1. BodiesTo(units, j) \in Seq(T \cup {Absent})
        BY <2>1
      <4> QED
        BY <4>1
    <3>4. Agree(Append(Received(s.out), Absent), Append(BodiesTo(units, j), Absent))
      BY <3>2, <3>3, <2>4, AgreeBut
    <3>5. CASE frame.event = "raw"
      BY <3>5, <3>2, <2>1, <2>5
    <3>6. CASE frame.event # "raw"
      BY <3>6, <3>1, <3>4, <2>1, <2>4, <2>5
    <3> QED
      BY <3>5, <3>6
  <2>6. CASE body # Absent
    <3>1. frame = Emitted("message", body)
      BY <2>2, <2>6, <1>7 DEF ReadsAsSent
    <3>2. frame.event = "message" /\ frame.body = body
      BY <3>1 DEF Emitted
    <3>3. Agree(Append(Received(s.out), body), Append(BodiesTo(units, j), body))
      BY <2>1, <2>4, <2>6, <1>1, AgreeBoth
    <3>4. out = Append(s.out, frame)
      BY <3>2
    <3> HIDE DEF out, frame, body
    <3> QED
      BY <3>2, <3>3, <3>4, <2>1, <2>4
  <2> QED
    BY <2>5, <2>6
<1>9. ReadAs(units, n, t, p + len, j + 1)
  <2>1. t.rx = Rest(rx, len) /\ t.out = out
    OBVIOUS
  <2> HIDE DEF t, out
  <2> QED
    BY <2>1, <1>5, <1>6, <1>8 DEF ReadAs
<1> HIDE DEF t
<1>10. Consumed(units, n, t)
  BY <1>6, <1>9 DEF Consumed
<1> QED
  BY <1>10 DEF t

-----------------------------------------------------------------------------
\* TRANSPORTS: the loop reads on, and all there is

\* Where a frame begins, its header is found.
LEMMA HeaderIsFound ==
  ASSUME NEW S, NEW units \in Seq(S), GoodUnits(units),
         NEW n \in 0..Len(StreamBytes(units)), NEW p \in 0..n, n - p >= 6,
         NEW j \in 0..Len(units), ReadTo(units, p, j),
         NEW rx, rx = SubSeq(StreamBytes(units), p + 1, n),
         Framed(units[j + 1].bytes)
  PROVE  /\ ~HeaderFails(rx) /\ TotalLength(rx) = Len(units[j + 1].bytes)
         /\ Len(units[j + 1].bytes) >= HeaderLength
         /\ p = End(units, j)
<1>0. n \in Nat /\ p \in Nat /\ p < n
  <2>1. Len(StreamBytes(units)) \in Nat
    BY Places, UnitsCarry
  <2> QED
    BY <2>1
<1> DEFINE at(m) == (p - End(units, j)) + m
           b == units[j + 1].bytes
<1>1. /\ j + 1 \in 1..Len(units) /\ rx \in Seq(Bytewise) /\ Len(rx) = n - p
      /\ p < End(units, j + 1)
      /\ \A m \in 1..n - p : at(m) <= Len(b) => rx[m] = b[at(m)]
      /\ \A m \in 1..n - p : at(m) = Len(b) + 1 => rx[m] # 16
  <2>1. Ahead(units, n, p, j, rx)
    BY <1>0, InTheBuffer
  <2> QED
    BY <2>1 DEF Ahead
<1>2. p = End(units, j)
  BY DEF ReadTo
<1>3. b \in Seq(Bytewise) /\ Len(b) \in Nat
  BY <1>1, UnitsCarry
<1> HIDE DEF b
<1>4. Len(b) >= 6 /\ ~HeaderFails(b) /\ TotalLength(b) = Len(b)
  BY DEF Framed, b, HeaderLength
<1>5. \A m \in 1..6 : m \in 1..n - p /\ at(m) = m /\ m <= Len(b)
  BY <1>0, <1>2, <1>3, <1>4
<1>6. \A m \in 1..6 : rx[m] = b[m]
  BY <1>1, <1>5 DEF b
<1>7. rx[1] = b[1] /\ rx[2] = b[2] /\ rx[5] = b[5] /\ rx[6] = b[6]
  BY <1>6
<1>8. HeaderFails(rx) = HeaderFails(b)
  BY <1>7 DEF HeaderFails
<1>9. TotalLength(rx) = TotalLength(b)
  BY <1>7 DEF TotalLength, U16At
<1> QED
  BY <1>2, <1>4, <1>8, <1>9 DEF b, HeaderLength

\* What a round does to a buffer in which p bytes are read.
LEMMA RoundCases ==
  ASSUME NEW S, NEW units \in Seq(S), GoodUnits(units),
         NEW n \in 0..Len(StreamBytes(units)), NEW p \in 0..n,
         NEW j \in 0..Len(units), NEW s \in Buffers, ReadAs(units, n, s, p, j)
  PROVE  \/ DrainStep(s) = s /\ n - p < 6
         \/ /\ DrainStep(s) = s /\ n - p >= 6 /\ Framed(units[j + 1].bytes) /\ p = End(units, j)
            /\ Len(units[j + 1].bytes) > n - p
         \/ /\ p < n /\ ~Framed(units[j + 1].bytes) /\ Len(DrainStep(s).rx) < Len(s.rx)
            /\ DrainStep(s) = [rx |-> Tail(s.rx), out |-> s.out]
         \/ LET b == units[j + 1].bytes
                frame == FrameIn(SubSeq(s.rx, 1, Len(b)))
            IN  /\ p < n /\ Framed(b) /\ Len(b) <= n - p /\ Len(DrainStep(s).rx) < Len(s.rx)
                /\ DrainStep(s) =
                     [rx |-> Rest(s.rx, Len(b)),
                      out |-> IF frame.event = "raw" THEN s.out ELSE Append(s.out, frame)]
<1> DEFINE rx == s.rx
           b == units[j + 1].bytes
<1>0. /\ rx = SubSeq(StreamBytes(units), p + 1, n) /\ ReadTo(units, p, j)
  BY ReadAsIs
<1>1. n \in Nat /\ p \in Nat /\ p <= n /\ StreamBytes(units) \in Seq(Bytewise)
  <2>1. Len(StreamBytes(units)) \in Nat /\ StreamBytes(units) \in Seq(Bytewise)
    BY Places, UnitsCarry
  <2> QED
    BY <2>1
<1>2. Len(rx) = n - p /\ rx \in Seq(Bytewise)
  BY <1>0, <1>1, Slice
<1>3. CASE n - p < 6
  BY <1>3, <1>2 DEF DrainStep, HeaderLength
<1>4. CASE n - p >= 6 /\ ~Framed(b)
  <2>1. HeaderFails(rx) \/ TotalLength(rx) < HeaderLength
    <3> HIDE DEF rx
    <3> QED
      BY <1>0, <1>4, NoiseIsSkipped
  <2>2. DrainStep(s) = [rx |-> Tail(rx), out |-> s.out]
    BY <2>1, <1>2, <1>4 DEF DrainStep, HeaderLength
  <2>3. Len(Tail(rx)) < Len(rx)
    <3>1. Len(rx) >= 6
      BY <1>2, <1>4
    <3> HIDE DEF rx
    <3> QED
      BY <3>1, <1>2
  <2>4. p < n
    BY <1>1, <1>4
  <2> QED
    BY <2>2, <2>3, <2>4, <1>4
<1>5. CASE n - p >= 6 /\ Framed(b)
  <2>1. ~HeaderFails(rx) /\ TotalLength(rx) = Len(b) /\ Len(b) >= HeaderLength /\ p = End(units, j)
    <3> HIDE DEF rx
    <3> QED
      BY <1>0, <1>5, HeaderIsFound
  <2>2. p < n /\ Len(b) >= 6
    BY <1>1, <1>5, <2>1 DEF HeaderLength
  <2>5. Len(b) \in Nat
    <3>1. j + 1 \in 1..Len(units)
      <4> HIDE DEF rx
      <4>1. Ahead(units, n, p, j, rx)
        BY <1>0, <2>2, InTheBuffer
      <4> QED
        BY <4>1 DEF Ahead
    <3> QED
      BY <3>1, UnitsCarry
  <2>3. CASE Len(b) > n - p
    <3>1. DrainStep(s) = s
      BY <2>1, <2>3, <1>2, <1>5 DEF DrainStep, HeaderLength
    <3> QED
      BY <3>1, <2>1, <2>3, <1>5
  <2>4. CASE Len(b) <= n - p
    <3> DEFINE frame == FrameIn(SubSeq(rx, 1, Len(b)))
    <3>1. ~(TotalLength(rx) > Len(rx)) /\ ~(Len(rx) < HeaderLength) /\ ~(TotalLength(rx) < HeaderLength)
      BY <2>1, <2>2, <2>4, <2>5, <1>1, <1>2, <1>5 DEF HeaderLength
    <3>2. DrainStep(s) = [rx |-> Rest(rx, Len(b)),
                          out |-> IF frame.event = "raw" THEN s.out ELSE Append(s.out, frame)]
      BY <2>1, <3>1 DEF DrainStep
    <3>3. DrainStep(s).rx = Rest(rx, Len(b))
      BY <3>2
    <3>4. Len(Rest(rx, Len(b))) < Len(rx)
      <4> HIDE DEF rx, b
      <4>1. Len(b) \in 0..Len(rx) /\ Len(rx) \in 0..Len(rx) /\ Len(rx) \in Nat
        BY <2>4, <2>5, <1>1, <1>2
      <4>2. Len(SubSeq(rx, Len(b) + 1, Len(rx))) = Len(rx) - Len(b)
        BY <4>1, <1>2, Slice
      <4>3. Len(rx) - Len(b) < Len(rx)
        BY ONLY <4>1, <2>2, <2>5
      <4> QED
        BY <4>2, <4>3 DEF Rest
    <3> QED
      BY <2>2, <2>4, <3>2, <3>3, <3>4, <1>5
  <2> QED
    BY <2>3, <2>4, <2>5, <1>1
<1> QED
  BY <1>3, <1>4, <1>5, <1>1

\* A round reads on.
LEMMA RoundReads ==
  ASSUME NEW S, NEW units \in Seq(S), GoodUnits(units),
         NEW n \in 0..Len(StreamBytes(units)), NEW s \in Buffers, Consumed(units, n, s)
  PROVE  Consumed(units, n, DrainStep(s))
<1>1. PICK p \in 0..n : \E j \in 0..Len(units) : ReadAs(units, n, s, p, j)
  BY DEF Consumed
<1>2. PICK j \in 0..Len(units) : ReadAs(units, n, s, p, j)
  BY <1>1
<1> DEFINE b == units[j + 1].bytes
           frame == FrameIn(SubSeq(s.rx, 1, Len(b)))
           t == [rx |-> Rest(s.rx, Len(b)),
                 out |-> IF frame.event = "raw" THEN s.out ELSE Append(s.out, frame)]
<1>3. \/ DrainStep(s) = s
      \/ /\ p < n /\ ~Framed(b)
         /\ DrainStep(s) = [rx |-> Tail(s.rx), out |-> s.out]
      \/ p < n /\ Framed(b) /\ Len(b) <= n - p /\ DrainStep(s) = t
  BY <1>2, RoundCases
<1>4. CASE DrainStep(s) = s
  BY <1>4
<1>5. CASE p < n /\ ~Framed(b) /\ DrainStep(s) = [rx |-> Tail(s.rx), out |-> s.out]
  <2>1. Consumed(units, n, [rx |-> Tail(s.rx), out |-> s.out])
    BY <1>2, <1>5, NoiseStep
  <2> QED
    BY <2>1, <1>5
<1>6. CASE p < n /\ Framed(b) /\ Len(b) <= n - p /\ DrainStep(s) = t
  <2>1. Consumed(units, n, t)
    BY <1>2, <1>6, FrameStep
  <2> HIDE DEF t
  <2> QED
    BY <2>1, <1>6
<1> QED
  BY <1>3, <1>4, <1>5, <1>6

\* At rest, nothing that has arrived completely and has a body is still unread.
LEMMA RestIsRead ==
  ASSUME NEW S, NEW units \in Seq(S), GoodUnits(units),
         NEW n \in 0..Len(StreamBytes(units)), NEW p \in 0..n,
         NEW j \in 0..Len(units), NEW s \in Buffers, ReadAs(units, n, s, p, j),
         DrainStep(s) = s,
         NEW k \in 1..Len(units), k > j, End(units, k) <= n
  PROVE  units[k].body = Absent
<1> DEFINE e(i) == End(units, i)
           b(i) == units[i].bytes
           len == Len(units)
<1>0. ReadTo(units, p, j)
  BY ReadAsIs
<1>1. /\ \A i \in 0..len : e(i) \in Nat
      /\ \A i \in 1..len : e(i) = e(i - 1) + Len(b(i)) /\ Len(b(i)) \in Nat \ {0}
      /\ \A i, l \in 0..len : i < l => e(i + 1) <= e(l)
      /\ Len(StreamBytes(units)) \in Nat
  <2>1. /\ \A i \in 0..len : e(i) \in 0..Len(StreamBytes(units))
        /\ StreamBytes(units) \in Seq(Bytewise)
        /\ \A i \in 1..len : e(i) = e(i - 1) + Len(b(i)) /\ Len(b(i)) \in Nat \ {0}
        /\ \A i, l \in 0..len : i < l => e(i + 1) <= e(l)
    BY UnitsCarry, Places
  <2> QED
    BY <2>1
<1>2. len \in Nat /\ n \in Nat /\ p \in Nat /\ p <= n
  BY <1>1
<1>3. e(j) <= p /\ (p = e(j) \/ (p < e(j + 1) /\ ~Framed(b(j + 1))))
  BY <1>0 DEF ReadTo
<1> HIDE DEF e
<1> SUFFICES ASSUME units[k].body # Absent PROVE FALSE
  OBVIOUS
<1>4. Framed(b(k)) /\ Len(b(k)) >= 6
  <2>1. Framed(b(k))
    BY UnitsCarry
  <2> QED
    BY <2>1 DEF Framed, HeaderLength
<1> HIDE DEF b, len
<1>5. j + 1 \in 1..len /\ (j + 1) - 1 = j /\ j + 1 \in 0..len /\ j + 1 <= k /\ k \in 1..len
      /\ j \in 0..len /\ k \in 0..len /\ k - 1 \in 0..len
  BY <1>2 DEF len
<1>6. e(j + 1) = e(j) + Len(b(j + 1)) /\ Len(b(j + 1)) \in Nat /\ e(j) \in Nat /\ e(j + 1) \in Nat
      /\ e(k) = e(k - 1) + Len(b(k)) /\ Len(b(k)) \in Nat /\ e(k) \in Nat /\ e(k - 1) \in Nat
      /\ e(j + 1) <= e(k)
  BY <1>1, <1>5
<1>7. p <= e(k - 1)
  <2>1. CASE k = j + 1
    <3>1. p = e(j) /\ k - 1 = j
      BY <2>1, <1>3, <1>4, <1>5
    <3> QED
      BY <3>1, <1>6
  <2>2. CASE k # j + 1
    <3>1. j < k - 1
      BY <2>2, <1>5, <1>2
    <3>2. e(j + 1) <= e(k - 1)
      BY <3>1, <1>1, <1>5
    <3>3. p <= e(j + 1)
      BY <1>3, <1>6, <1>2
    <3> QED
      BY <3>2, <3>3, <1>6, <1>2
  <2> QED
    BY <2>1, <2>2
<1>8. n - p >= 6
  <2>1. e(k) <= n
    BY DEF e
  <2> QED
    BY ONLY <2>1, <1>7, <1>6, <1>4, <1>2
<1>9. \/ n - p < 6
      \/ p = End(units, j) /\ Len(units[j + 1].bytes) > n - p
      \/ Len(DrainStep(s).rx) < Len(s.rx)
  BY RoundCases
<1>10. ~(Len(DrainStep(s).rx) < Len(s.rx))
  <2>1. Len(s.rx) \in Nat
    BY DEF Buffers
  <2> QED
    BY <2>1
<1>11. p = e(j) /\ Len(b(j + 1)) > n - p
  BY <1>8, <1>9, <1>10, <1>2 DEF e, b
<1>12. e(k) <= n
  BY DEF e
<1> QED
  BY ONLY <1>11, <1>12, <1>6, <1>2

-----------------------------------------------------------------------------
\* TRANSPORTS: the loop over a chunk, and the whole transport

\* The loop reads all there is.
LEMMA DrainReads ==
  ASSUME NEW S, NEW units \in Seq(S), GoodUnits(units),
         NEW n \in 0..Len(StreamBytes(units)), NEW rx \in Seq(Bytewise), NEW out \in Seq(Outputs),
         Consumed(units, n, [rx |-> rx, out |-> out])
  PROVE  /\ Drain(rx, out) \in Buffers /\ DrainStep(Drain(rx, out)) = Drain(rx, out)
         /\ Consumed(units, n, Drain(rx, out))
<1> DEFINE len == Len(rx)
<1>0. len \in Nat
  OBVIOUS
<1>1. PICK after \in [0..len -> Buffers] :
        /\ after[0] = [rx |-> rx, out |-> out]
        /\ \A k \in 1..len : after[k] = DrainStep(after[k - 1])
        /\ Drain(rx, out) = after[len]
        /\ DrainStep(after[len]) = after[len]
  BY DrainIs
<1> DEFINE T == {k \in 0..len : Consumed(units, n, after[k])}
<1>2. 0 \in T
  BY <1>0, <1>1
<1>3. ASSUME NEW k \in 0..len - 1, k \in T PROVE k + 1 \in T
  <2>1. k \in 0..len /\ k + 1 \in 1..len /\ k + 1 \in 0..len /\ (k + 1) - 1 = k
    BY <1>0
  <2>2. after[k] \in Buffers /\ Consumed(units, n, after[k])
    BY <2>1, <1>3
  <2>3. Consumed(units, n, DrainStep(after[k]))
    BY <2>2, RoundReads
  <2>4. after[k + 1] = DrainStep(after[k])
    BY <2>1, <1>1
  <2> QED
    BY <2>1, <2>3, <2>4
<1> HIDE DEF T, len
<1>4. 0..len \subseteq T
  BY <1>0, <1>2, <1>3, CountingUp
<1>5. len \in 0..len
  BY <1>0
<1>6. Consumed(units, n, after[len])
  BY <1>4, <1>5 DEF T
<1> QED
  BY <1>1, <1>5, <1>6 DEF len

\* How many units are complete.
LEMMA CompleteIs ==
  ASSUME NEW S, NEW units \in Seq(S), GoodUnits(units), NEW n \in Nat
  PROVE  /\ Complete(units, n) \in 0..Len(units)
         /\ End(units, Complete(units, n)) <= n
         /\ Complete(units, n) = Len(units) \/ End(units, Complete(units, n) + 1) > n
<1> DEFINE len == Len(units)
           e(k) == End(units, k)
           T == {k \in 0..len : k = len \/ e(k + 1) > n}
<1>1. /\ len \in Nat /\ e(0) = 0 /\ \A k \in 0..len : e(k) \in Nat
  <2>1. /\ End(units, 0) = 0 /\ StreamBytes(units) \in Seq(Bytewise)
        /\ \A k \in 0..Len(units) : End(units, k) \in 0..Len(StreamBytes(units))
    BY UnitsCarry, Places
  <2>2. len \in Nat
    OBVIOUS
  <2> QED
    BY <2>1, <2>2
<1>2. Complete(units, n) = CHOOSE k \in 0..len : e(k) <= n /\ (k = len \/ e(k + 1) > n)
  BY DEF Complete, End, Upto
<1> HIDE DEF e, len
<1>3. PICK k \in T : \A m \in T : k <= m
  <2>1. T \in SUBSET Nat /\ T # {}
    BY <1>1
  <2> HIDE DEF T
  <2> QED
    BY <2>1, LeastExists
<1>4. e(k) <= n
  <2>1. CASE k = 0
    BY <2>1, <1>1
  <2>2. CASE k # 0
    <3>1. k - 1 \in 0..len /\ k - 1 < k /\ k - 1 # len /\ (k - 1) + 1 = k /\ k \in 0..len
      BY <2>2, <1>1
    <3>2. k - 1 \notin T
      BY <3>1, <1>1, <1>3
    <3>3. ~(e((k - 1) + 1) > n)
      BY <3>1, <3>2
    <3>4. ~(e(k) > n)
      BY ONLY <3>1, <3>3
    <3>5. e(k) \in Nat
      BY <3>1, <1>1
    <3> QED
      BY <3>4, <3>5
  <2> QED
    BY <2>1, <2>2
<1>5. \E i \in 0..len : e(i) <= n /\ (i = len \/ e(i + 1) > n)
  BY <1>3, <1>4
<1> DEFINE c == CHOOSE i \in 0..len : e(i) <= n /\ (i = len \/ e(i + 1) > n)
<1>6. c \in 0..len /\ e(c) <= n /\ (c = len \/ e(c + 1) > n)
  BY <1>5
<1>7. Complete(units, n) = c
  BY <1>2
<1> HIDE DEF c
<1>8. /\ Complete(units, n) \in 0..len /\ e(Complete(units, n)) <= n
      /\ (Complete(units, n) = len \/ e(Complete(units, n) + 1) > n)
  BY <1>6, <1>7
<1> QED
  BY <1>8 DEF e, len

\* Units without a body add nothing.
LEMMA AgreeOnwards ==
  ASSUME NEW S, NEW got \in Seq(S), NEW units, NEW j \in Nat, NEW d \in Nat,
         Agree(got, BodiesTo(units, j)),
         \A k \in j + 1..j + d : units[k].body = Absent
  PROVE  Agree(got, BodiesTo(units, j + d))
<1> DEFINE T == {i \in 0..d : Agree(got, BodiesTo(units, j + i))}
<1>1. 0 \in T
  <2>1. j + 0 = j
    OBVIOUS
  <2> QED
    BY <2>1
<1>2. ASSUME NEW i \in 0..d - 1, i \in T PROVE i + 1 \in T
  <2>1. j + i \in Nat /\ (j + i) + 1 = j + (i + 1) /\ (j + i) + 1 \in j + 1..j + d /\ i + 1 \in 0..d
    OBVIOUS
  <2>2. Agree(got, BodiesTo(units, j + i))
    BY <1>2
  <2>3. /\ BodiesTo(units, j + i) \in Seq({units[k].body : k \in Nat})
        /\ BodiesTo(units, (j + i) + 1) = Append(BodiesTo(units, j + i), units[(j + i) + 1].body)
    BY <2>1, BodiesToGrows
  <2>4. units[(j + i) + 1].body = Absent
    BY <2>1
  <2>5. Agree(got, Append(BodiesTo(units, j + i), Absent))
    BY <2>2, <2>3, AgreeBut
  <2>6. Agree(got, BodiesTo(units, (j + i) + 1))
    BY <2>3, <2>4, <2>5
  <2> QED
    BY <2>1, <2>6
<1> HIDE DEF T
<1>3. 0..d \subseteq T
  BY <1>1, <1>2, CountingUp
<1>4. d \in 0..d
  OBVIOUS
<1> QED
  BY <1>3, <1>4 DEF T

\* What was emitted of the first n bytes is what the complete units hold.
LEMMA AllIsRead ==
  ASSUME NEW S, NEW units \in Seq(S), GoodUnits(units),
         NEW n \in 0..Len(StreamBytes(units)), NEW s \in Buffers, Consumed(units, n, s),
         DrainStep(s) = s
  PROVE  Agree(Received(s.out), BodiesTo(units, Complete(units, n)))
<1> DEFINE done == Complete(units, n)
           len == Len(units)
           e(k) == End(units, k)
<1>1. PICK p \in 0..n : \E j \in 0..len : ReadAs(units, n, s, p, j)
  BY DEF Consumed
<1>2. PICK j \in 0..len : ReadAs(units, n, s, p, j)
  BY <1>1
<1>3. Len(StreamBytes(units)) \in Nat /\ n \in Nat /\ p \in Nat /\ p <= n /\ len \in Nat
      /\ j \in Nat
  <2>1. Len(StreamBytes(units)) \in Nat /\ len \in Nat
    BY Places, UnitsCarry
  <2> QED
    BY <2>1
<1>4. done \in 0..len /\ e(done) <= n /\ (done = len \/ e(done + 1) > n)
  BY <1>3, CompleteIs
<1>5. /\ \A i \in 0..len : e(i) \in Nat
      /\ \A i, l \in 0..len : i < l => e(i + 1) <= e(l)
      /\ \A i \in 1..len : e(i) = e(i - 1) + Len(units[i].bytes)
  <2>1. /\ \A i \in 0..len : e(i) \in 0..Len(StreamBytes(units))
        /\ \A i, l \in 0..len : i < l => e(i + 1) <= e(l)
        /\ \A i \in 1..len : e(i) = e(i - 1) + Len(units[i].bytes)
    BY UnitsCarry, Places
  <2> QED
    BY <2>1, <1>3
<1>6. ReadTo(units, p, j) /\ Agree(Received(s.out), BodiesTo(units, j))
  BY <1>2, ReadAsIs
<1>7. e(j) <= n
  <2>1. e(j) <= p /\ e(j) \in Nat
    BY <1>6, <1>5 DEF ReadTo
  <2> QED
    BY ONLY <2>1, <1>3
<1> HIDE DEF done, e, len
<1>8. j <= done
  <2> SUFFICES ASSUME done < j PROVE FALSE
    BY <1>3, <1>4
  <2>1. e(done + 1) <= e(j) /\ done # len /\ done + 1 \in 0..len
    BY <1>3, <1>4, <1>5
  <2>2. e(done + 1) \in Nat /\ e(j) \in Nat
    BY <2>1, <1>5
  <2> QED
    BY <2>1, <2>2, <1>4, <1>7, <1>3
<1>9. ASSUME NEW k \in j + 1..j + (done - j) PROVE units[k].body = Absent
  <2>1. k \in 1..len /\ k > j /\ k <= done /\ k \in 0..len
    BY <1>3, <1>4, <1>8
  <2>2. e(k) <= n
    <3>1. CASE k = done
      BY <3>1, <1>4
    <3>2. CASE k # done
      <4>1. k < done /\ k + 1 \in 1..len /\ k + 1 \in 0..len /\ (k + 1) - 1 = k
        BY <3>2, <2>1, <1>4, <1>3
      <4>2. e(k + 1) <= e(done)
        BY <4>1, <2>1, <1>4, <1>5
      <4>3. e(k) <= e(k + 1)
        <5>1. units[k + 1].bytes \in Seq(Bytewise)
          BY <4>1, UnitsCarry DEF len
        <5>2. e(k + 1) = e(k) + Len(units[k + 1].bytes)
          BY <4>1, <1>5
        <5> QED
          BY <5>1, <5>2, <2>1, <1>5
      <4>4. e(k) \in Nat /\ e(k + 1) \in Nat /\ e(done) \in Nat
        BY <4>1, <2>1, <1>4, <1>5
      <4> QED
        BY <4>2, <4>3, <4>4, <1>3, <1>4
    <3> QED
      BY <3>1, <3>2
  <2> QED
    BY <2>1, <2>2, <1>2, RestIsRead DEF e, len
<1>10. done - j \in Nat /\ j + (done - j) = done
  BY <1>3, <1>4, <1>8
<1>11. Received(s.out) \in Seq({Absent} \cup {o.body : o \in Outputs})
  <2>1. s.out \in Seq(Outputs) /\ Emitted("error", Absent) \in Outputs
    BY DEF Buffers, Outputs
  <2> QED
    BY <2>1, ReceivedAppend
<1>12. Agree(Received(s.out), BodiesTo(units, j + (done - j)))
  BY <1>3, <1>6, <1>9, <1>10, <1>11, AgreeOnwards
<1> QED
  BY <1>10, <1>12 DEF done

\* A chunk is read after what was in the buffer.
LEMMA ChunkArrives ==
  ASSUME NEW S, NEW units \in Seq(S), GoodUnits(units),
         NEW a \in 0..Len(StreamBytes(units)), NEW n \in a..Len(StreamBytes(units)),
         NEW rx, NEW out \in Seq(Outputs), Consumed(units, a, [rx |-> rx, out |-> out])
  PROVE  LET chunk == SubSeq(StreamBytes(units), a + 1, n)
         IN  /\ rx \o chunk \in Seq(Bytewise)
             /\ Consumed(units, n, [rx |-> rx \o chunk, out |-> out])
<1> DEFINE total == StreamBytes(units)
           chunk == SubSeq(total, a + 1, n)
           s == [rx |-> rx, out |-> out]
           t == [rx |-> rx \o chunk, out |-> out]
<1>1. PICK p \in 0..a : \E j \in 0..Len(units) : ReadAs(units, a, s, p, j)
  BY DEF Consumed
<1>2. PICK j \in 0..Len(units) : ReadAs(units, a, s, p, j)
  BY <1>1
<1>3. /\ rx = SubSeq(total, p + 1, a) /\ ReadTo(units, p, j)
      /\ Agree(Received(out), BodiesTo(units, j))
  BY <1>2, ReadAsIs
<1>4. total \in Seq(Bytewise) /\ Len(total) \in Nat
  BY Places, UnitsCarry
<1> HIDE DEF total
<1>5. a \in Nat /\ n \in Nat /\ p \in Nat /\ p <= a /\ a <= n /\ n <= Len(total)
  BY <1>4 DEF total
<1>6. a \in 0..Len(total) /\ n \in 0..Len(total) /\ p \in 0..a /\ a \in 0..n /\ p \in 0..n
  BY ONLY <1>4, <1>5
<1>7. rx \in Seq(Bytewise) /\ Len(rx) = a - p /\ \A m \in 1..a - p : rx[m] = total[p + m]
  BY <1>3, <1>4, <1>6, Slice
<1>8. chunk \in Seq(Bytewise) /\ Len(chunk) = n - a /\ \A m \in 1..n - a : chunk[m] = total[a + m]
  BY <1>4, <1>6, Slice
<1> DEFINE r == SubSeq(total, p + 1, n)
           l == rx \o chunk
<1>9. r \in Seq(Bytewise) /\ Len(r) = n - p /\ \A m \in 1..n - p : r[m] = total[p + m]
  BY <1>4, <1>6, Slice
<1> HIDE DEF chunk, r
<1>10. l \in Seq(Bytewise) /\ Len(l) = (a - p) + (n - a)
       /\ \A m \in 1..(a - p) + (n - a) : l[m] = IF m <= a - p THEN rx[m] ELSE chunk[m - (a - p)]
  <2>1. l \in Seq(Bytewise) /\ Len(l) = Len(rx) + Len(chunk)
        /\ \A m \in 1..Len(rx) + Len(chunk) :
             l[m] = IF m <= Len(rx) THEN rx[m] ELSE chunk[m - Len(rx)]
    <3>1. rx \in Seq(Bytewise) /\ chunk \in Seq(Bytewise)
      BY <1>7, <1>8
    <3> QED
      BY <3>1, ConcatProperties
  <2>2. Len(rx) = a - p /\ Len(chunk) = n - a
    BY <1>7, <1>8
  <2> HIDE DEF l
  <2> QED
    BY ONLY <2>1, <2>2
<1>11. (a - p) + (n - a) = n - p
  BY ONLY <1>5
<1>12. ASSUME NEW m \in 1..n - p PROVE l[m] = r[m]
  <2>1. m \in Nat /\ m >= 1 /\ m <= n - p
    BY <1>5
  <2>2. CASE m <= a - p
    <3>1. m \in 1..a - p
      BY ONLY <2>1, <2>2, <1>5
    <3> QED
      BY <3>1, <2>2, <1>7, <1>9, <1>10, <1>11
  <2>3. CASE ~(m <= a - p)
    <3>1. m - (a - p) \in 1..n - a /\ a + (m - (a - p)) = p + m
      BY ONLY <2>1, <2>3, <1>5
    <3>2. l[m] = chunk[m - (a - p)]
      BY <2>3, <1>10, <1>11
    <3>3. chunk[m - (a - p)] = total[p + m]
      BY <3>1, <1>8
    <3> QED
      BY <3>2, <3>3, <1>9
  <2> QED
    BY <2>2, <2>3
<1> HIDE DEF l
<1>13. l = r
  BY <1>9, <1>10, <1>11, <1>12, SeqEqual
<1> DEFINE w == [rx |-> l, out |-> out]
<1>14. ReadAs(units, n, w, p, j)
  <2>1. w.rx = SubSeq(StreamBytes(units), p + 1, n) /\ w.out = out
    BY <1>13 DEF r, total
  <2> HIDE DEF w
  <2> QED
    BY <2>1, <1>3 DEF ReadAs
<1> HIDE DEF w
<1>15. Consumed(units, n, w)
  BY <1>6, <1>14 DEF Consumed
<1> QED
  BY <1>10, <1>15 DEF w, l, chunk, total

-----------------------------------------------------------------------------
\* TRANSPORTS: the invariant of a link

Buffer(l) == [rx |-> l.rx, out |-> l.out]

IsLink(l) ==
  l = [kind |-> l.kind, units |-> l.units, sock |-> l.sock, ended |-> l.ended,
       closed |-> l.closed, bind |-> l.bind, close |-> l.close, stream |-> l.stream,
       rx |-> l.rx, out |-> l.out, arrived |-> l.arrived]

\* It is one of the streams that is sent, ...
LinkSent(l) ==
  /\ l.kind \in {"tcp", "udp"} /\ l.units \in Seq({l.units[k] : k \in DOMAIN l.units})
  /\ GoodUnits(l.units)

\* ... over TCP the first n bytes of it are consumed and the others still to come, ...
StreamRead(l) ==
  l.kind = "tcp" =>
    \E n \in 0..Len(StreamBytes(l.units)) :
      /\ l.stream = SubSeq(StreamBytes(l.units), n + 1, Len(StreamBytes(l.units)))
      /\ Consumed(l.units, n, Buffer(l))

\* ... and what was emitted is what arrived.
LinkReads(l) ==
  /\ l.out \in Seq(Outputs) /\ l.arrived \in Seq(1..Len(l.units))
  /\ Agree(Received(l.out), Delivered(l.units, l.arrived))

LinkInv == IsLink(link) /\ LinkSent(link) /\ LinkReads(link) /\ StreamRead(link)

ReceivedType(out) == Received(out) \in Seq({Absent} \cup {o.body : o \in Outputs})

LEMMA ErrorIsOutput == Emitted("error", Absent) \in Outputs
BY DEF Outputs

\* An error that is emitted is no message.
LEMMA ErrorAdds ==
  ASSUME NEW out \in Seq(Outputs)
  PROVE  /\ Append(out, Emitted("error", Absent)) \in Seq(Outputs)
         /\ Received(out) \in Seq({Absent} \cup {o.body : o \in Outputs})
         /\ Received(Append(out, Emitted("error", Absent))) = Append(Received(out), Absent)
<1> DEFINE e == Emitted("error", Absent)
<1>1. e \in Outputs /\ e.event # "message"
  BY ErrorIsOutput DEF Emitted
<1> HIDE DEF e
<1>2. Append(out, e) \in Seq(Outputs)
  BY <1>1
<1>3. Received(out) \in Seq({Absent} \cup {o.body : o \in Outputs})
      /\ Received(Append(out, e)) =
           Append(Received(out), IF e.event = "message" THEN e.body ELSE Absent)
  BY <1>1, ReceivedAppend
<1> QED
  BY <1>1, <1>2, <1>3 DEF e

LEMMA BodiesSeq ==
  ASSUME NEW units, NEW j \in Nat
  PROVE  BodiesTo(units, j) \in Seq({units[k].body : k \in Nat})
BY BodiesToGrows

LEMMA DeliveredGrows ==
  ASSUME NEW units, NEW arrived \in Seq(1..Len(units)), NEW i \in 1..Len(units)
  PROVE  /\ Delivered(units, arrived) \in Seq({units[k].body : k \in 1..Len(units)})
         /\ Delivered(units, Append(arrived, i)) = Append(Delivered(units, arrived), units[i].body)
<1> DEFINE S == {units[k].body : k \in 1..Len(units)}
           a == Append(arrived, i)
           n == Len(arrived)
           b(k) == units[k].body
<1>1. /\ n \in Nat /\ Len(a) = n + 1 /\ a[n + 1] = i
      /\ \A k \in 1..n : a[k] = arrived[k]
      /\ \A k \in 1..n : arrived[k] \in 1..Len(units)
  OBVIOUS
<1>2. \A k \in 1..Len(units) : b(k) \in S
  OBVIOUS
<1> DEFINE old == [k \in 1..n |-> b(arrived[k])]
           new == [k \in 1..n + 1 |-> b(a[k])]
<1>3. old = Delivered(units, arrived) /\ new = Delivered(units, a)
  BY <1>1 DEF Delivered
<1> HIDE DEF S, a, n, b
<1>4. old \in Seq(S) /\ Len(old) = n
  <2>1. \A k \in 1..n : b(arrived[k]) \in S
    BY <1>1, <1>2
  <2> QED
    BY <2>1, <1>1
<1>5. new \in Seq(S) /\ Len(new) = n + 1
  <2>1. \A k \in 1..n + 1 : a[k] \in 1..Len(units)
    <3> SUFFICES ASSUME NEW k \in 1..n + 1 PROVE a[k] \in 1..Len(units)
      OBVIOUS
    <3>1. k \in 1..n \/ k = n + 1
      BY <1>1
    <3> QED
      BY <3>1, <1>1
  <2>2. \A k \in 1..n + 1 : b(a[k]) \in S
    BY <2>1, <1>2
  <2> QED
    BY <2>2, <1>1
<1>6. b(i) \in S
  BY <1>2
<1>7. Append(old, b(i)) \in Seq(S) /\ Len(Append(old, b(i))) = n + 1
      /\ Append(old, b(i))[n + 1] = b(i) /\ \A k \in 1..n : Append(old, b(i))[k] = old[k]
  <2> DEFINE v == b(i)
  <2>1. v \in S
    BY <1>6
  <2> HIDE DEF v
  <2>2. Append(old, v) \in Seq(S) /\ Len(Append(old, v)) = n + 1 /\ Append(old, v)[n + 1] = v
        /\ \A k \in 1..n : Append(old, v)[k] = old[k]
    BY <2>1, <1>4, <1>1
  <2> QED
    BY <2>2 DEF v
<1>8. \A k \in 1..n + 1 : new[k] = Append(old, b(i))[k]
  <2> SUFFICES ASSUME NEW k \in 1..n + 1 PROVE new[k] = Append(old, b(i))[k]
    OBVIOUS
  <2>1. k \in 1..n \/ k = n + 1
    BY <1>1
  <2>2. n + 1 \in 1..n + 1
    BY <1>1
  <2> QED
    BY <2>1, <2>2, <1>1, <1>7
<1> HIDE DEF old, new
<1>9. new = Append(old, b(i))
  BY <1>5, <1>7, <1>8, SeqEqual
<1> QED
  BY <1>3, <1>4, <1>9 DEF a, S, b

\* A change of the socket alone, and one that emits an error besides.
LEMMA SocketChanges ==
  ASSUME LinkInv, NEW l, IsLink(l), l.kind = link.kind, l.units = link.units,
         l.stream = link.stream, l.rx = link.rx, l.arrived = link.arrived,
         l.out \in {link.out, Append(link.out, Emitted("error", Absent))}
  PROVE  IsLink(l) /\ LinkSent(l) /\ LinkReads(l) /\ StreamRead(l)
<1>1. LinkSent(l)
  BY DEF LinkInv, LinkSent
<1>2. CASE l.out = link.out
  <2>1. LinkReads(l)
    BY <1>2 DEF LinkInv, LinkReads
  <2>2. Buffer(l) = Buffer(link)
    BY <1>2 DEF Buffer
  <2>3. StreamRead(l)
    BY <2>2 DEF LinkInv, StreamRead
  <2> QED
    BY <1>1, <2>1, <2>3
<1>3. CASE l.out = Append(link.out, Emitted("error", Absent))
  <2>0. link.out \in Seq(Outputs) /\ link.arrived \in Seq(1..Len(link.units))
        /\ Agree(Received(link.out), Delivered(link.units, link.arrived))
    BY DEF LinkInv, LinkReads
  <2>1. /\ l.out \in Seq(Outputs)
        /\ Received(link.out) \in Seq({Absent} \cup {o.body : o \in Outputs})
        /\ Received(l.out) = Append(Received(link.out), Absent)
    BY <1>3, <2>0, ErrorAdds
  <2>2. Delivered(link.units, link.arrived) \in Seq({Absent} \cup {link.units[k].body : k \in 1..Len(link.units)})
    <3>1. \A k \in 1..Len(link.arrived) : link.arrived[k] \in 1..Len(link.units)
      BY <2>0
    <3>2. Len(link.arrived) \in Nat
      BY <2>0
    <3> QED
      BY <3>1, <3>2 DEF Delivered
  <2>3. Agree(Received(l.out), Delivered(l.units, l.arrived))
    BY <2>0, <2>1, <2>2, AgreeBut
  <2>4. LinkReads(l)
    BY <2>0, <2>1, <2>3 DEF LinkReads
  <2>5. StreamRead(l)
    <3> SUFFICES ASSUME link.kind = "tcp"
                 PROVE  \E n \in 0..Len(StreamBytes(link.units)) :
                          /\ link.stream = SubSeq(StreamBytes(link.units), n + 1, Len(StreamBytes(link.units)))
                          /\ Consumed(link.units, n, Buffer(l))
      BY DEF StreamRead
    <3>1. PICK n \in 0..Len(StreamBytes(link.units)) :
            /\ link.stream = SubSeq(StreamBytes(link.units), n + 1, Len(StreamBytes(link.units)))
            /\ Consumed(link.units, n, Buffer(link))
      BY DEF LinkInv, StreamRead
    <3>2. PICK p \in 0..n : \E j \in 0..Len(link.units) : ReadAs(link.units, n, Buffer(link), p, j)
      BY <3>1 DEF Consumed
    <3>3. PICK j \in 0..Len(link.units) : ReadAs(link.units, n, Buffer(link), p, j)
      BY <3>2
    <3>4. Len(link.units) \in Nat
      BY DEF LinkInv, LinkSent
    <3>5. /\ link.rx = SubSeq(StreamBytes(link.units), p + 1, n) /\ ReadTo(link.units, p, j)
          /\ Agree(Received(link.out), BodiesTo(link.units, j))
      BY <3>3 DEF ReadAs, Buffer
    <3>6. BodiesTo(link.units, j) \in Seq({link.units[k].body : k \in Nat})
      BY <3>4, BodiesSeq
    <3>7. Agree(Received(l.out), BodiesTo(link.units, j))
      BY <3>5, <3>6, <2>1, AgreeBut
    <3>8. ReadAs(link.units, n, Buffer(l), p, j)
      BY <3>5, <3>7 DEF ReadAs, Buffer
    <3>9. Consumed(link.units, n, Buffer(l))
      BY <3>8 DEF Consumed
    <3> QED
      BY <3>1, <3>9
  <2> QED
    BY <1>1, <2>4, <2>5
<1> QED
  BY <1>2, <1>3

LEMMA LinkBegins == LinkInit => LinkInv
<1> SUFFICES ASSUME NEW s \in Streams, link = LinkOf(s) PROVE LinkInv
  BY DEF LinkInit
<1> DEFINE S == {s.units[k] : k \in DOMAIN s.units}
           total == StreamBytes(s.units)
<1>1. s.kind \in {"tcp", "udp"} /\ s.units \in Seq(S) /\ GoodUnits(s.units)
  <2>1. s.units \in Seq(S) /\ \A k \in DOMAIN s.units : IsUnit(s.units[k])
    BY StreamsAssumption
  <2>2. DOMAIN s.units = 1..Len(s.units)
    BY <2>1
  <2> QED
    BY <2>1, <2>2, StreamsAssumption DEF GoodUnits
<1>2. /\ link.kind = s.kind /\ link.units = s.units /\ link.rx = <<>> /\ link.out = <<>>
      /\ link.arrived = <<>> /\ link.stream = IF s.kind = "tcp" THEN total ELSE <<>>
      /\ IsLink(link)
  BY DEF LinkOf, IsLink
<1>3. LinkSent(link)
  BY <1>1, <1>2 DEF LinkSent
<1>4. Received(<<>>) = <<>> /\ Delivered(s.units, <<>>) = <<>> /\ BodiesTo(s.units, 0) = <<>>
  BY DEF Received, Delivered, BodiesTo
<1>5. LinkReads(link)
  BY <1>2, <1>4, AgreeNothing DEF LinkReads
<1>6. StreamRead(link)
  <2>1. total \in Seq(Bytewise) /\ Len(total) \in Nat /\ End(s.units, 0) = 0
    BY <1>1, UnitsCarry, Places
  <2>2. Len(s.units) \in Nat
    BY <1>1
  <2> HIDE DEF total, S
  <2>3. SubSeq(total, 0 + 1, Len(total)) = total /\ SubSeq(total, 0 + 1, 0) = <<>>
    BY <2>1
  <2>4. ReadTo(s.units, 0, 0)
    BY <2>1 DEF ReadTo
  <2>5. ReadAs(s.units, 0, Buffer(link), 0, 0)
    BY <2>3, <2>4, <1>2, <1>4, AgreeNothing DEF ReadAs, Buffer, total
  <2>6. Consumed(s.units, 0, Buffer(link))
    <3>1. 0 \in 0..0 /\ 0 \in 0..Len(s.units)
      BY <2>2
    <3> QED
      BY <3>1, <2>5 DEF Consumed
  <2>7. 0 \in 0..Len(total)
    BY <2>1
  <2> QED
    BY <2>3, <2>6, <2>7, <1>2 DEF StreamRead, total
<1> QED
  BY <1>2, <1>3, <1>5, <1>6 DEF LinkInv

\* The record of a link to which a chunk comes, and of one to which a datagram comes.
Chunked(l, s, r, o, a) == [l EXCEPT !.stream = s, !.rx = r, !.out = o, !.arrived = a]
ChunkedTo(l, s, r, o, a) ==
  [kind |-> l.kind, units |-> l.units, sock |-> l.sock, ended |-> l.ended,
   closed |-> l.closed, bind |-> l.bind, close |-> l.close,
   stream |-> s, rx |-> r, out |-> o, arrived |-> a]

Answered(l, o, a) == [l EXCEPT !.arrived = a, !.out = o]
AnsweredTo(l, o, a) ==
  [kind |-> l.kind, units |-> l.units, sock |-> l.sock, ended |-> l.ended,
   closed |-> l.closed, bind |-> l.bind, close |-> l.close,
   stream |-> l.stream, rx |-> l.rx, out |-> o, arrived |-> a]

LEMMA ChunkChange ==
  ASSUME NEW l, IsLink(l), NEW s, NEW r, NEW o, NEW a
  PROVE  Chunked(l, s, r, o, a) = ChunkedTo(l, s, r, o, a)
<1> DEFINE kind == l.kind  units == l.units  sock == l.sock  ended == l.ended
           closed == l.closed  bind == l.bind  close == l.close
           stream == l.stream  rx == l.rx  out == l.out  arrived == l.arrived
<1>1. l = [kind |-> kind, units |-> units, sock |-> sock, ended |-> ended,
           closed |-> closed, bind |-> bind, close |-> close,
           stream |-> stream, rx |-> rx, out |-> out, arrived |-> arrived]
  BY DEF IsLink
<1> HIDE DEF kind, units, sock, ended, closed, bind, close, stream, rx, out, arrived
<1> DEFINE l1 == [kind |-> kind, units |-> units, sock |-> sock, ended |-> ended,
                 closed |-> closed, bind |-> bind, close |-> close,
                 stream |-> s, rx |-> rx, out |-> out, arrived |-> arrived]
           l2 == [kind |-> kind, units |-> units, sock |-> sock, ended |-> ended,
                 closed |-> closed, bind |-> bind, close |-> close,
                 stream |-> s, rx |-> r, out |-> out, arrived |-> arrived]
           l3 == [kind |-> kind, units |-> units, sock |-> sock, ended |-> ended,
                 closed |-> closed, bind |-> bind, close |-> close,
                 stream |-> s, rx |-> r, out |-> o, arrived |-> arrived]
           l4 == [kind |-> kind, units |-> units, sock |-> sock, ended |-> ended,
                 closed |-> closed, bind |-> bind, close |-> close,
                 stream |-> s, rx |-> r, out |-> o, arrived |-> a]
<1>2. [l EXCEPT !.stream = s] = l1
  BY <1>1
<1>3. [l1 EXCEPT !.rx = r] = l2
  BY <1>1
<1>4. [l2 EXCEPT !.out = o] = l3
  BY <1>1
<1>5. [l3 EXCEPT !.arrived = a] = l4
  BY <1>1
<1> HIDE DEF l1, l2, l3, l4
<1>6. Chunked(l, s, r, o, a) = l4
  BY <1>2, <1>3, <1>4, <1>5 DEF Chunked
<1> QED
  BY <1>6 DEF ChunkedTo, l4, kind, units, sock, ended, closed, bind, close, stream, rx, out, arrived

LEMMA DatagramChange ==
  ASSUME NEW l, IsLink(l), NEW o, NEW a
  PROVE  Answered(l, o, a) = AnsweredTo(l, o, a)
<1> DEFINE kind == l.kind  units == l.units  sock == l.sock  ended == l.ended
           closed == l.closed  bind == l.bind  close == l.close
           stream == l.stream  rx == l.rx  out == l.out  arrived == l.arrived
<1>1. l = [kind |-> kind, units |-> units, sock |-> sock, ended |-> ended,
           closed |-> closed, bind |-> bind, close |-> close,
           stream |-> stream, rx |-> rx, out |-> out, arrived |-> arrived]
  BY DEF IsLink
<1> HIDE DEF kind, units, sock, ended, closed, bind, close, stream, rx, out, arrived
<1> DEFINE l1 == [kind |-> kind, units |-> units, sock |-> sock, ended |-> ended,
                 closed |-> closed, bind |-> bind, close |-> close,
                 stream |-> stream, rx |-> rx, out |-> out, arrived |-> a]
           l2 == [kind |-> kind, units |-> units, sock |-> sock, ended |-> ended,
                 closed |-> closed, bind |-> bind, close |-> close,
                 stream |-> stream, rx |-> rx, out |-> o, arrived |-> a]
<1>2. [l EXCEPT !.arrived = a] = l1
  BY <1>1
<1>3. [l1 EXCEPT !.out = o] = l2
  BY <1>1
<1> HIDE DEF l1, l2
<1>4. Answered(l, o, a) = l2
  BY <1>2, <1>3 DEF Answered
<1> QED
  BY <1>4 DEF AnsweredTo, l2, kind, units, sock, ended, closed, bind, close, stream, rx, out, arrived

LEMMA ChunkIsRead ==
  LinkInv /\ OnData => LinkInv'
<1> SUFFICES ASSUME LinkInv, OnData PROVE LinkInv'
  OBVIOUS
<1> DEFINE units == link.units
           total == StreamBytes(units)
           N == Len(total)
           S == {units[k] : k \in DOMAIN units}
<1>1. PICK size \in ChunkSizes :
        LET n == IF size < Len(link.stream) THEN size ELSE Len(link.stream)
            drained == Drain(link.rx \o SubSeq(link.stream, 1, n), link.out)
            left == Len(link.stream) - n
            done == Complete(link.units, Len(StreamBytes(link.units)) - left)
        IN  link' = [link EXCEPT !.stream = Rest(@, n), !.rx = drained.rx,
                                 !.out = drained.out, !.arrived = [i \in 1..done |-> i]]
  BY DEF OnData
<1>2. link.kind = "tcp" /\ size \in Nat
  BY ChunksAssumption DEF OnData, Tcp
<1>3. /\ units \in Seq(S) /\ GoodUnits(units)
      /\ link.out \in Seq(Outputs)
      /\ IsLink(link)
  BY DEF LinkInv, LinkSent, LinkReads
<1>4. PICK a \in 0..N : /\ link.stream = SubSeq(total, a + 1, N)
                        /\ Consumed(units, a, Buffer(link))
  BY <1>2 DEF LinkInv, StreamRead
<1>5. total \in Seq(Bytewise) /\ N \in Nat
  BY <1>3, Places, UnitsCarry
<1> DEFINE n == IF size < Len(link.stream) THEN size ELSE Len(link.stream)
           chunk == SubSeq(link.stream, 1, n)
           buffer == link.rx \o chunk
           drained == Drain(buffer, link.out)
           done == Complete(units, N - (Len(link.stream) - n))
           stream == Rest(link.stream, n)
           arrived == [i \in 1..done |-> i]
<1>6. link' = [link EXCEPT !.stream = stream, !.rx = drained.rx,
                           !.out = drained.out, !.arrived = arrived]
  BY <1>1
<1> HIDE DEF total, N, S, units, drained
<1>7. a \in Nat /\ a <= N /\ Len(link.stream) = N - a
  <2>1. N \in 0..Len(total) /\ a \in 0..N
    BY <1>5 DEF N
  <2>2. Len(SubSeq(total, a + 1, N)) = N - a
    BY <2>1, <1>5, Slice
  <2> QED
    BY <2>2, <1>4, <1>5
<1>8. n \in Nat /\ n <= N - a /\ n \in 0..N - a /\ a + n \in a..N /\ a + n \in 0..N
      /\ N - (Len(link.stream) - n) = a + n
  <2>1. n \in Nat /\ n <= N - a
    BY <1>2, <1>5, <1>7
  <2>2. N - (Len(link.stream) - n) = a + n
    BY ONLY <2>1, <1>5, <1>7
  <2>3. n \in 0..N - a /\ a + n \in a..N /\ a + n \in 0..N
    BY ONLY <2>1, <1>5, <1>7
  <2> QED
    BY <2>1, <2>2, <2>3
<1> HIDE DEF n
<1>9. stream = SubSeq(total, (a + n) + 1, N)
  <2>1. N \in 0..Len(total) /\ a \in 0..N
    BY <1>5 DEF N
  <2> QED
    BY <2>1, <1>4, <1>5, <1>8, SliceOfSlice
<1>10. chunk = SubSeq(total, a + 1, a + n)
  <2> DEFINE r == link.stream
             l == SubSeq(total, a + 1, a + n)
  <2>1. N \in 0..Len(total) /\ a \in 0..N /\ a + n \in 0..Len(total) /\ a \in 0..a + n
    BY <1>5, <1>7, <1>8 DEF N
  <2>2. r \in Seq(Bytewise) /\ Len(r) = N - a /\ \A m \in 1..N - a : r[m] = total[a + m]
    BY <2>1, <1>4, <1>5, Slice
  <2>3. l \in Seq(Bytewise) /\ Len(l) = (a + n) - a /\ \A m \in 1..(a + n) - a : l[m] = total[a + m]
    BY <2>1, <1>5, Slice
  <2>4. (a + n) - a = n
    BY ONLY <1>7, <1>8
  <2>5. chunk \in Seq(Bytewise) /\ Len(chunk) = n /\ \A m \in 1..n : chunk[m] = r[m]
    <3>1. n \in 0..Len(r) /\ 0 \in 0..n /\ 0 + 1 = 1 /\ n - 0 = n
      BY <1>7, <1>8
    <3>2. SubSeq(r, 0 + 1, n) \in Seq(Bytewise) /\ Len(SubSeq(r, 0 + 1, n)) = n - 0
          /\ \A m \in 1..n - 0 : SubSeq(r, 0 + 1, n)[m] = r[0 + m]
      <4> HIDE DEF r
      <4> QED
        BY <3>1, <2>2, Slice
    <3>3. \A m \in 1..n : 0 + m = m
      BY <1>8
    <3> QED
      BY <3>1, <3>2, <3>3
  <2>6. \A m \in 1..n : chunk[m] = l[m]
    <3> SUFFICES ASSUME NEW m \in 1..n PROVE chunk[m] = l[m]
      OBVIOUS
    <3>1. m \in 1..N - a
      BY <1>5, <1>7, <1>8
    <3> QED
      BY <3>1, <2>2, <2>3, <2>4, <2>5
  <2> HIDE DEF chunk, l
  <2>7. chunk = l
    BY <2>3, <2>4, <2>5, <2>6, SeqEqual
  <2> QED
    BY <2>7 DEF l
<1> HIDE DEF chunk, stream
<1>11. buffer \in Seq(Bytewise)
       /\ Consumed(units, a + n, [rx |-> buffer, out |-> link.out])
  <2>1. Consumed(units, a, [rx |-> link.rx, out |-> link.out])
    BY <1>4 DEF Buffer
  <2>2. a \in 0..Len(StreamBytes(units)) /\ a + n \in a..Len(StreamBytes(units))
    BY <1>8 DEF N, total
  <2>3. link.rx \o SubSeq(StreamBytes(units), a + 1, a + n) \in Seq(Bytewise)
        /\ Consumed(units, a + n,
                    [rx |-> link.rx \o SubSeq(StreamBytes(units), a + 1, a + n), out |-> link.out])
    BY <1>3, <2>1, <2>2, ChunkArrives
  <2> QED
    BY <2>3, <1>10 DEF total
<1> HIDE DEF buffer
<1>12. a + n \in 0..Len(StreamBytes(units))
  BY <1>8 DEF N, total
<1>13. drained \in Buffers /\ DrainStep(drained) = drained /\ Consumed(units, a + n, drained)
  BY <1>3, <1>11, <1>12, DrainReads DEF drained
<1>14. Agree(Received(drained.out), BodiesTo(units, Complete(units, a + n)))
  BY <1>3, <1>12, <1>13, AllIsRead
<1>15. done = Complete(units, a + n) /\ done \in 0..Len(units)
  <2>1. done = Complete(units, a + n)
    BY <1>8
  <2>2. a + n \in Nat
    BY <1>7, <1>8
  <2> QED
    BY <2>1, <2>2, <1>3, CompleteIs
<1> HIDE DEF done
<1>16. arrived \in Seq(1..Len(units)) /\ Delivered(units, arrived) = BodiesTo(units, done)
  <2>1. Len(units) \in Nat /\ done \in Nat /\ \A i \in 1..done : i \in 1..Len(units)
    <3>1. Len(units) \in Nat
      BY <1>3
    <3> QED
      BY <3>1, <1>15
  <2>2. arrived \in Seq(1..Len(units)) /\ Len(arrived) = done
    BY <2>1
  <2> QED
    BY <2>2 DEF Delivered, BodiesTo
<1> HIDE DEF arrived
<1> DEFINE new == [kind |-> link.kind, units |-> units, sock |-> link.sock, ended |-> link.ended,
                   closed |-> link.closed, bind |-> link.bind, close |-> link.close,
                   stream |-> stream, rx |-> drained.rx, out |-> drained.out, arrived |-> arrived]
<1>17. link' = new
  <2> DEFINE r == drained.rx
             o == drained.out
  <2>1. link' = Chunked(link, stream, r, o, arrived)
    BY <1>6 DEF Chunked
  <2>2. new = ChunkedTo(link, stream, r, o, arrived)
    BY DEF units, ChunkedTo
  <2> HIDE DEF r, o, new
  <2>3. Chunked(link, stream, r, o, arrived) = ChunkedTo(link, stream, r, o, arrived)
    <3>1. IsLink(link)
      BY <1>3
    <3> QED
      BY <3>1, ChunkChange
  <2> QED
    BY <2>1, <2>2, <2>3
<1>18. /\ IsLink(new) /\ new.kind = "tcp" /\ new.units = units /\ new.stream = stream
       /\ new.rx = drained.rx /\ new.out = drained.out /\ new.arrived = arrived
  BY <1>2 DEF IsLink
<1> HIDE DEF new
<1>19. LinkSent(new)
  BY <1>3, <1>18 DEF LinkSent, S
<1>20. LinkReads(new)
  <2>1. drained.out \in Seq(Outputs)
    BY <1>13 DEF Buffers
  <2> QED
    BY <2>1, <1>14, <1>15, <1>16, <1>18 DEF LinkReads
<1>21. StreamRead(new)
  <2>1. Buffer(new) = drained
    BY <1>13, <1>18 DEF Buffer, Buffers
  <2>2. a + n \in 0..Len(StreamBytes(new.units))
        /\ new.stream = SubSeq(StreamBytes(new.units), (a + n) + 1, Len(StreamBytes(new.units)))
        /\ Consumed(new.units, a + n, Buffer(new))
    BY <2>1, <1>9, <1>12, <1>13, <1>18 DEF total, N
  <2> QED
    BY <2>2 DEF StreamRead
<1> QED
  BY <1>17, <1>18, <1>19, <1>20, <1>21 DEF LinkInv

LEMMA DatagramIsRead ==
  LinkInv /\ OnDatagram => LinkInv'
<1> SUFFICES ASSUME LinkInv, OnDatagram PROVE LinkInv'
  OBVIOUS
<1> DEFINE units == link.units
           S == {units[k] : k \in DOMAIN units}
<1>1. PICK i \in 1..Len(units) :
        LET frame == FrameIn(link.units[i].bytes)
        IN  link' = [link EXCEPT !.arrived = Append(@, i),
                       !.out = IF frame.event = "raw" THEN @ ELSE Append(@, frame)]
  BY DEF OnDatagram
<1>2. link.kind # "tcp"
  BY DEF OnDatagram, Tcp
<1>3. /\ units \in Seq(S) /\ GoodUnits(units) /\ IsLink(link)
      /\ link.out \in Seq(Outputs) /\ link.arrived \in Seq(1..Len(units))
      /\ Agree(Received(link.out), Delivered(units, link.arrived))
  BY DEF LinkInv, LinkSent, LinkReads
<1> DEFINE frame == FrameIn(units[i].bytes)
           body == units[i].body
           out == IF frame.event = "raw" THEN link.out ELSE Append(link.out, frame)
           arrived == Append(link.arrived, i)
<1>4. link' = [link EXCEPT !.arrived = arrived, !.out = out]
  BY <1>1
<1>5. units[i].bytes \in Seq(Bytewise) /\ ReadsAsSent(units[i])
  BY <1>3, UnitsCarry
<1>6. frame \in Outputs
  BY <1>5 DEF Outputs, Bytewise
<1> HIDE DEF units, S
<1>7. Delivered(units, link.arrived) \in Seq({units[k].body : k \in 1..Len(units)})
      /\ Delivered(units, arrived) = Append(Delivered(units, link.arrived), body)
  BY <1>3, DeliveredGrows
<1> DEFINE T == {units[k].body : k \in 1..Len(units)}
           R == {Absent} \cup {o.body : o \in Outputs}
<1>8. Received(link.out) \in Seq(R)
      /\ Received(Append(link.out, frame)) =
           Append(Received(link.out), IF frame.event = "message" THEN frame.body ELSE Absent)
  BY <1>3, <1>6, ReceivedAppend
<1>9. out \in Seq(Outputs)
  BY <1>3, <1>6
<1> HIDE DEF T, R
<1>10. Agree(Received(out), Delivered(units, arrived))
  <2> DEFINE sent == Delivered(units, link.arrived)
             got == Received(link.out)
  <2>0. sent \in Seq(T) /\ got \in Seq(R) /\ Agree(got, sent)
    BY <1>3, <1>7, <1>8 DEF T
  <2>5. CASE body = Absent
    <3>1. frame.event # "message"
      BY <1>5, <2>5 DEF ReadsAsSent
    <3>2. Agree(got, Append(sent, Absent))
      BY <2>0, AgreeBut
    <3>3. Append(sent, Absent) \in Seq(T \cup {Absent})
      <4>1. sent \in Seq(T \cup {Absent})
        BY <2>0, SeqMonotonic
      <4> HIDE DEF sent
      <4> QED
        BY <4>1
    <3>4. Agree(Append(got, Absent), Append(sent, Absent))
      BY <3>2, <3>3, <2>0, AgreeBut
    <3>5. CASE frame.event = "raw"
      BY <3>5, <3>2, <1>7, <2>5
    <3>6. CASE frame.event # "raw"
      BY <3>6, <3>1, <3>4, <1>7, <1>8, <2>5
    <3> QED
      BY <3>5, <3>6
  <2>6. CASE body # Absent
    <3>1. frame = Emitted("message", body)
      BY <1>5, <2>6 DEF ReadsAsSent
    <3>2. frame.event = "message" /\ frame.body = body
      BY <3>1 DEF Emitted
    <3>3. Agree(Append(got, body), Append(sent, body))
      BY <2>0, <2>6, AgreeBoth
    <3>4. out = Append(link.out, frame)
      BY <3>2
    <3> HIDE DEF out, frame, body
    <3> QED
      BY <3>2, <3>3, <3>4, <1>7, <1>8
  <2> QED
    BY <2>5, <2>6
<1>11. arrived \in Seq(1..Len(units))
  <2>1. i \in 1..Len(units)
    BY DEF units
  <2> QED
    BY <2>1, <1>3
<1> HIDE DEF out, arrived
<1> DEFINE new == [kind |-> link.kind, units |-> units, sock |-> link.sock, ended |-> link.ended,
                   closed |-> link.closed, bind |-> link.bind, close |-> link.close,
                   stream |-> link.stream, rx |-> link.rx, out |-> out, arrived |-> arrived]
<1>17. link' = new
  <2>1. link' = Answered(link, out, arrived)
    BY <1>4 DEF Answered
  <2>2. new = AnsweredTo(link, out, arrived)
    BY DEF units, AnsweredTo
  <2> HIDE DEF new
  <2>3. IsLink(link)
    BY <1>3
  <2> QED
    BY <2>1, <2>2, <2>3, DatagramChange
<1>18. /\ IsLink(new) /\ new.kind = link.kind /\ new.units = units
       /\ new.out = out /\ new.arrived = arrived
  BY DEF IsLink
<1> HIDE DEF new
<1>19. LinkSent(new)
  BY <1>18 DEF LinkSent, LinkInv, units
<1>20. LinkReads(new)
  BY <1>9, <1>10, <1>11, <1>18 DEF LinkReads
<1>21. StreamRead(new)
  BY <1>2, <1>18 DEF StreamRead
<1> QED
  BY <1>17, <1>18, <1>19, <1>20, <1>21 DEF LinkInv

LEMMA LinkSteps ==
  LinkInv /\ [LinkNext]_link => LinkInv'
<1> SUFFICES ASSUME LinkInv, [LinkNext]_link PROVE LinkInv'
  OBVIOUS
<1> DEFINE error == Emitted("error", Absent)
<1>0. link = [kind |-> link.kind, units |-> link.units, sock |-> link.sock, ended |-> link.ended,
              closed |-> link.closed, bind |-> link.bind, close |-> link.close,
              stream |-> link.stream, rx |-> link.rx, out |-> link.out, arrived |-> link.arrived]
  BY DEF LinkInv, IsLink
<1> DEFINE With(sock, ended, closed, bind, close, out) ==
             [kind |-> link.kind, units |-> link.units, sock |-> sock, ended |-> ended,
              closed |-> closed, bind |-> bind, close |-> close,
              stream |-> link.stream, rx |-> link.rx, out |-> out, arrived |-> link.arrived]
<1>1. ASSUME NEW sock, NEW ended, NEW closed, NEW bind, NEW close,
             NEW out \in {link.out, Append(link.out, error)},
             link' = With(sock, ended, closed, bind, close, out)
      PROVE  LinkInv'
  <2> DEFINE new == With(sock, ended, closed, bind, close, out)
  <2>1. /\ IsLink(new) /\ new.kind = link.kind /\ new.units = link.units
        /\ new.stream = link.stream /\ new.rx = link.rx /\ new.arrived = link.arrived
        /\ new.out \in {link.out, Append(link.out, error)}
    BY DEF IsLink
  <2>2. link' = new
    BY <1>1
  <2> HIDE DEF new, error, With
  <2>3. IsLink(new) /\ LinkSent(new) /\ LinkReads(new) /\ StreamRead(new)
    BY <2>1, SocketChanges DEF error
  <2> QED
    BY <2>2, <2>3 DEF LinkInv
<1>2. ASSUME NEW sock, NEW ended, NEW closed, NEW bind, NEW close,
             link' = With(sock, ended, closed, bind, close, link.out)
      PROVE  LinkInv'
  BY <1>1, <1>2
<1>3. CASE BindLink
  <2>1. link' = With("connecting", link.ended, link.closed, "pending", link.close, link.out)
    BY <1>0, <1>3 DEF BindLink
  <2> QED
    BY <2>1, <1>2
<1>4. CASE LinkOpens
  <2>1. link' = With("open", link.ended, link.closed, "resolved", link.close, link.out)
    BY <1>0, <1>4 DEF LinkOpens
  <2> QED
    BY <2>1, <1>2
<1>5. CASE BindLinkFails
  <2>1. link' = With(IF Tcp THEN "destroyed" ELSE link.sock, link.ended, link.closed, "rejected",
                     link.close, Append(link.out, error))
    BY <1>0, <1>5 DEF BindLinkFails
  <2> HIDE DEF With, error
  <2> QED
    BY <2>1, <1>1
<1>6. CASE ConnectTimeout
  <2>1. link' = With("destroyed", link.ended, link.closed, "rejected", link.close, link.out)
    BY <1>0, <1>6 DEF ConnectTimeout
  <2> QED
    BY <2>1, <1>2
<1>7. CASE PeerEnds
  <2>1. PICK reset \in BOOLEAN :
          link' = [link EXCEPT !.sock = "destroyed",
                     !.out = IF reset THEN Append(@, error) ELSE @]
    BY <1>7 DEF PeerEnds
  <2> DEFINE out == IF reset THEN Append(link.out, error) ELSE link.out
  <2>2. link' = With("destroyed", link.ended, link.closed, link.bind, link.close, out)
    <3>1. link' = [link EXCEPT !.sock = "destroyed", !.out = out]
      BY <2>1
    <3> HIDE DEF out
    <3> QED
      BY <3>1, <1>0
  <2>3. out \in {link.out, Append(link.out, error)}
    OBVIOUS
  <2> HIDE DEF With, out, error
  <2> QED
    BY <2>2, <2>3, <1>1
<1>8. CASE CloseLink
  <2>1. link' = With(IF Tcp \/ link.sock = "none" THEN link.sock ELSE "destroyed",
                     link.sock # "none", TRUE, link.bind,
                     IF link.sock = "none" THEN "resolved" ELSE "pending", link.out)
    BY <1>0, <1>8 DEF CloseLink
  <2> HIDE DEF With
  <2> QED
    BY <2>1, <1>2
<1>9. CASE LinkFlushed
  <2>1. link' = With("destroyed", link.ended, link.closed, link.bind, link.close, link.out)
    BY <1>0, <1>9 DEF LinkFlushed
  <2> QED
    BY <2>1, <1>2
<1>10. CASE LinkCloses
  <2>1. link' = With("gone", link.ended, Tcp \/ link.closed, link.bind,
                     IF link.close = "pending" THEN "resolved" ELSE link.close, link.out)
    BY <1>0, <1>10 DEF LinkCloses
  <2> HIDE DEF With
  <2> QED
    BY <2>1, <1>2
<1>11. CASE OnData
  BY <1>11, ChunkIsRead
<1>12. CASE OnDatagram
  BY <1>12, DatagramIsRead
<1>13. CASE UNCHANGED link
  BY <1>13 DEF LinkInv
<1> QED
  BY <1>3, <1>4, <1>5, <1>6, <1>7, <1>8, <1>9, <1>10, <1>11, <1>12, <1>13 DEF LinkNext

\* However a TCP stream is cut into chunks, whatever stray bytes lie between its
\* frames, whatever datagrams are lost, and however the socket ends: each frame
\* that has arrived completely was emitted once, in its order, as it was sent.
THEOREM FramesAreWhole == LinkSpec => []FramesArriveWhole
<1>1. LinkInv => FramesArriveWhole
  BY DEF LinkInv, LinkReads, FramesArriveWhole
<1> QED
  BY LinkBegins, LinkSteps, <1>1, PTL DEF LinkSpec


-----------------------------------------------------------------------------
(* DISCOVERY                                                               *)

SearchType ==
  search = [pc |-> search.pc, socket |-> search.socket, timer |-> search.timer,
            sending |-> search.sending, found |-> search.found, heard |-> search.heard,
            datagrams |-> search.datagrams, answer |-> search.answer]

\* A socket is open as long as the search goes on, and is closed with it.
SocketFollows ==
  /\ search.pc \in {"idle", "searching", "settled"}
  /\ search.pc = "idle" <=> search.socket = "none"
  /\ search.pc = "searching" <=> search.socket \in {"binding", "listening"}
  /\ search.pc = "settled" <=> search.socket = "closed"
  /\ search.pc = "idle" => ~search.timer /\ ~search.sending

SearchInv ==
  /\ SearchType /\ SocketFollows
  /\ search.found \in Seq(Responses) /\ search.heard \in Seq(Responses)
  /\ FirstAnswers

LEMMA EndpointsGrow ==
  ASSUME NEW S, NEW s \in Seq(S), NEW r \in S
  PROVE  /\ Endpoints(Append(s, r)) = Endpoints(s) \cup {r.endpoint}
         /\ \A k \in 1..Len(s) + 1 : SubSeq(Append(s, r), 1, k - 1) = SubSeq(s, 1, k - 1)
         /\ SubSeq(Append(s, r), 1, (Len(s) + 1) - 1) = s
<1> DEFINE t == Append(s, r)
           n == Len(s)
<1>1. n \in Nat /\ t \in Seq(S) /\ Len(t) = n + 1 /\ t[n + 1] = r /\ \A i \in 1..n : t[i] = s[i]
  OBVIOUS
<1> HIDE DEF t, n
<1>2. Endpoints(t) = Endpoints(s) \cup {r.endpoint}
  <2>1. ASSUME NEW e \in Endpoints(t) PROVE e \in Endpoints(s) \cup {r.endpoint}
    <3>1. PICK i \in 1..n + 1 : e = t[i].endpoint
      BY <1>1 DEF Endpoints
    <3>2. i \in 1..n \/ i = n + 1
      BY <1>1
    <3> QED
      BY <3>1, <3>2, <1>1 DEF Endpoints, n
  <2>2. ASSUME NEW e \in Endpoints(s) PROVE e \in Endpoints(t)
    <3>1. PICK i \in 1..n : e = s[i].endpoint
      BY DEF Endpoints, n
    <3>2. i \in 1..n + 1
      BY <1>1
    <3> QED
      BY <3>1, <3>2, <1>1 DEF Endpoints
  <2>3. r.endpoint \in Endpoints(t)
    <3>1. n + 1 \in 1..n + 1
      BY <1>1
    <3> QED
      BY <3>1, <1>1 DEF Endpoints
  <2> QED
    BY <2>1, <2>2, <2>3
<1>3. ASSUME NEW k \in 1..n + 1 PROVE SubSeq(t, 1, k - 1) = SubSeq(s, 1, k - 1)
  <2>1. k - 1 \in Nat /\ k - 1 <= n
    BY <1>1
  <2> DEFINE m == k - 1
             l == SubSeq(t, 1, m)
             q == SubSeq(s, 1, m)
  <2> HIDE DEF m
  <2>2. m \in Nat /\ m <= n
    BY <2>1 DEF m
  <2>3. \A i \in 1..m : t[i] \in S /\ s[i] \in S /\ t[i] = s[i]
    <3> SUFFICES ASSUME NEW i \in 1..m PROVE t[i] \in S /\ s[i] \in S /\ t[i] = s[i]
      OBVIOUS
    <3>1. i \in 1..n /\ i \in 1..Len(t)
      BY <2>2, <1>1
    <3> QED
      BY <3>1, <1>1 DEF n
  <2>4. l \in Seq(S) /\ Len(l) = m /\ \A i \in 1..m : l[i] = t[i]
    BY <2>2, <2>3, SubSeqProperties
  <2>5. q \in Seq(S) /\ Len(q) = m /\ \A i \in 1..m : q[i] = s[i]
    BY <2>2, <2>3, SubSeqProperties
  <2>6. \A i \in 1..m : l[i] = q[i]
    BY <2>3, <2>4, <2>5
  <2> HIDE DEF l, q
  <2>7. l = q
    BY <2>2, <2>4, <2>5, <2>6, SeqEqual
  <2> QED
    BY <2>7 DEF l, q, m
<1>4. SubSeq(t, 1, (n + 1) - 1) = s
  <2>1. n + 1 \in 1..n + 1 /\ (n + 1) - 1 = n
    BY <1>1
  <2>2. SubSeq(t, 1, n) = SubSeq(s, 1, n)
    BY <2>1, <1>3
  <2>3. SubSeq(s, 1, n) = s
    BY DEF n
  <2> QED
    BY <2>1, <2>2, <2>3
<1> QED
  BY <1>2, <1>3, <1>4 DEF t, n

\* What a response adds keeps each first answer where it is.
Firsts(found, heard) ==
  /\ Endpoints(found) = Endpoints(heard)
  /\ \A i \in 1..Len(found) :
       \E k \in 1..Len(heard) :
         /\ heard[k] = found[i]
         /\ Endpoints(SubSeq(heard, 1, k - 1)) = Endpoints(SubSeq(found, 1, i - 1))

LEMMA AnswerAdds ==
  ASSUME NEW S, NEW found \in Seq(S), NEW heard \in Seq(S), NEW r \in S, Firsts(found, heard)
  PROVE  /\ FoundAfter(found, r) \in Seq(S) /\ Append(heard, r) \in Seq(S)
         /\ Firsts(FoundAfter(found, r), Append(heard, r))
<1> DEFINE h == Append(heard, r)
           n == Len(heard)
           m == Len(found)
<1>1. n \in Nat /\ h \in Seq(S) /\ Len(h) = n + 1 /\ h[n + 1] = r /\ \A i \in 1..n : h[i] = heard[i]
  OBVIOUS
<1>2. /\ Endpoints(h) = Endpoints(heard) \cup {r.endpoint}
      /\ \A k \in 1..n + 1 : SubSeq(h, 1, k - 1) = SubSeq(heard, 1, k - 1)
      /\ SubSeq(h, 1, (n + 1) - 1) = heard
  BY EndpointsGrow
<1>3. CASE r.endpoint \in Endpoints(found)
  <2>1. FoundAfter(found, r) = found
    BY <1>3 DEF FoundAfter
  <2>2. Endpoints(found) = Endpoints(h)
    BY <1>2, <1>3 DEF Firsts
  <2>3. ASSUME NEW i \in 1..m
        PROVE  \E k \in 1..Len(h) :
                 /\ h[k] = found[i]
                 /\ Endpoints(SubSeq(h, 1, k - 1)) = Endpoints(SubSeq(found, 1, i - 1))
    <3>1. PICK k \in 1..n : /\ heard[k] = found[i]
                            /\ Endpoints(SubSeq(heard, 1, k - 1)) = Endpoints(SubSeq(found, 1, i - 1))
      BY DEF Firsts
    <3>2. k \in 1..n + 1 /\ k \in 1..Len(h)
      BY <1>1
    <3> HIDE DEF h
    <3> QED
      BY <3>1, <3>2, <1>1, <1>2
  <2> HIDE DEF h
  <2> QED
    BY <2>1, <2>2, <2>3, <1>1 DEF Firsts, h
<1>4. CASE r.endpoint \notin Endpoints(found)
  <2> DEFINE f == Append(found, r)
  <2>1. FoundAfter(found, r) = f
    BY <1>4 DEF FoundAfter
  <2>2. m \in Nat /\ f \in Seq(S) /\ Len(f) = m + 1 /\ f[m + 1] = r /\ \A i \in 1..m : f[i] = found[i]
    OBVIOUS
  <2>3. /\ Endpoints(f) = Endpoints(found) \cup {r.endpoint}
        /\ \A k \in 1..m + 1 : SubSeq(f, 1, k - 1) = SubSeq(found, 1, k - 1)
        /\ SubSeq(f, 1, (m + 1) - 1) = found
    BY EndpointsGrow
  <2> HIDE DEF h, f
  <2>4. Endpoints(f) = Endpoints(h)
    BY <1>2, <2>3 DEF Firsts
  <2>5. ASSUME NEW i \in 1..m + 1
        PROVE  \E k \in 1..n + 1 :
                 /\ h[k] = f[i]
                 /\ Endpoints(SubSeq(h, 1, k - 1)) = Endpoints(SubSeq(f, 1, i - 1))
    <3>1. CASE i \in 1..m
      <4>1. PICK k \in 1..n : /\ heard[k] = found[i]
                              /\ Endpoints(SubSeq(heard, 1, k - 1)) = Endpoints(SubSeq(found, 1, i - 1))
        BY <3>1 DEF Firsts
      <4>2. k \in 1..n + 1
        BY <1>1
      <4> QED
        BY <4>1, <4>2, <3>1, <1>1, <1>2, <2>2, <2>3
    <3>2. CASE i = m + 1
      <4>1. n + 1 \in 1..n + 1 /\ h[n + 1] = f[i]
        BY <3>2, <1>1, <2>2
      <4>2. Endpoints(SubSeq(h, 1, (n + 1) - 1)) = Endpoints(SubSeq(f, 1, i - 1))
        BY <3>2, <1>2, <2>3 DEF Firsts
      <4> QED
        BY <4>1, <4>2
    <3> QED
      BY <3>1, <3>2, <2>2
  <2>6. Firsts(f, h)
    BY <1>1, <2>2, <2>4, <2>5 DEF Firsts
  <2> QED
    BY <1>1, <2>1, <2>2, <2>6 DEF h
<1> QED
  BY <1>3, <1>4

LEMMA FirstsIs == FirstAnswers <=> Firsts(search.found, search.heard)
BY DEF FirstAnswers, Firsts

LEMMA SearchBegins == DiscoveryInit => SearchInv
<1> SUFFICES ASSUME DiscoveryInit PROVE SearchInv
  OBVIOUS
<1>1. SearchType /\ SocketFollows /\ search.found = <<>> /\ search.heard = <<>>
  BY DEF DiscoveryInit, SearchType, SocketFollows
<1>2. Firsts(<<>>, <<>>)
  BY DEF Firsts, Endpoints
<1> QED
  BY <1>1, <1>2, FirstsIs DEF SearchInv

LEMMA SearchSteps == SearchInv /\ [DiscoveryNext]_search => SearchInv'
<1> SUFFICES ASSUME SearchInv, [DiscoveryNext]_search PROVE SearchInv'
  OBVIOUS
<1>0. SearchType /\ SocketFollows
  BY DEF SearchInv
<1>1. ASSUME SearchType', SocketFollows', search'.found = search.found, search'.heard = search.heard
      PROVE  SearchInv'
  BY <1>1 DEF SearchInv, FirstAnswers
<1>2. CASE Discover
  BY <1>0, <1>1, <1>2 DEF Discover, SearchType, SocketFollows
<1>3. CASE Listening
  BY <1>0, <1>1, <1>3 DEF Listening, Settled, SearchType, SocketFollows
<1>4. CASE SearchSent
  BY <1>0, <1>1, <1>4 DEF SearchSent, Settled, SearchType, SocketFollows
<1>5. CASE SearchError
  BY <1>0, <1>1, <1>5 DEF SearchError, Settled, SearchType, SocketFollows
<1>6. CASE SearchTimeout
  BY <1>0, <1>1, <1>6 DEF SearchTimeout, Settled, SearchType, SocketFollows
<1>7. CASE SearchMessage
  <2>1. PICK r \in Responses \cup {Foreign} :
          search' = IF r = Foreign THEN [search EXCEPT !.datagrams = @ + 1]
                    ELSE [search EXCEPT !.datagrams = @ + 1,
                            !.found = FoundAfter(@, r), !.heard = Append(@, r)]
    BY <1>7 DEF SearchMessage
  <2>2. CASE r = Foreign
    BY <1>0, <1>1, <2>1, <2>2 DEF SearchType, SocketFollows
  <2>3. CASE r # Foreign
    <3>1. /\ SearchType' /\ SocketFollows'
          /\ search'.found = FoundAfter(search.found, r) /\ search'.heard = Append(search.heard, r)
      BY <1>0, <2>1, <2>3 DEF SearchType, SocketFollows
    <3>2. /\ search.found \in Seq(Responses) /\ search.heard \in Seq(Responses)
          /\ Firsts(search.found, search.heard) /\ r \in Responses
      BY <2>3, FirstsIs DEF SearchInv
    <3>3. /\ FoundAfter(search.found, r) \in Seq(Responses)
          /\ Append(search.heard, r) \in Seq(Responses)
          /\ Firsts(FoundAfter(search.found, r), Append(search.heard, r))
      BY <3>2, AnswerAdds
    <3>4. FirstAnswers'
      BY <3>1, <3>3 DEF FirstAnswers, Firsts
    <3> QED
      BY <3>1, <3>3, <3>4 DEF SearchInv
  <2> QED
    BY <2>2, <2>3
<1>8. CASE UNCHANGED search
  BY <1>8 DEF SearchInv, SearchType, SocketFollows, FirstAnswers
<1> QED
  BY <1>2, <1>3, <1>4, <1>5, <1>6, <1>7, <1>8 DEF DiscoveryNext

LEMMA SettledStays ==
  SearchInv /\ search.pc = "settled" /\ [DiscoveryNext]_search => search'.pc = "settled"
<1> SUFFICES ASSUME SearchInv, search.pc = "settled", [DiscoveryNext]_search
             PROVE  search'.pc = "settled"
  OBVIOUS
<1>1. SearchType /\ SocketFollows
  BY DEF SearchInv
<1> QED
  BY <1>1 DEF SearchType, SocketFollows, DiscoveryNext, Discover, Listening, SearchSent, SearchError,
              SearchTimeout, SearchMessage, Settled

\* Whatever answers, and whatever fails: what was found is, for each gateway that
\* answered while the socket was open, its first answer (discoverGateways' Map).
THEOREM AnswersAreFirst == DiscoverySpec => []FirstAnswers
<1>1. SearchInv => FirstAnswers
  BY DEF SearchInv
<1> QED
  BY SearchBegins, SearchSteps, <1>1, PTL DEF DiscoverySpec

\* A search that has settled has settled for good: settle() has closed its
\* socket, and no timer, error or late answer changes what was found.
THEOREM SettlesForGood ==
  DiscoverySpec =>
    [](search.pc = "settled" =>
         [](search.pc = "settled" /\ search.socket = "closed" /\ FirstAnswers))
<1>1. SearchInv => FirstAnswers /\ (search.pc = "settled" => search.socket = "closed")
  BY DEF SearchInv, SocketFollows
<1>2. SearchInv /\ search.pc = "settled" /\ [DiscoveryNext]_search => (search.pc = "settled")'
  BY SettledStays
<1> QED
  BY SearchBegins, SearchSteps, <1>1, <1>2, PTL DEF DiscoverySpec
=============================================================================
