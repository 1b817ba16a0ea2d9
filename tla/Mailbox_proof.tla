--------------------------- MODULE Mailbox_proof ---------------------------
(***************************************************************************)
(* Proofs about Mailbox for every set of producers, capacity and pipe      *)
(* size.  The inductive invariant is IInv.  QueueExact (the queue is       *)
(* exactly the last accepted jobs) is what makes "the front of the queue"  *)
(* and "the oldest waiting job" the same job, and OneRunning ties the main *)
(* thread's position to the history, so that Run and Detach can be         *)
(* followed.                                                               *)
(***************************************************************************)
EXTENDS Mailbox, FiniteSetTheorems, SequenceTheorems, TLAPS

\* The initial mailbox is empty, attached and polled.
LEMMA InitIInv == Init => IInv
<1> SUFFICES ASSUME Init PROVE IInv
  OBVIOUS
<1>1. << >> \in Seq(Outcomes) /\ << >> \in Seq(Nat)
  BY EmptySeq
<1>2. TypeOK
  BY <1>1, PipeAssumption DEF Init, TypeOK, ThreadPc, MainPc
<1>3. QueueExact /\ Bounded /\ OneRunning
  BY CapacityAssumption
  DEF Init, QueueExact, Bounded, OneRunning
<1> QED BY <1>2, <1>3 DEF IInv

\* What Post() does to the queue and to the history, spelled out: the new job
\* goes to the back, and the job that makes way is the oldest waiting one.
LEMMA PostEffect ==
    ASSUME IInv, NEW p \in Threads, Post(p)
    PROVE  \E gone \in {0, 1} :
               /\ gone = 0 <=> Len(jobs) < Capacity
               /\ jobs' \in Seq(Nat)
               /\ Len(jobs') = Len(jobs) - gone + 1
               /\ \A i \in 1..Len(jobs) - gone : jobs'[i] = jobs[i + gone]
               /\ jobs'[Len(jobs')] = Len(outcome) + 1
               /\ outcome' \in Seq(Outcomes)
               /\ Len(outcome') = Len(outcome) + 1
               /\ \A n \in 1..Len(outcome) :
                     outcome'[n] = IF gone = 1 /\ n = Len(outcome) - Len(jobs) + 1
                                   THEN "dropped" ELSE outcome[n]
               /\ outcome'[Len(outcome) + 1] = "queued"
<1> USE CapacityAssumption DEF IInv, TypeOK
<1>0. jobs \in Seq(Nat) /\ Len(jobs) \in Nat /\ outcome \in Seq(Outcomes)
      /\ Len(outcome) \in Nat /\ Len(outcome) + 1 \in Nat
  OBVIOUS
<1>1. CASE Len(jobs) < Capacity
  <2>1. jobs' = Append(jobs, Len(outcome) + 1) /\ outcome' = Append(outcome, "queued")
    BY <1>0, <1>1 DEF Post, DropOldest
  <2> QED BY <1>0, <1>1, <2>1, AppendProperties DEF Outcomes
<1>2. CASE ~(Len(jobs) < Capacity)
  <2> DEFINE h   == Head(jobs)
             old == [outcome EXCEPT ![h] = "dropped"]
  <2>1. jobs # << >> /\ Len(jobs) >= 1
    BY <1>0, <1>2
  <2>2. h = Len(outcome) - Len(jobs) + 1 /\ h \in 1..Len(outcome)
    BY <1>0, <2>1 DEF QueueExact
  <2>3. /\ Tail(jobs) \in Seq(Nat) /\ Len(Tail(jobs)) = Len(jobs) - 1
        /\ \A i \in 1..Len(jobs) - 1 : Tail(jobs)[i] = jobs[i + 1]
    BY <1>0, <2>1, HeadTailProperties
  <2>4. /\ old \in Seq(Outcomes) /\ Len(old) = Len(outcome)
        /\ \A n \in 1..Len(outcome) : old[n] = IF n = h THEN "dropped" ELSE outcome[n]
    BY <1>0, <2>2, ExceptSeq DEF Outcomes
  <2>5. jobs' = Append(Tail(jobs), Len(outcome) + 1) /\ outcome' = Append(old, "queued")
    BY <1>0, <1>2 DEF Post, DropOldest
  <2>6. /\ jobs' \in Seq(Nat) /\ Len(jobs') = Len(jobs)
        /\ \A i \in 1..Len(jobs) - 1 : jobs'[i] = Tail(jobs)[i]
        /\ jobs'[Len(jobs)] = Len(outcome) + 1
    BY <1>0, <2>3, <2>5, AppendProperties
  <2>7. /\ outcome' \in Seq(Outcomes) /\ Len(outcome') = Len(outcome) + 1
        /\ \A n \in 1..Len(outcome) : outcome'[n] = old[n]
        /\ outcome'[Len(outcome) + 1] = "queued"
    <3> HIDE DEF old
    <3> QED BY <1>0, <2>4, <2>5, AppendProperties DEF Outcomes
  <2> HIDE DEF h, old
  <2>8. /\ ~(Len(jobs) < Capacity)
        /\ Len(jobs') = Len(jobs) - 1 + 1
        /\ \A i \in 1..Len(jobs) - 1 : jobs'[i] = jobs[i + 1]
        /\ \A n \in 1..Len(outcome) :
              outcome'[n] = IF 1 = 1 /\ n = Len(outcome) - Len(jobs) + 1
                            THEN "dropped" ELSE outcome[n]
    BY <1>0, <1>2, <2>2, <2>3, <2>4, <2>6, <2>7
  <2> WITNESS 1 \in {0, 1}
  <2> QED BY <2>6, <2>7, <2>8
<1> QED BY <1>1, <1>2

\* Mailbox::Post, also at capacity where it drops the oldest job, preserves IInv.
LEMMA PostIInv == ASSUME IInv, NEW p \in Threads, Post(p) PROVE IInv'
<1> USE CapacityAssumption
<1>0. /\ Len(jobs) \in Nat /\ Len(outcome) \in Nat
      /\ Len(jobs) <= Len(outcome) /\ Len(jobs) <= Capacity
  BY DEF IInv, TypeOK, QueueExact, Bounded
<1>p. PICK gone \in {0, 1} :
         /\ gone = 0 <=> Len(jobs) < Capacity
         /\ jobs' \in Seq(Nat)
         /\ Len(jobs') = Len(jobs) - gone + 1
         /\ \A i \in 1..Len(jobs) - gone : jobs'[i] = jobs[i + gone]
         /\ jobs'[Len(jobs')] = Len(outcome) + 1
         /\ outcome' \in Seq(Outcomes)
         /\ Len(outcome') = Len(outcome) + 1
         /\ \A n \in 1..Len(outcome) :
               outcome'[n] = IF gone = 1 /\ n = Len(outcome) - Len(jobs) + 1
                             THEN "dropped" ELSE outcome[n]
         /\ outcome'[Len(outcome) + 1] = "queued"
  BY PostEffect
<1>1. TypeOK'
  <2>1. dropped' \in Nat /\ pc' \in [Threads -> ThreadPc]
    BY DEF IInv, TypeOK, Post, ThreadPc
  <2> QED BY <1>p, <2>1 DEF IInv, TypeOK, Post
<1>2. QueueExact'
  <2>1. Len(jobs') <= Len(outcome')
    BY <1>0, <1>p
  <2>2. ASSUME NEW i \in 1..Len(jobs') PROVE jobs'[i] = Len(outcome') - Len(jobs') + i
    <3>1. CASE i = Len(jobs')
      BY <1>0, <1>p, <3>1
    <3>2. CASE i \in 1..Len(jobs) - gone
      <4>1. i + gone \in 1..Len(jobs)
        BY <1>0, <3>2
      <4>2. jobs[i + gone] = Len(outcome) - Len(jobs) + (i + gone)
        BY <4>1 DEF IInv, QueueExact
      <4> QED BY <1>0, <1>p, <3>2, <4>2
    <3> QED BY <1>0, <1>p, <3>1, <3>2
  <2>3. ASSUME NEW n \in 1..Len(outcome')
        PROVE  outcome'[n] = "queued" <=> n > Len(outcome') - Len(jobs')
    <3>1. CASE n = Len(outcome) + 1
      BY <1>0, <1>p, <3>1
    <3>2. CASE n \in 1..Len(outcome)
      <4>1. outcome[n] = "queued" <=> n > Len(outcome) - Len(jobs)
        BY <3>2 DEF IInv, QueueExact
      <4>2. outcome'[n] = IF gone = 1 /\ n = Len(outcome) - Len(jobs) + 1
                          THEN "dropped" ELSE outcome[n]
        BY <1>p, <3>2
      <4>3. Len(outcome') - Len(jobs') = Len(outcome) - Len(jobs) + gone
        BY <1>0, <1>p
      <4> QED BY <1>0, <3>2, <4>1, <4>2, <4>3
    <3> QED BY <1>0, <1>p, <3>1, <3>2
  <2> QED BY <2>1, <2>2, <2>3 DEF QueueExact
<1>3. Bounded'
  <2>1. owner' # "nullptr"
    BY DEF Post
  <2> QED BY <1>0, <1>p, <2>1 DEF Bounded
<1>4. OneRunning'
  <2>1. ASSUME NEW n \in 1..Len(outcome')
        PROVE  outcome'[n] = "running" <=> (main = "run" /\ n = job)
    <3>1. CASE n = Len(outcome) + 1
      BY <1>0, <1>p, <3>1 DEF IInv, OneRunning
    <3>2. CASE n \in 1..Len(outcome)
      <4>1. outcome[n] = "running" <=> (main = "run" /\ n = job)
        BY <3>2 DEF IInv, OneRunning
      <4>2. outcome[n] = "queued" <=> n > Len(outcome) - Len(jobs)
        BY <3>2 DEF IInv, QueueExact
      <4>3. outcome'[n] = IF gone = 1 /\ n = Len(outcome) - Len(jobs) + 1
                          THEN "dropped" ELSE outcome[n]
        BY <1>p, <3>2
      <4> QED BY <1>0, <4>1, <4>2, <4>3
    <3> QED BY <1>0, <1>p, <3>1, <3>2
  <2>2. main = "run" => job \in 1..Len(outcome')
    BY <1>0, <1>p DEF IInv, OneRunning
  <2> QED BY <2>1, <2>2 DEF IInv, OneRunning, Post
<1> QED BY <1>1, <1>2, <1>3, <1>4 DEF IInv

\* What one turn of the drain loop does when it finds a job.
LEMMA PopEffect ==
    ASSUME IInv, Pop, jobs # << >>
    PROVE  /\ job' = Len(outcome) - Len(jobs) + 1
           /\ job' \in 1..Len(outcome)
           /\ outcome[job'] = "queued"
           /\ outcome' = [outcome EXCEPT ![job'] = "running"]
           /\ outcome' \in Seq(Outcomes) /\ Len(outcome') = Len(outcome)
           /\ \A n \in 1..Len(outcome) :
                 outcome'[n] = IF n = job' THEN "running" ELSE outcome[n]
           /\ jobs' \in Seq(Nat) /\ Len(jobs') = Len(jobs) - 1
           /\ \A i \in 1..Len(jobs) - 1 : jobs'[i] = jobs[i + 1]
           /\ main = "drain" /\ main' = "run"
<1> USE DEF IInv, TypeOK
<1>0. Len(jobs) \in Nat /\ Len(outcome) \in Nat /\ Len(jobs) >= 1
  OBVIOUS
<1>1. /\ job' = Head(jobs) /\ jobs' = Tail(jobs)
      /\ outcome' = [outcome EXCEPT ![Head(jobs)] = "running"]
      /\ main = "drain" /\ main' = "run"
  BY DEF Pop
<1>2. job' = Len(outcome) - Len(jobs) + 1 /\ job' \in 1..Len(outcome)
  BY <1>0, <1>1 DEF QueueExact
<1>3. outcome[job'] = "queued"
  BY <1>0, <1>2 DEF QueueExact
<1>4. /\ outcome' \in Seq(Outcomes) /\ Len(outcome') = Len(outcome)
      /\ \A n \in 1..Len(outcome) :
            outcome'[n] = IF n = job' THEN "running" ELSE outcome[n]
  BY <1>1, <1>2, ExceptSeq DEF Outcomes
<1>5. /\ jobs' \in Seq(Nat) /\ Len(jobs') = Len(jobs) - 1
      /\ \A i \in 1..Len(jobs) - 1 : jobs'[i] = jobs[i + 1]
  BY <1>1, HeadTailProperties
<1> QED BY <1>1, <1>2, <1>3, <1>4, <1>5

\* Mailbox::Pop, which starts a job or finds none, preserves IInv.
LEMMA PopIInv == ASSUME IInv, Pop PROVE IInv'
<1>1. CASE jobs # << >>
  <2>0. /\ job' = Len(outcome) - Len(jobs) + 1
        /\ Len(outcome') = Len(outcome) /\ Len(jobs') = Len(jobs) - 1
        /\ \A n \in 1..Len(outcome) :
              outcome'[n] = IF n = job' THEN "running" ELSE outcome[n]
        /\ \A i \in 1..Len(jobs) - 1 : jobs'[i] = jobs[i + 1]
    BY <1>1, PopEffect
  <2>1. TypeOK'
    BY <1>1, PopEffect DEF IInv, TypeOK, Pop, MainPc
  <2>2. QueueExact'
    <3>0. Len(jobs) \in Nat /\ Len(outcome) \in Nat /\ Len(jobs) <= Len(outcome)
      BY DEF IInv, TypeOK, QueueExact
    <3>1. ASSUME NEW i \in 1..Len(jobs')
          PROVE  jobs'[i] = Len(outcome') - Len(jobs') + i
      <4>1. i + 1 \in 1..Len(jobs) /\ i \in 1..Len(jobs) - 1
        BY <2>0, <3>0
      <4>2. jobs[i + 1] = Len(outcome) - Len(jobs) + (i + 1)
        BY <4>1 DEF IInv, QueueExact
      <4> QED BY <2>0, <3>0, <4>1, <4>2
    <3>2. ASSUME NEW n \in 1..Len(outcome')
          PROVE  outcome'[n] = "queued" <=> n > Len(outcome') - Len(jobs')
      <4>1. outcome[n] = "queued" <=> n > Len(outcome) - Len(jobs)
        BY <2>0 DEF IInv, QueueExact
      <4>2. outcome'[n] = IF n = Len(outcome) - Len(jobs) + 1 THEN "running" ELSE outcome[n]
        BY <2>0
      <4>3. Len(outcome') - Len(jobs') = Len(outcome) - Len(jobs) + 1
        BY <2>0, <3>0
      <4> QED BY <2>0, <3>0, <4>1, <4>2, <4>3
    <3> QED BY <2>0, <3>0, <3>1, <3>2 DEF QueueExact
  <2>3. Bounded'
    BY <1>1, PopEffect, CapacityAssumption
    DEF IInv, TypeOK, Bounded, OneRunning, Pop
  <2>4. OneRunning'
    BY <1>1, PopEffect DEF IInv, TypeOK, OneRunning, Pop
  <2> QED BY <2>1, <2>2, <2>3, <2>4 DEF IInv
<1>2. CASE jobs = << >>
  <2>1. /\ main = "drain" /\ main' = "report"
        /\ UNCHANGED <<owner, jobs, dropped, pipe, pc, job, outcome, reported, configs>>
    BY <1>2 DEF Pop
  <2> QED
    BY <2>1 DEF IInv, TypeOK, MainPc, QueueExact, Bounded, OneRunning
<1> QED BY <1>1, <1>2

\* Running the job the main thread holds ends exactly that job.
LEMMA RunEffect ==
    ASSUME IInv, Run
    PROVE  /\ job \in 1..Len(outcome) /\ outcome[job] = "running"
           /\ outcome' \in Seq(Outcomes) /\ Len(outcome') = Len(outcome)
           /\ \A n \in 1..Len(outcome) :
                 outcome'[n] = IF n = job THEN "run" ELSE outcome[n]
<1>1. job \in 1..Len(outcome) /\ outcome[job] = "running"
  BY DEF IInv, OneRunning, Run
<1> QED BY <1>1, ExceptSeq DEF IInv, TypeOK, Run, Outcomes

\* The end of a job in the drain loop (OnNotify) preserves IInv.
LEMMA RunIInv == ASSUME IInv, Run PROVE IInv'
<1>1. TypeOK'
  BY RunEffect DEF IInv, TypeOK, Run, boxVars, MainPc
<1>2. QueueExact'
  BY RunEffect DEF IInv, TypeOK, QueueExact, Run, boxVars
<1>3. OneRunning'
  BY RunEffect DEF IInv, TypeOK, OneRunning, Run, boxVars
<1>4. Bounded'
  BY DEF IInv, Bounded, Run, boxVars
<1> QED BY <1>1, <1>2, <1>3, <1>4 DEF IInv

\* Detach() discards what still waits and touches nothing else.
LEMMA DetachEffect ==
    ASSUME IInv, Detach
    PROVE  /\ outcome' \in Seq(Outcomes) /\ Len(outcome') = Len(outcome)
           /\ \A n \in 1..Len(outcome) :
                 outcome'[n] = IF outcome[n] = "queued" THEN "discarded" ELSE outcome[n]
<1>1. outcome \in [1..Len(outcome) -> Outcomes] /\ Len(outcome) \in Nat
      /\ DOMAIN outcome = 1..Len(outcome)
  BY LenProperties DEF IInv, TypeOK
<1>2. outcome' \in [1..Len(outcome) -> Outcomes]
  BY <1>1 DEF Detach, Outcomes
<1>3. outcome' \in Seq(Outcomes)
  BY <1>1, <1>2, SeqDef
<1>4. Len(outcome') = Len(outcome)
  BY <1>1, <1>2, <1>3, LenProperties
<1> QED BY <1>1, <1>3, <1>4 DEF Detach

\* Mailbox::Detach, which discards the queued jobs, preserves IInv.
LEMMA DetachIInv == ASSUME IInv, Detach PROVE IInv'
<1>0. << >> \in Seq(Nat) /\ Len(<< >>) = 0
  BY EmptySeq
<1>1. TypeOK'
  BY <1>0, DetachEffect DEF IInv, TypeOK, Detach, MainPc
<1>2. QueueExact'
  BY <1>0, DetachEffect DEF IInv, TypeOK, QueueExact, Detach
<1>3. OneRunning'
  BY DetachEffect DEF IInv, TypeOK, OneRunning, Detach
<1>4. Bounded'
  BY <1>0, CapacityAssumption DEF Bounded, Detach
<1> QED BY <1>1, <1>2, <1>3, <1>4 DEF IInv

\* The steps that leave the queue and the history alone.
Other ==
    \/ \E p \in Threads : PostRefused(p) \/ Wake(p) \/ Exit(p)
    \/ StartThrows \/ StartReturns \/ Poll \/ TakeDropped \/ Read \/ Reap \/ Configure
    \/ Join \/ JoinFreed \/ Destroy \/ StartCluster \/ Gone

\* They preserve IInv: none of Wake, Read, StopCluster ... touches the queue.
LEMMA OtherIInv == ASSUME IInv, Other PROVE IInv'
<1> USE PipeAssumption
<1> USE DEF IInv, TypeOK, QueueExact, Bounded, OneRunning, ThreadPc, MainPc, boxVars
<1>1. CASE \E p \in Threads : PostRefused(p) BY <1>1 DEF PostRefused, AfterPost
<1>2. CASE \E p \in Threads : Wake(p) BY <1>2 DEF Wake, AfterPost
<1>3. CASE \E p \in Threads : Exit(p) BY <1>3 DEF Exit
<1>4. CASE StartThrows BY <1>4 DEF StartThrows
<1>5. CASE StartReturns BY <1>5 DEF StartReturns
<1>6. CASE Poll BY <1>6 DEF Poll
<1>7. CASE TakeDropped BY <1>7 DEF TakeDropped
<1>8. CASE Read BY <1>8 DEF Read
<1>9. CASE Reap BY <1>9 DEF Reap
<1>10. CASE Configure BY <1>10 DEF Configure
<1>11. CASE Join BY <1>11 DEF Join
<1>12. CASE JoinFreed BY <1>12 DEF JoinFreed
<1>13. CASE Destroy BY <1>13 DEF Destroy
<1>14. CASE StartCluster BY <1>14 DEF StartCluster
<1>15. CASE Gone BY <1>15 DEF Gone, vars
<1> QED BY <1>1, <1>2, <1>3, <1>4, <1>5, <1>6, <1>7, <1>8, <1>9, <1>10, <1>11,
           <1>12, <1>13, <1>14, <1>15 DEF Other

\* Every step of the threads and of the main loop keeps the invariant.
LEMMA StepIInv == IInv /\ [Next]_vars => IInv'
<1> SUFFICES ASSUME IInv, [Next]_vars PROVE IInv'
  OBVIOUS
<1>1. CASE UNCHANGED vars
  BY <1>1 DEF vars, IInv, TypeOK, QueueExact, Bounded, OneRunning
<1>2. CASE Next
  BY <1>2, PostIInv, PopIInv, RunIInv, DetachIInv, OtherIInv DEF Next, MainStep, Other
<1> QED BY <1>1, <1>2

\* For any number of producers, any capacity and any pipe: the mailbox is
\* well formed, its queue is exactly the waiting jobs in order, it never
\* outgrows its capacity, and a job runs only while the protocol is attached.
THEOREM Safety == Spec => []IInv
  BY InitIInv, StepIInv, PTL DEF Spec

\* The queue is exactly the jobs that still wait, in the order in which
\* Post() accepted them.
THEOREM QueueAlwaysExact == Spec => []QueueExact
<1>1. IInv => QueueExact
  BY DEF IInv
<1> QED BY <1>1, Safety, PTL

-----------------------------------------------------------------------------
(* The count of dropped jobs *)

DroppedSet == {n \in 1..Len(outcome) : outcome[n] = "dropped"}

\* The jobs the mailbox has dropped (Mailbox::Post) are finitely many.
LEMMA DroppedFinite ==
    ASSUME IInv PROVE IsFiniteSet(DroppedSet) /\ Cardinality(DroppedSet) \in Nat
<1>1. Len(outcome) \in Nat
  BY DEF IInv, TypeOK
<1>2. IsFiniteSet(1..Len(outcome))
  BY <1>1, FS_Interval
<1>3. DroppedSet \in SUBSET (1..Len(outcome))
  BY DEF DroppedSet
<1>4. IsFiniteSet(DroppedSet)
  BY <1>2, <1>3, FS_Subset
<1> QED BY <1>4, FS_CardinalityType

\* Only Post() changes which jobs were dropped.
LEMMA DroppedKept ==
    ASSUME IInv, Pop \/ Run \/ Detach PROVE DroppedSet' = DroppedSet
<1>0. Len(outcome) \in Nat
  BY DEF IInv, TypeOK
<1>1. CASE Pop /\ jobs # << >>
  <2>1. /\ Len(outcome') = Len(outcome) /\ outcome[job'] = "queued"
        /\ \A n \in 1..Len(outcome) :
              outcome'[n] = IF n = job' THEN "running" ELSE outcome[n]
    BY <1>1, PopEffect
  <2> QED BY <1>0, <2>1 DEF DroppedSet
<1>2. CASE Pop /\ jobs = << >>
  BY <1>2 DEF Pop, DroppedSet
<1>3. CASE Run
  <2>1. /\ Len(outcome') = Len(outcome) /\ outcome[job] = "running"
        /\ \A n \in 1..Len(outcome) :
              outcome'[n] = IF n = job THEN "run" ELSE outcome[n]
    BY <1>3, RunEffect
  <2> QED BY <1>0, <2>1 DEF DroppedSet
<1>4. CASE Detach
  <2>1. /\ Len(outcome') = Len(outcome)
        /\ \A n \in 1..Len(outcome) :
              outcome'[n] = IF outcome[n] = "queued" THEN "discarded" ELSE outcome[n]
    BY <1>4, DetachEffect
  <2> QED BY <1>0, <2>1 DEF DroppedSet
<1> QED BY <1>1, <1>2, <1>3, <1>4

\* Post() adds one job to the dropped ones exactly when it counts one.
LEMMA DroppedPost ==
    ASSUME IInv, NEW p \in Threads, Post(p)
    PROVE  Cardinality(DroppedSet') - Cardinality(DroppedSet) = dropped' - dropped
<1>0. /\ Len(jobs) \in Nat /\ Len(outcome) \in Nat /\ dropped \in Nat
      /\ Len(jobs) <= Len(outcome)
  BY DEF IInv, TypeOK, QueueExact
<1>p. PICK gone \in {0, 1} :
         /\ gone = 0 <=> Len(jobs) < Capacity
         /\ Len(outcome') = Len(outcome) + 1
         /\ \A n \in 1..Len(outcome) :
               outcome'[n] = IF gone = 1 /\ n = Len(outcome) - Len(jobs) + 1
                             THEN "dropped" ELSE outcome[n]
         /\ outcome'[Len(outcome) + 1] = "queued"
  BY PostEffect
<1>1. CASE gone = 0
  <2>1. DroppedSet' = DroppedSet
    BY <1>0, <1>p, <1>1 DEF DroppedSet
  <2>2. dropped' = dropped
    BY <1>p, <1>1 DEF Post
  <2> QED BY <1>0, <2>1, <2>2, DroppedFinite
<1>2. CASE gone = 1
  <2> DEFINE h == Len(outcome) - Len(jobs) + 1
  <2>1. Len(jobs) >= 1 /\ h \in 1..Len(outcome)
    BY <1>0, <1>p, <1>2, CapacityAssumption
  <2>2. outcome[h] = "queued"
    BY <1>0, <2>1 DEF IInv, QueueExact
  <2>3. DroppedSet' = DroppedSet \cup {h} /\ h \notin DroppedSet
    <3>1. \A n \in 1..Len(outcome) :
             outcome'[n] = IF n = h THEN "dropped" ELSE outcome[n]
      BY <1>p, <1>2
    <3>2. DroppedSet' = {n \in 1..Len(outcome) + 1 : outcome'[n] = "dropped"}
      BY <1>p DEF DroppedSet
    <3>3. h \notin DroppedSet
      BY <2>2 DEF DroppedSet
    <3> HIDE DEF h
    <3>4. ASSUME NEW n PROVE n \in DroppedSet' <=> n \in DroppedSet \/ n = h
      <4>1. CASE n \in 1..Len(outcome)
        BY <1>0, <2>1, <3>1, <3>2, <4>1 DEF DroppedSet
      <4>2. CASE n = Len(outcome) + 1
        BY <1>0, <1>p, <2>1, <3>2, <4>2 DEF DroppedSet
      <4>3. CASE n \notin 1..Len(outcome) + 1
        BY <1>0, <2>1, <3>2, <4>3 DEF DroppedSet
      <4> QED BY <1>0, <4>1, <4>2, <4>3
    <3> QED BY <3>3, <3>4
  <2>4. Cardinality(DroppedSet') = Cardinality(DroppedSet) + 1
    BY <2>3, DroppedFinite, FS_AddElement
  <2>5. dropped' = dropped + 1
    BY <1>p, <1>2 DEF Post
  <2> QED BY <1>0, <2>4, <2>5, DroppedFinite
<1> QED BY <1>1, <1>2

\* The other steps leave the history and the two counts alone; TakeDropped
\* moves the one count into the other.
LEMMA OtherKeeps ==
    ASSUME Other \/ UNCHANGED vars
    PROVE  /\ UNCHANGED <<owner, outcome>>
           /\ TakeDropped \/ UNCHANGED <<reported, dropped>>
  BY DEF Other, PostRefused, Wake, Exit, StartThrows, StartReturns, Poll, TakeDropped,
         Read, Reap, Configure, Join, JoinFreed, Destroy, StartCluster, Gone, vars, boxVars

\* Every step keeps the account of the dropped jobs.
LEMMA StepDrops == IInv /\ DropsReported /\ [Next]_vars => DropsReported'
<1> SUFFICES ASSUME IInv, reported + dropped = Cardinality(DroppedSet), [Next]_vars
             PROVE  reported' + dropped' = Cardinality(DroppedSet')
  BY DEF DropsReported, DroppedSet
<1>0. reported \in Nat /\ dropped \in Nat /\ Cardinality(DroppedSet) \in Nat
  BY DroppedFinite DEF IInv, TypeOK
<1>1. ASSUME NEW p \in Threads, Post(p)
      PROVE  reported' + dropped' = Cardinality(DroppedSet')
  <2>1. Cardinality(DroppedSet') \in Nat
    <3>1. IInv'
      BY <1>1, PostIInv
    <3>2. /\ Len(outcome') \in Nat
          /\ DroppedSet' = {n \in 1..Len(outcome') : outcome'[n] = "dropped"}
      BY <3>1 DEF IInv, TypeOK, DroppedSet
    <3>3. DroppedSet' \in SUBSET (1..Len(outcome')) /\ IsFiniteSet(1..Len(outcome'))
      BY <3>2, FS_Interval
    <3> QED BY <3>3, FS_Subset, FS_CardinalityType
  <2>2. dropped' \in Nat /\ reported' = reported
    BY <1>0, <1>1 DEF Post
  <2> QED BY <1>0, <1>1, <2>1, <2>2, DroppedPost
<1>2. CASE Pop \/ Run \/ Detach
  <2>1. reported' = reported /\ dropped' = dropped
    BY <1>2 DEF Pop, Run, Detach, boxVars
  <2> QED BY <1>2, <2>1, DroppedKept
<1>3. CASE TakeDropped
  BY <1>0, <1>3 DEF TakeDropped, DroppedSet
<1>4. CASE (Other \/ UNCHANGED vars) /\ ~TakeDropped
  <2>1. UNCHANGED <<reported, dropped, outcome>>
    BY <1>4, OtherKeeps
  <2> QED BY <2>1 DEF DroppedSet
<1> QED BY <1>1, <1>2, <1>3, <1>4 DEF Next, MainStep, Other

\* The log never understates, and never overstates, how many Discord events
\* were lost to a full mailbox.
THEOREM Drops == Spec => []DropsReported
<1>1. Init => DropsReported
  <2> SUFFICES ASSUME Init PROVE DropsReported
    OBVIOUS
  <2>1. {n \in 1..Len(outcome) : outcome[n] = "dropped"} = {}
    BY DEF Init
  <2> QED BY <2>1, FS_EmptySet DEF Init, DropsReported
<1> QED BY <1>1, StepDrops, Safety, PTL DEF Spec

-----------------------------------------------------------------------------
(* The mailbox implements JobDelivery *)

\* Every step of the mailbox, its pipe and its threads is a step of the
\* delivery it promises, or no step of it at all.
LEMMA StepDelivery ==
    IInv /\ [Next]_vars => [Delivery!JDNext]_(Delivery!jdVars)
<1> SUFFICES ASSUME IInv, [Next]_vars PROVE [Delivery!JDNext]_(Delivery!jdVars)
  OBVIOUS
<1> USE DEF Delivery!JDNext, Delivery!jdVars
<1>0. /\ Len(jobs) \in Nat /\ Len(outcome) \in Nat /\ Len(jobs) <= Len(outcome)
      /\ DOMAIN outcome = 1..Len(outcome)
      /\ \A n \in 1..Len(outcome) :
            outcome[n] = "queued" <=> n > Len(outcome) - Len(jobs)
  BY LenProperties DEF IInv, TypeOK, QueueExact
<1>o. ASSUME jobs # << >>
      PROVE  Head(jobs) \in DOMAIN outcome /\ Delivery!Oldest(Head(jobs))
  <2>1. Len(jobs) >= 1 /\ Head(jobs) = jobs[1]
    BY <1>o, <1>0 DEF IInv, TypeOK
  <2>2. Head(jobs) = Len(outcome) - Len(jobs) + 1
    BY <1>0, <2>1 DEF IInv, QueueExact
  <2> QED BY <1>0, <2>1, <2>2 DEF Delivery!Oldest, Delivery!Waiting
<1>r. main # "run" => Delivery!NoneRunning
  BY <1>0 DEF IInv, OneRunning, Delivery!NoneRunning
<1>1. ASSUME NEW p \in Threads, Post(p) PROVE Delivery!JDNext
  <2>1. CASE Len(jobs) < Capacity
    BY <1>1, <2>1 DEF Post, Delivery!Accept
  <2>2. CASE ~(Len(jobs) < Capacity)
    <3>1. jobs # << >>
      BY <1>0, <2>2, CapacityAssumption
    <3> QED BY <1>1, <1>o, <2>2, <3>1 DEF Post, Delivery!AcceptAndDrop
  <2> QED BY <2>1, <2>2
<1>2. CASE Pop
  <2>1. CASE jobs # << >>
    <3>1. owner # "nullptr" /\ Delivery!NoneRunning
      BY <1>2, <1>r DEF Pop, IInv, OneRunning
    <3> QED BY <1>2, <1>o, <2>1, <3>1 DEF Pop, Delivery!Start
  <2>2. CASE jobs = << >>
    BY <1>2, <2>2 DEF Pop
  <2> QED BY <2>1, <2>2
<1>3. CASE Run
  <2>1. job \in DOMAIN outcome /\ outcome[job] = "running"
    BY <1>0, <1>3, RunEffect
  <2> QED BY <1>3, <2>1 DEF Run, boxVars, Delivery!Finish
<1>4. CASE Detach
  BY <1>4, <1>r DEF Detach, Delivery!Close
<1>5. CASE Other \/ UNCHANGED vars
  BY <1>5, OtherKeeps
<1> QED BY <1>1, <1>2, <1>3, <1>4, <1>5 DEF Next, MainStep, Other

\* What a Discord thread may rely on: accepted jobs start oldest first, one
\* at a time, only the oldest waiting job is ever sacrificed, and none starts
\* once the protocol is being taken down.
THEOREM Implements == Spec => DeliverySpec
<1>1. Init => Delivery!JDInit
  BY DEF Init, Delivery!JDInit
<1> QED BY <1>1, StepDelivery, Safety, PTL DEF Spec, DeliverySpec, Delivery!JDSpec
=============================================================================
