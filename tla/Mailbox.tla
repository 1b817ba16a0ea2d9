------------------------------ MODULE Mailbox ------------------------------
(***************************************************************************)
(* The path by which a Discord event reaches the services' main thread:    *)
(* the bounded Mailbox of bridgeserv/mailbox.h, the self-pipe of           *)
(* pipeengine.cpp that wakes the main loop, the drain loop                 *)
(* DiscordProtocol::OnNotify, and StopCluster(), which the destructor and   *)
(* a changed configuration call.                                           *)
(*                                                                         *)
(* Producers are the threads of DPP's pool, Gateway is the DiscordThread   *)
(* that sits in cluster::start() and posts once if that throws.  A         *)
(* critical section of the mailbox's mutex is one action; the wake, the    *)
(* run of a job and the read of the pipe happen outside it and are actions *)
(* of their own.  A job is the position at which it was accepted; what it  *)
(* does is the business of the modules that use the mailbox.               *)
(***************************************************************************)
EXTENDS Naturals, Sequences, FiniteSets

CONSTANTS Producers,   \* the threads of DPP's pool
          Gateway,     \* the DiscordThread
          Capacity,    \* the most jobs the mailbox holds
          PipeSize,    \* the bytes the kernel buffers in the pipe
          ReadSize,    \* the bytes one read() of ProcessRead takes at most
          MaxPosts,    \* bound: jobs accepted from the pool in a behaviour
          MaxConfigs   \* bound: configurations that replace the cluster

ASSUME CapacityAssumption == Capacity \in Nat \ {0}
ASSUME PipeAssumption == PipeSize \in Nat \ {0} /\ ReadSize \in Nat \ {0}
ASSUME BoundsAssumption == MaxPosts \in Nat /\ MaxConfigs \in Nat
ASSUME GatewayAssumption == Gateway \notin Producers

VARIABLES owner,     \* the owner pointer (wake is set and cleared with it)
          jobs,      \* the queue
          dropped,   \* jobs dropped since the last TakeDropped
          pipe,      \* bytes in the self-pipe
          pc,        \* where each thread is: in start(), outside Post(), in its wake...
          main,      \* where the main thread is
          job,       \* the job the main thread holds, 0 for none
          outcome,   \* history: what became of each accepted job
          reported,  \* history: the sum of the counts that were logged
          configs    \* the configurations that replaced the cluster

boxVars  == <<owner, jobs, dropped>>
vars     == <<owner, jobs, dropped, pipe, pc, main, job, outcome, reported, configs>>

Threads  == Producers \cup {Gateway}
ThreadPc == {"start", "idle", "wake", "ended", "freed", "joined"}
MainPc   == {"poll", "drain", "run", "report", "read", "joining", "deleting", "gone"}
Outcomes   == {"queued", "running", "run", "dropped", "discarded"}

Init ==
    /\ owner = "protocol" /\ jobs = << >> /\ dropped = 0
    /\ pipe = 0
    /\ pc = [p \in Threads |-> "joined"] /\ configs = 0
    /\ main = "poll" /\ job = 0
    /\ outcome = << >> /\ reported = 0

-----------------------------------------------------------------------------
(* Plausible slips in the code, each caught by one of the properties.      *)

\* The write end of the pipe was left blocking.
Wake_Blocking(p) ==
    /\ pc[p] = "wake" /\ pipe < PipeSize
    /\ pipe' = pipe + 1
    /\ pc' = [pc EXCEPT ![p] = IF p = Gateway THEN "ended" ELSE "idle"]
    /\ UNCHANGED <<boxVars, main, job, outcome, reported, configs>>

\* The full mailbox pops its back rather than its front.
DropOldest_Newest(q) == IF Len(q) >= Capacity THEN SubSeq(q, 1, Len(q) - 1) ELSE q

\* The drain handles one job per wake.
Pop_Once ==
    /\ main = "drain"
    /\ IF jobs # << >>
       THEN /\ job' = Head(jobs) /\ jobs' = Tail(jobs)
            /\ outcome' = [outcome EXCEPT ![Head(jobs)] = "run"]
       ELSE UNCHANGED <<jobs, job, outcome>>
    /\ main' = "report"
    /\ UNCHANGED <<owner, dropped, pipe, pc, reported, configs>>

\* The count of dropped jobs is read without being reset.
TakeDropped_NoReset ==
    /\ main = "report"
    /\ reported' = reported + dropped
    /\ main' = "read"
    /\ UNCHANGED <<boxVars, pipe, pc, job, outcome, configs>>

-----------------------------------------------------------------------------
(* The threads *)

\* What a thread does after Post(): the pool's carry on, DiscordThread ends.
AfterPost(p) == IF p = Gateway THEN "ended" ELSE "idle"

DropOldest(q) == IF Len(q) >= Capacity THEN Tail(q) ELSE q

\* Post() on an attached mailbox: push, after making room, under the lock.
Post(p) ==
    /\ pc[p] = "idle" /\ owner # "nullptr"
    /\ p = Gateway \/ Len(outcome) < MaxPosts
    /\ LET room == Len(jobs) < Capacity
           old  == IF room THEN outcome
                   ELSE [outcome EXCEPT ![Head(jobs)] = "dropped"]
       IN  /\ jobs' = Append(DropOldest(jobs), Len(outcome) + 1)
           /\ dropped' = IF room THEN dropped ELSE dropped + 1
           /\ outcome' = Append(old, "queued")
    /\ pc' = [pc EXCEPT ![p] = "wake"]
    /\ UNCHANGED <<owner, pipe, main, job, reported, configs>>

\* Post() on a detached mailbox returns false.
PostRefused(p) ==
    /\ pc[p] = "idle" /\ owner = "nullptr"
    /\ pc' = [pc EXCEPT ![p] = AfterPost(p)]
    /\ UNCHANGED <<boxVars, pipe, main, job, outcome, reported, configs>>

\* The copied wake runs after the unlock: Notify() writes one byte, and a
\* full pipe refuses it because the write end does not block.
Wake(p) ==
    /\ pc[p] = "wake"
    /\ pipe' = IF pipe < PipeSize THEN pipe + 1 ELSE pipe
    /\ pc' = [pc EXCEPT ![p] = AfterPost(p)]
    /\ UNCHANGED <<boxVars, main, job, outcome, reported, configs>>

\* A pool thread leaves once the cluster is being deleted.
Exit(p) ==
    /\ main = "deleting" /\ p # Gateway /\ pc[p] = "idle"
    /\ pc' = [pc EXCEPT ![p] = "joined"]
    /\ UNCHANGED <<boxVars, pipe, main, job, outcome, reported, configs>>

\* cluster::start() throws: DiscordThread is left with OnStopped to post.
StartThrows ==
    /\ pc[Gateway] = "start"
    /\ pc' = [pc EXCEPT ![Gateway] = "idle"]
    /\ UNCHANGED <<boxVars, pipe, main, job, outcome, reported, configs>>

\* cluster::start() returns after cluster::shutdown(), if it returns at all:
\* the thread of a cluster that never came up does not.
StartReturns ==
    /\ main = "joining" /\ pc[Gateway] = "start"
    /\ pc' = [pc EXCEPT ![Gateway] = "ended"]
    /\ UNCHANGED <<boxVars, pipe, main, job, outcome, reported, configs>>

-----------------------------------------------------------------------------
(* The main thread *)

\* epoll reports the pipe readable and ProcessRead() calls OnNotify().
Poll ==
    /\ main = "poll" /\ pipe > 0
    /\ main' = "drain"
    /\ UNCHANGED <<boxVars, pipe, pc, job, outcome, reported, configs>>

\* One turn of the drain loop: take the front job, or leave the loop.
Pop ==
    /\ main = "drain"
    /\ \/ /\ jobs # << >>
          /\ job' = Head(jobs) /\ jobs' = Tail(jobs)
          /\ outcome' = [outcome EXCEPT ![Head(jobs)] = "running"]
          /\ main' = "run"
       \/ /\ jobs = << >>
          /\ main' = "report"
          /\ UNCHANGED <<jobs, job, outcome>>
    /\ UNCHANGED <<owner, dropped, pipe, pc, reported, configs>>

\* job(this), with the mailbox unlocked.
Run ==
    /\ main = "run"
    /\ outcome' = [outcome EXCEPT ![job] = "run"]
    /\ job' = 0 /\ main' = "drain"
    /\ UNCHANGED <<boxVars, pipe, pc, reported, configs>>

TakeDropped ==
    /\ main = "report"
    /\ reported' = reported + dropped /\ dropped' = 0
    /\ main' = "read"
    /\ UNCHANGED <<owner, jobs, pipe, pc, job, outcome, configs>>

\* ProcessRead() empties the pipe after OnNotify(); a full buffer reads again.
Read ==
    /\ main = "read"
    /\ IF pipe >= ReadSize
       THEN pipe' = pipe - ReadSize /\ main' = "read"
       ELSE pipe' = 0 /\ main' = "poll"
    /\ UNCHANGED <<boxVars, pc, job, outcome, reported, configs>>

\* A thread that ended notified its own pipe: Thread::OnNotify() joins it and
\* the socket engine deletes it, and DiscordProtocol::thread is not told.
Reap ==
    /\ main = "poll" /\ pc[Gateway] = "ended"
    /\ pc' = [pc EXCEPT ![Gateway] = "freed"]
    /\ UNCHANGED <<boxVars, pipe, main, job, outcome, reported, configs>>

\* ~DiscordProtocol: the mailbox is detached and emptied, then StopCluster().
Detach ==
    /\ main = "poll" /\ owner # "nullptr"
    /\ owner' = "nullptr" /\ jobs' = << >>
    /\ outcome' = [n \in DOMAIN outcome |->
                      IF outcome[n] = "queued" THEN "discarded" ELSE outcome[n]]
    /\ main' = "joining"
    /\ UNCHANGED <<dropped, pipe, pc, job, reported, configs>>

\* Configure() with another token or other intents: StopCluster() with the
\* mailbox still attached.
Configure ==
    /\ main = "poll" /\ owner # "nullptr" /\ configs < MaxConfigs
    /\ main' = "joining" /\ configs' = configs + 1
    /\ UNCHANGED <<boxVars, pipe, pc, job, outcome, reported>>

\* StopCluster(): thread->Join(), where there is a thread ...
Join ==
    /\ main = "joining" /\ pc[Gateway] \in {"ended", "joined"}
    /\ pc' = [pc EXCEPT ![Gateway] = "joined"]
    /\ main' = "deleting"
    /\ UNCHANGED <<boxVars, pipe, job, outcome, reported, configs>>

\* ... or was: the use of the deleted object is undefined.  It hangs, goes
\* unnoticed, or ends the process.
JoinFreed ==
    /\ main = "joining" /\ pc[Gateway] = "freed"
    /\ \/ main' = "deleting" /\ pc' = [pc EXCEPT ![Gateway] = "joined"]
       \/ main' = "gone" /\ pc' = [p \in Threads |-> "joined"]
    /\ UNCHANGED <<boxVars, pipe, job, outcome, reported, configs>>

\* delete cluster waits for the pool; the destructor is done ...
Destroy ==
    /\ main = "deleting" /\ owner = "nullptr"
    /\ \A p \in Producers : pc[p] = "joined"
    /\ main' = "gone"
    /\ UNCHANGED <<boxVars, pipe, pc, job, outcome, reported, configs>>

\* ... and Configure() starts the next cluster, if it has a token.
StartCluster ==
    /\ main = "deleting" /\ owner # "nullptr"
    /\ \A p \in Producers : pc[p] = "joined"
    /\ main' = "poll"
    /\ \/ pc' = [p \in Threads |-> IF p = Gateway THEN "start" ELSE "idle"]
       \/ UNCHANGED pc
    /\ UNCHANGED <<boxVars, pipe, job, outcome, reported, configs>>

Gone == main = "gone" /\ UNCHANGED vars

MainStep == Poll \/ Pop \/ Run \/ TakeDropped \/ Read \/ Join \/ Destroy \/ StartCluster

Next ==
    \/ \E p \in Threads : Post(p) \/ PostRefused(p) \/ Wake(p) \/ Exit(p)
    \/ StartThrows \/ StartReturns
    \/ MainStep \/ Reap \/ Detach \/ Configure \/ JoinFreed \/ Gone

\* The main loop, the pool and a DiscordThread that is out of start() keep
\* running.  Nobody has to call Post again, no module has to be unloaded, and
\* start() has neither to throw nor to return.
Fairness ==
    /\ WF_vars(MainStep)
    /\ \A p \in Threads : WF_vars(Wake(p)) /\ WF_vars(Exit(p))
    /\ WF_vars(Post(Gateway) \/ PostRefused(Gateway))

Spec     == Init /\ [][Next]_vars
FairSpec == Spec /\ Fairness
-----------------------------------------------------------------------------
(* Properties *)

TypeOK ==
    /\ owner \in {"protocol", "nullptr"} /\ dropped \in Nat /\ reported \in Nat
    /\ configs \in Nat /\ pipe \in 0..PipeSize
    /\ pc \in [Threads -> ThreadPc] /\ main \in MainPc
    /\ outcome \in Seq(Outcomes)
    /\ jobs \in Seq(Nat) /\ job \in Nat

\* The queue holds the last accepted jobs, all of them waiting, in the order
\* they were accepted; every other job has left it for good.  A gap, a
\* repetition or a waiting job outside the queue would be a lost event.
QueueExact ==
    /\ Len(jobs) <= Len(outcome)
    /\ \A i \in 1..Len(jobs) : jobs[i] = Len(outcome) - Len(jobs) + i
    /\ \A n \in 1..Len(outcome) :
          outcome[n] = "queued" <=> n > Len(outcome) - Len(jobs)

\* The mailbox never holds more than its capacity, and a detached one holds
\* nothing.
Bounded == Len(jobs) <= Capacity /\ (owner = "nullptr" => jobs = << >>)

\* The main thread holds exactly the job that is running, and it runs jobs
\* only while the protocol is attached: ~DiscordProtocol never interrupts one.
OneRunning ==
    /\ \A n \in 1..Len(outcome) : outcome[n] = "running" <=> (main = "run" /\ n = job)
    /\ main = "run" => job \in 1..Len(outcome)
    /\ owner = "nullptr" => main \in {"joining", "deleting", "gone"}

\* Every job lost to a full mailbox is in the count that OnNotify() logs, or
\* still in the counter it will log: the log never understates the loss.
DropsReported ==
    reported + dropped = Cardinality({n \in 1..Len(outcome) : outcome[n] = "dropped"})

\* The inductive invariant behind the theorems of Mailbox_proof.
IInv == TypeOK /\ QueueExact /\ Bounded /\ OneRunning

\* The mailbox, its pipe and its drain loop implement the promise JobDelivery
\* makes to the threads that post.
Delivery == INSTANCE JobDelivery WITH owner <- owner, outcome <- outcome
DeliverySpec == Delivery!JDSpec

Waiting(n) == n \in 1..Len(outcome) /\ outcome[n] = "queued"

\* StopCluster() waits for a thread that need not end, or for one that the
\* socket engine has deleted.
Stuck == main = "joining" /\ pc[Gateway] \in {"start", "freed"}

\* A job that waits while the main loop polls a readable pipe leaves the
\* queue, unless a changed configuration catches the main loop in StopCluster().
WokenJobRuns ==
    \A n \in 1..MaxPosts :
        (Waiting(n) /\ main = "poll" /\ pipe > 0) ~> (~Waiting(n) \/ Stuck)

\* Once start() is over StopCluster() ends: no thread that is inside Post() or
\* its wake waits for the main thread that waits for it, although the main
\* thread is the only reader of a pipe that may be full.
StopCompletes ==
    (main = "joining" /\ ~Stuck) ~> (main \in {"poll", "gone"})

\* The comment in ~DiscordProtocol: "StopCluster then joins DPP's threads".
\* The code does not ensure it: a DiscordThread whose start() threw is joined
\* and deleted by the main loop, and StopCluster() joins and deletes it again.
JoinsLiveThread == main = "joining" => pc[Gateway] # "freed"

\* What the wake is for (the comment on the constructor's w): every accepted
\* job leaves the queue.  The code does not ensure it: a Post() whose byte
\* arrives between the drain and the read of ProcessRead() is not seen.
EveryJobRuns == \A n \in 1..MaxPosts : Waiting(n) ~> ~Waiting(n)
=============================================================================
