---------------------------- MODULE JobDelivery ----------------------------
(***************************************************************************)
(* What a Discord thread is promised when it hands a job to the main       *)
(* thread, whatever queue, lock or pipe carries it: jobs are numbered in   *)
(* the order they were accepted, the oldest waiting job is the one that    *)
(* starts and also the one that is sacrificed when there is no room, one   *)
(* job runs at a time, and closing the delivery discards what still waits. *)
(***************************************************************************)
EXTENDS Naturals, Sequences

VARIABLES owner,    \* whom the jobs are for, "nullptr" once it is going away
          outcome   \* outcome[n] is what became of the n-th accepted job

jdVars == <<owner, outcome>>

Outcomes == {"queued", "running", "run", "dropped", "discarded"}

Waiting(n)  == n \in DOMAIN outcome /\ outcome[n] = "queued"
Oldest(n)   == Waiting(n) /\ \A m \in 1..(n - 1) : outcome[m] # "queued"
NoneRunning == \A n \in DOMAIN outcome : outcome[n] # "running"

JDInit == owner = "protocol" /\ outcome = << >>

Accept ==
    /\ owner # "nullptr"
    /\ outcome' = Append(outcome, "queued")
    /\ UNCHANGED owner

\* There is no room: the oldest waiting job makes way for the new one.
AcceptAndDrop ==
    /\ owner # "nullptr"
    /\ \E n \in DOMAIN outcome :
          /\ Oldest(n)
          /\ outcome' = Append([outcome EXCEPT ![n] = "dropped"], "queued")
    /\ UNCHANGED owner

Start ==
    /\ owner # "nullptr" /\ NoneRunning
    /\ \E n \in DOMAIN outcome :
          Oldest(n) /\ outcome' = [outcome EXCEPT ![n] = "running"]
    /\ UNCHANGED owner

Finish ==
    /\ \E n \in DOMAIN outcome :
          outcome[n] = "running" /\ outcome' = [outcome EXCEPT ![n] = "run"]
    /\ UNCHANGED owner

\* Nothing runs while the delivery is closed, and nothing starts afterwards.
Close ==
    /\ owner # "nullptr" /\ NoneRunning
    /\ owner' = "nullptr"
    /\ outcome' = [n \in DOMAIN outcome |->
                      IF outcome[n] = "queued" THEN "discarded" ELSE outcome[n]]

JDNext == Accept \/ AcceptAndDrop \/ Start \/ Finish \/ Close

JDSpec == JDInit /\ [][JDNext]_jdVars
=============================================================================
