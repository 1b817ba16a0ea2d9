--------------------------- MODULE Webhook_proof ---------------------------
(***************************************************************************)
(* Proof that, for any number of bridges, channels and names and in every  *)
(* environment, a bridge posts only through webhooks of its own channel    *)
(* and only through webhooks the echo filter knows.                        *)
(***************************************************************************)
EXTENDS Webhook, TLAPS, SequenceTheorems

\* What EnsureWebhook may do to the bridges and to the requests in flight.
LEMMA EnsureEffect ==
    ASSUME NEW S \in SUBSET Keys, NEW end, NEW pend, NEW back, NEW reqs,
           EnsureWebhook(S, end, pend, back, reqs)
    PROVE  /\ endpoint' = end
           /\ \A k \in pending' : k \in pend \/ (k \in S /\ chan'[k] # NoChan)
           /\ \A k \in backoff' : k \in back \/ (k \in S /\ chan'[k] # NoChan)
           /\ \A r \in rest' : \/ r \in reqs
                               \/ \E k \in S : /\ chan'[k] # NoChan
                                               /\ r = Request("list", k, chan'[k], 0, name')
<1> DEFINE start == {k \in S : /\ cluster' # "none" /\ connected' = "yes"
                               /\ chan'[k] # NoChan /\ end[k] = 0
                               /\ k \notin pend /\ k \notin back}
<1>1. PICK thrown \in IF "throw" \in Env THEN SUBSET start ELSE {{}} :
            /\ endpoint' = end
            /\ pending' = (pend \cup start) \ thrown
            /\ backoff' = back \cup thrown
            /\ rest' = reqs \cup
                 {Request("list", k, chan'[k], 0, name') : k \in start \ thrown}
    BY DEF EnsureWebhook
<1>2. thrown \subseteq start
    BY <1>1
<1> QED
    BY <1>1, <1>2

\* A request that was just sent is well formed and brings no webhook yet.
LEMMA NewRequest ==
    ASSUME NEW op \in Ops, NEW k \in Keys, NEW c \in Chans, NEW h \in 0..MaxHooks,
           NEW n \in Names, NEW r, r = Request(op, k, c, h, n)
    PROVE  IsRequest(r) /\ r.op = op /\ r.hook = h
    BY DEF Request, IsRequest, States

\* The requests in flight stay well formed when all that is added is
\* listings, creations without an answer, posts and deletions.
RestOK == /\ \A r \in rest : IsRequest(r)
          /\ \A r \in rest : r.op \in {"list", "create"} /\ r.hook # 0
                             => Known(r.hook, r.chan)

\* RestOK survives a step that adds only such requests (EnsureWebhook,
\* OnBridgeRemoved, Relay).
LEMMA RestGrows ==
    ASSUME RestOK, hooks' = hooks,
           \A r \in rest' : \/ r \in rest
                            \/ IsRequest(r) /\ (r.op \in {"list", "create"} => r.hook = 0)
    PROVE  RestOK'
    BY DEF RestOK, Known, IsRequest

\* What OnBridgesChanged may do, given sound bridges.
LEMMA ChangedEffect ==
    ASSUME TypeOK, RestOK, hooks' = hooks, chan' \in [Keys -> Chans \cup {NoChan}],
           name' \in Names,
           NEW end \in [Keys -> 0..MaxHooks], NEW pend, NEW back, NEW reqs,
           \A k \in pend : k \in Keys /\ chan'[k] # NoChan,
           \A k \in back : k \in Keys /\ chan'[k] # NoChan,
           \A r \in reqs : \/ r \in rest
                           \/ \E k \in Keys : endpoint[k] # 0 /\
                                r = Request("delete", k, chan[k], endpoint[k], name),
           OnBridgesChanged(end, pend, back, reqs)
    PROVE  /\ endpoint' = end
           /\ pending' \subseteq Bridges' /\ backoff' \subseteq Bridges'
           /\ own' \subseteq HookIds /\ bridged' \subseteq Chans
           /\ OwnFiltered'
           /\ RestOK'
<1>1. EnsureWebhook(Keys, end, pend, back, reqs)
    BY DEF OnBridgesChanged
<1>2. /\ endpoint' = end
      /\ \A k \in pending' : k \in pend \/ (k \in Keys /\ chan'[k] # NoChan)
      /\ \A k \in backoff' : k \in back \/ (k \in Keys /\ chan'[k] # NoChan)
      /\ \A r \in rest' : \/ r \in reqs
                          \/ \E k \in Keys : /\ chan'[k] # NoChan
                                             /\ r = Request("list", k, chan'[k], 0, name')
    BY <1>1, EnsureEffect
<1>3. pending' \subseteq Bridges' /\ backoff' \subseteq Bridges'
    BY <1>2 DEF Bridges
<1>4. own' \subseteq HookIds /\ bridged' \subseteq Chans /\ OwnFiltered'
    BY <1>2 DEF OnBridgesChanged, HookIds, OwnFiltered
<1>5. ASSUME NEW r \in rest'
      PROVE  r \in rest \/ (IsRequest(r) /\ (r.op \in {"list", "create"} => r.hook = 0))
    <2>1. CASE r \in reqs /\ r \notin rest
        <3>1. PICK k \in Keys : endpoint[k] # 0 /\
                 r = Request("delete", k, chan[k], endpoint[k], name)
            BY <2>1
        <3>2. chan[k] \in Chans /\ endpoint[k] \in 0..MaxHooks /\ name \in Names
            BY <3>1 DEF TypeOK, Bridges
        <3>3. "delete" \in Ops
            BY DEF Ops
        <3> QED
            BY <3>1, <3>2, <3>3, NewRequest
    <2>2. CASE \E k \in Keys : chan'[k] # NoChan /\ r = Request("list", k, chan'[k], 0, name')
        <3>1. PICK k \in Keys : chan'[k] # NoChan /\ r = Request("list", k, chan'[k], 0, name')
            BY <2>2
        <3>2. chan'[k] \in Chans /\ 0 \in 0..MaxHooks /\ "list" \in Ops
            BY <3>1, BoundsAssumption DEF Ops
        <3> QED
            BY <3>1, <3>2, NewRequest
    <2> QED
        BY <1>2, <2>1, <2>2
<1>6. RestOK'
    BY <1>5, RestGrows
<1> QED
    BY <1>2, <1>3, <1>4, <1>6

\* The deletions of OnBridgeRemoved are of webhooks that bridges have.
LEMMA DeleteEffect ==
    ASSUME NEW S \in SUBSET Keys, NEW gone \in DeleteWebhooks(S), NEW r \in gone
    PROVE  \E k \in Keys : endpoint[k] # 0 /\
                r = Request("delete", k, chan[k], endpoint[k], name)
    BY DEF DeleteWebhooks

-----------------------------------------------------------------------------
(* The steps that only touch one part of the invariant.                    *)

\* The jobs' half of Provenance.
JobsOK == \A i \in DOMAIN jobs : jobs[i].kind = "OnWebhookReady"
             => jobs[i].hook # 0 /\ Known(jobs[i].hook, jobs[i].chan)

\* The invariant is its parts, before a step and after it.
LEMMA Parts ==
    ASSUME IInv PROVE TypeOK /\ UniqueChans /\ RestOK /\ JobsOK /\ RightChannel /\ OwnFiltered
    BY DEF IInv, RestOK, JobsOK, Provenance, TypeOK

\* The parts after a step of the module make the invariant after it.
LEMMA PartsNext ==
    ASSUME TypeOK', UniqueChans', RestOK', JobsOK', RightChannel', OwnFiltered'
    PROVE  IInv'
    BY DEF IInv, RestOK, JobsOK, Provenance

\* The invariant holds before anything happens.
LEMMA InitIInv == Init => IInv
    BY BoundsAssumption, EmptySeq, KeysAssumption
       DEF Init, IInv, TypeOK, UniqueChans, Provenance, RightChannel, OwnFiltered,
           Bridges

\* ADD: a new bridge has no webhook, and a channel nobody else has.
LEMMA AddIInv == ASSUME IInv, NEW k \in Keys, NEW c \in Chans, Add(k, c) PROVE IInv'
<1> USE Parts
<1>1. chan' \in [Keys -> Chans \cup {NoChan}] /\ name' \in Names /\ hooks' = hooks
    BY DEF Add, TypeOK, linkVars, discordVars
<1>2. /\ endpoint \in [Keys -> 0..MaxHooks]
      /\ \A i \in pending : i \in Keys /\ chan'[i] # NoChan
      /\ \A i \in backoff : i \in Keys /\ chan'[i] # NoChan
    BY NoChanAssumption DEF Add, TypeOK, Bridges
<1>3. OnBridgesChanged(endpoint, pending, backoff, rest)
    BY DEF Add
<1>4. /\ endpoint' = endpoint
      /\ pending' \subseteq Bridges' /\ backoff' \subseteq Bridges'
      /\ own' \subseteq HookIds /\ bridged' \subseteq Chans
      /\ OwnFiltered'
      /\ RestOK'
    BY <1>1, <1>2, <1>3, ChangedEffect
<1>5. TypeOK'
    BY <1>1, <1>4 DEF Add, TypeOK, Bridges, linkVars, discordVars, RestOK
<1>6. UniqueChans'
    BY NoChanAssumption DEF Add, UniqueChans, Bridges, TypeOK
<1>7. RightChannel'
    BY <1>4 DEF Add, RightChannel, Known, TypeOK, Bridges, discordVars
<1>8. JobsOK'
    BY DEF Add, JobsOK, Known, discordVars
<1> QED
    BY <1>4, <1>5, <1>6, <1>7, <1>8, PartsNext

\* DEL: nothing of the bridge is left.
LEMMA DelIInv == ASSUME IInv, NEW k \in Keys, Del(k) PROVE IInv'
<1> USE Parts
<1> DEFINE end == [endpoint EXCEPT ![k] = 0]
<1>1. chan' \in [Keys -> Chans \cup {NoChan}] /\ name' \in Names /\ hooks' = hooks
    BY DEF Del, TypeOK, linkVars, discordVars
<1>2. /\ end \in [Keys -> 0..MaxHooks]
      /\ \A i \in pending \ {k} : i \in Keys /\ chan'[i] # NoChan
      /\ \A i \in backoff \ {k} : i \in Keys /\ chan'[i] # NoChan
    BY BoundsAssumption DEF Del, TypeOK, Bridges
<1>3. PICK gone \in DeleteWebhooks({k}) :
          OnBridgesChanged(end, pending \ {k}, backoff \ {k}, rest \cup gone)
    BY DEF Del
<1>4. ASSUME NEW r \in rest \cup gone
      PROVE  r \in rest \/ \E i \in Keys : endpoint[i] # 0 /\
                r = Request("delete", i, chan[i], endpoint[i], name)
    BY <1>3, DeleteEffect
<1>5. /\ endpoint' = end
      /\ pending' \subseteq Bridges' /\ backoff' \subseteq Bridges'
      /\ own' \subseteq HookIds /\ bridged' \subseteq Chans
      /\ OwnFiltered'
      /\ RestOK'
    <2> HIDE DEF end
    <2> QED
        BY <1>1, <1>2, <1>3, <1>4, ChangedEffect
<1>6. TypeOK'
    BY <1>1, <1>2, <1>5 DEF Del, TypeOK, Bridges, linkVars, discordVars, RestOK
<1>7. UniqueChans'
    BY DEF Del, UniqueChans, Bridges, TypeOK
<1>8. RightChannel'
    BY <1>5 DEF Del, RightChannel, Known, TypeOK, Bridges, discordVars
<1>9. JobsOK'
    BY DEF Del, JobsOK, Known, discordVars
<1> QED
    BY <1>5, <1>6, <1>7, <1>8, <1>9, PartsNext

\* SET: the webhook of the old channel goes with the old channel.
LEMMA SetIInv == ASSUME IInv, NEW k \in Keys, NEW c \in Chans, Set(k, c) PROVE IInv'
<1> USE Parts
<1> DEFINE end == [endpoint EXCEPT ![k] = 0]
           cleared == {k} \ {i \in Keys : endpoint[i] = 0}
<1>1. chan' \in [Keys -> Chans \cup {NoChan}] /\ name' \in Names /\ hooks' = hooks
    BY DEF Set, TypeOK, linkVars, discordVars
<1>2. /\ end \in [Keys -> 0..MaxHooks]
      /\ \A i \in pending \ cleared : i \in Keys /\ chan'[i] # NoChan
      /\ \A i \in backoff \ cleared : i \in Keys /\ chan'[i] # NoChan
    BY BoundsAssumption, NoChanAssumption DEF Set, TypeOK, Bridges
<1>3. PICK gone \in DeleteWebhooks({k}) :
          OnBridgesChanged(end, pending \ cleared, backoff \ cleared, rest \cup gone)
    BY DEF Set
<1>4. ASSUME NEW r \in rest \cup gone
      PROVE  r \in rest \/ \E i \in Keys : endpoint[i] # 0 /\
                r = Request("delete", i, chan[i], endpoint[i], name)
    BY <1>3, DeleteEffect
<1>5. /\ endpoint' = end
      /\ pending' \subseteq Bridges' /\ backoff' \subseteq Bridges'
      /\ own' \subseteq HookIds /\ bridged' \subseteq Chans
      /\ OwnFiltered'
      /\ RestOK'
    <2> HIDE DEF end, cleared
    <2> QED
        BY <1>1, <1>2, <1>3, <1>4, ChangedEffect
<1>6. TypeOK'
    BY <1>1, <1>2, <1>5, NoChanAssumption
       DEF Set, TypeOK, Bridges, linkVars, discordVars, RestOK
<1>7. UniqueChans'
    BY NoChanAssumption DEF Set, UniqueChans, Bridges, TypeOK
<1>8. RightChannel'
    BY <1>5 DEF Set, RightChannel, Known, TypeOK, Bridges, discordVars
<1>9. JobsOK'
    BY DEF Set, JobsOK, Known, discordVars
<1> QED
    BY <1>5, <1>6, <1>7, <1>8, <1>9, PartsNext

\* A reload: the webhooks that are replaced are given up by their bridges.
LEMMA ReloadIInv ==
    ASSUME IInv, NEW n \in Names, NEW t \in {"same", "new", "empty"}, OnReload(n, t)
    PROVE  IInv'
<1> USE Parts
<1> DEFINE restart == t # "same" \/ cluster = "none"
           renamed == /\ n # name /\ cluster' # "none" /\ connected' = "yes"
           retired == {k \in Keys : renamed /\ endpoint[k] # 0}
           end == [k \in Keys |-> IF k \in retired THEN 0 ELSE endpoint[k]]
           pend == IF restart /\ cluster' = "running" THEN {} ELSE pending \ retired
           kept == IF restart THEN {} ELSE rest
<1>1. chan' \in [Keys -> Chans \cup {NoChan}] /\ name' \in Names /\ hooks' = hooks
    BY DEF OnReload, TypeOK, discordVars
<1>2. /\ end \in [Keys -> 0..MaxHooks]
      /\ \A i \in pend : i \in Keys /\ chan'[i] # NoChan
      /\ \A i \in backoff \ retired : i \in Keys /\ chan'[i] # NoChan
    BY BoundsAssumption DEF OnReload, TypeOK, Bridges
<1>3. PICK gone \in DeleteWebhooks(retired) :
          OnBridgesChanged(end, pend, backoff \ retired, kept \cup gone)
    BY DEF OnReload
<1>4. ASSUME NEW r \in kept \cup gone
      PROVE  r \in rest \/ \E i \in Keys : endpoint[i] # 0 /\
                r = Request("delete", i, chan[i], endpoint[i], name)
    BY <1>3, DeleteEffect
<1>5. /\ endpoint' = end
      /\ pending' \subseteq Bridges' /\ backoff' \subseteq Bridges'
      /\ own' \subseteq HookIds /\ bridged' \subseteq Chans
      /\ OwnFiltered'
      /\ RestOK'
    <2> HIDE DEF end, pend, retired, kept
    <2> QED
        BY <1>1, <1>2, <1>3, <1>4, ChangedEffect
<1>6. \A k \in Keys : endpoint'[k] # 0 => endpoint[k] = endpoint'[k]
    BY <1>5
<1>7. cluster' \in {"none", "running", "dead"} /\ connected' \in {"yes", "no"}
    BY DEF OnReload, TypeOK
<1>8. chan' = chan /\ failures' = failures
    BY DEF OnReload
<1>9. \A k \in Keys \ Bridges' : endpoint'[k] = 0 /\ failures'[k] = 0
    BY <1>6, <1>8 DEF TypeOK, Bridges
<1>10. TypeOK'
    <2> HIDE DEF end
    <2> QED
        BY <1>1, <1>2, <1>5, <1>7, <1>9 DEF OnReload, TypeOK, discordVars, RestOK
<1>11. UniqueChans'
    BY <1>8 DEF UniqueChans, Bridges
<1>12. RightChannel'
    BY <1>1, <1>6, <1>8 DEF RightChannel, Known
<1>13. JobsOK'
    BY DEF OnReload, JobsOK, Known, discordVars
<1> QED
    BY <1>5, <1>10, <1>11, <1>12, <1>13, PartsNext

-----------------------------------------------------------------------------
(* Messages from IRC, the passing of time and the jobs of the mailbox.     *)

\* EnsureWebhook alone, called with the bridges as they are.
LEMMA EnsureSound ==
    ASSUME TypeOK, RestOK, hooks' = hooks, chan' = chan, name' = name,
           NEW S \in SUBSET Keys, NEW end, NEW pend \in SUBSET Bridges,
           NEW back \in SUBSET Bridges, EnsureWebhook(S, end, pend, back, rest)
    PROVE  /\ endpoint' = end
           /\ pending' \subseteq Bridges' /\ backoff' \subseteq Bridges'
           /\ RestOK'
<1>1. /\ endpoint' = end
      /\ \A k \in pending' : k \in pend \/ (k \in S /\ chan'[k] # NoChan)
      /\ \A k \in backoff' : k \in back \/ (k \in S /\ chan'[k] # NoChan)
      /\ \A r \in rest' : \/ r \in rest
                          \/ \E k \in S : /\ chan'[k] # NoChan
                                          /\ r = Request("list", k, chan'[k], 0, name')
    BY EnsureEffect
<1>2. pending' \subseteq Bridges' /\ backoff' \subseteq Bridges'
    BY <1>1 DEF Bridges
<1>3. ASSUME NEW r \in rest'
      PROVE  r \in rest \/ (IsRequest(r) /\ (r.op \in {"list", "create"} => r.hook = 0))
    <2>1. CASE r \notin rest
        <3>1. PICK k \in S : chan'[k] # NoChan /\ r = Request("list", k, chan'[k], 0, name')
            BY <1>1, <2>1
        <3>2. /\ k \in Keys /\ chan'[k] \in Chans /\ name' \in Names
              /\ 0 \in 0..MaxHooks /\ "list" \in Ops
            BY <3>1, BoundsAssumption DEF Ops, TypeOK
        <3> QED
            BY <3>1, <3>2, NewRequest
    <2> QED
        BY <2>1
<1>4. RestOK'
    BY <1>3, RestGrows
<1> QED
    BY <1>1, <1>2, <1>4

\* A message from IRC posts through the bridge's webhook or sets one up.
LEMMA SayIInv == ASSUME IInv, NEW k \in Keys, Say(k) PROVE IInv'
<1> USE Parts
<1>1. /\ UNCHANGED <<chan, cluster, connected, name, failures, own, bridged, jobs,
                     hooks, live, echoes, looped>>
      /\ k \in Bridges
    BY DEF Say, linkVars, filterVars, discordVars
<1>2. /\ endpoint' = endpoint
      /\ pending' \subseteq Bridges' /\ backoff' \subseteq Bridges'
      /\ RestOK'
    <2>1. CASE endpoint[k] # 0
        <3>1. /\ rest' = rest \cup {Request("exec", k, chan[k], endpoint[k], name)}
              /\ UNCHANGED <<endpoint, pending, backoff>>
            BY <2>1 DEF Say, Relay
        <3>2. /\ chan[k] \in Chans /\ endpoint[k] \in 0..MaxHooks /\ name \in Names
              /\ "exec" \in Ops
            BY <1>1 DEF TypeOK, Bridges, Ops
        <3>3. PICK r : r = Request("exec", k, chan[k], endpoint[k], name)
            OBVIOUS
        <3>4. IsRequest(r) /\ r.op = "exec"
            BY <3>2, <3>3, NewRequest
        <3>5. RestOK'
            BY <1>1, <3>1, <3>3, <3>4, RestGrows
        <3> QED
            BY <1>1, <3>1, <3>5 DEF TypeOK, Bridges
    <2>2. CASE endpoint[k] = 0
        <3>1. EnsureWebhook({k}, endpoint, pending, backoff, rest)
            BY <2>2 DEF Say, Relay
        <3> QED
            BY <1>1, <3>1, EnsureSound DEF TypeOK
    <2> QED
        BY <2>1, <2>2
<1>3. TypeOK'
    BY <1>1, <1>2 DEF TypeOK, Bridges, RestOK
<1>4. UniqueChans' /\ JobsOK' /\ RightChannel' /\ OwnFiltered'
    BY <1>1, <1>2 DEF UniqueChans, Bridges, JobsOK, RightChannel, OwnFiltered, Known
<1> QED
    BY <1>2, <1>3, <1>4, PartsNext

\* Time only shortens the backoff and forgets failures.
LEMMA TimeIInv ==
    ASSUME IInv, NEW k \in Keys, BackoffPasses(k) \/ WindowPasses(k) PROVE IInv'
<1> USE Parts
<1>1. /\ UNCHANGED <<chan, endpoint, pending, cluster, connected, name, own, bridged,
                     jobs, rest, hooks, live, echoes, looped>>
      /\ backoff' \subseteq backoff
      /\ failures' = failures \/ failures' = [failures EXCEPT ![k] = 0]
    BY DEF BackoffPasses, WindowPasses, linkVars, filterVars, discordVars
<1>2. failures' \in [Keys -> 0..2] /\ \A i \in Keys : failures[i] = 0 => failures'[i] = 0
    BY <1>1 DEF TypeOK
<1>3. TypeOK'
    BY <1>1, <1>2 DEF TypeOK, Bridges
<1>4. UniqueChans' /\ RestOK' /\ JobsOK' /\ RightChannel' /\ OwnFiltered'
    BY <1>1 DEF UniqueChans, Bridges, RestOK, JobsOK, RightChannel, OwnFiltered, Known
<1> QED
    BY <1>3, <1>4, PartsNext

\* What holds of the jobs holds of those that remain when the first is gone.
LEMMA TailJobs ==
    ASSUME TypeOK, JobsOK, jobs # << >>, jobs' = Tail(jobs), hooks' = hooks
    PROVE  /\ jobs' \in Seq(JobType) /\ JobsOK' /\ Head(jobs) \in JobType
           /\ Head(jobs).kind = "OnWebhookReady" =>
                 /\ Head(jobs).hook # 0
                 /\ Known(Head(jobs).hook, Head(jobs).chan)
<1>1. jobs \in Seq(JobType)
    BY DEF TypeOK
<1>2. /\ Head(jobs) = jobs[1] /\ 1 \in DOMAIN jobs /\ Head(jobs) \in JobType
      /\ Tail(jobs) \in Seq(JobType)
      /\ \A i \in DOMAIN Tail(jobs) : i + 1 \in DOMAIN jobs /\ Tail(jobs)[i] = jobs[i + 1]
    <2> DEFINE J == JobType
    <2> HIDE DEF J
    <2>1. jobs \in Seq(J)
        BY <1>1 DEF J
    <2> QED
        BY <2>1, HeadTailProperties, LenProperties, ElementOfSeq DEF J
<1> QED
    BY <1>2 DEF JobsOK, Known

\* A job that leaves endpoints, failures and the filter alone.
LEMMA QuietJob ==
    ASSUME IInv, NEW S \in SUBSET Keys, NEW pend \in SUBSET Bridges,
           NEW back \in SUBSET Bridges,
           UNCHANGED <<chan, cluster, name, bridged, hooks, live, echoes, looped,
                       failures, own>>,
           connected' \in {"yes", "no"}, jobs' \in Seq(JobType), JobsOK',
           EnsureWebhook(S, endpoint, pend, back, rest)
    PROVE  IInv'
<1> USE Parts
<1>1. /\ endpoint' = endpoint
      /\ pending' \subseteq Bridges' /\ backoff' \subseteq Bridges'
      /\ RestOK'
    BY EnsureSound
<1>2. TypeOK'
    BY <1>1 DEF TypeOK, Bridges, RestOK
<1>3. UniqueChans' /\ RightChannel' /\ OwnFiltered'
    BY <1>1 DEF UniqueChans, Bridges, RightChannel, OwnFiltered, Known
<1> QED
    BY <1>1, <1>2, <1>3, PartsNext

\* A job that at most releases the guard and changes the backoff of a bridge
\* and sends a creation for it.
LEMMA PlainJob ==
    ASSUME IInv, pending' \subseteq Bridges, backoff' \subseteq Bridges,
           UNCHANGED <<chan, cluster, name, bridged, hooks, live, echoes, looped,
                       failures, own, endpoint>>,
           connected' \in {"yes", "no"}, jobs' \in Seq(JobType), JobsOK',
           \A r \in rest' : \/ r \in rest
                            \/ IsRequest(r) /\ (r.op \in {"list", "create"} => r.hook = 0)
    PROVE  IInv'
<1> USE Parts
<1>1. RestOK'
    BY RestGrows
<1>2. TypeOK'
    BY <1>1 DEF TypeOK, Bridges, RestOK
<1>3. UniqueChans' /\ RightChannel' /\ OwnFiltered'
    BY DEF UniqueChans, Bridges, RightChannel, OwnFiltered, Known
<1> QED
    BY <1>1, <1>2, <1>3, PartsNext

\* Every job preserves the invariant.
LEMMA RunJobIInv == ASSUME IInv, RunJob PROVE IInv'
<1> USE Parts
<1>1. /\ jobs # << >> /\ jobs' = Tail(jobs)
      /\ UNCHANGED <<chan, cluster, name, bridged, hooks, live, echoes, looped>>
    BY DEF RunJob, discordVars
<1>2. PICK j : j = Head(jobs)
    OBVIOUS
<1>3. /\ jobs' \in Seq(JobType) /\ JobsOK' /\ j \in JobType
      /\ j.kind = "OnWebhookReady" => j.hook # 0 /\ Known(j.hook, j.chan)
    BY <1>1, <1>2, TailJobs
<1>4. j.key \in Keys /\ j.hook \in 0..MaxHooks
    BY <1>3 DEF JobType
<1>5. connected' \in {"yes", "no"}
    BY DEF RunJob, TypeOK
<1>6. /\ pending \in SUBSET Bridges /\ pending \ {j.key} \in SUBSET Bridges
      /\ backoff \in SUBSET Bridges /\ {} \in SUBSET Bridges
      /\ {j.key} \in SUBSET Keys /\ Keys \in SUBSET Keys
    BY <1>4 DEF TypeOK
<1>7. CASE j.kind = "OnReady" /\ OnReady
    BY <1>1, <1>3, <1>5, <1>6, <1>7, QuietJob DEF OnReady
<1>8. CASE /\ j.kind = "OnStopped"
           /\ UNCHANGED <<endpoint, pending, backoff, failures, rest, own>>
    BY <1>1, <1>3, <1>5, <1>6, <1>8, PlainJob
<1>9. CASE OnWebhookFailed(j.key) /\ UNCHANGED <<failures, own>>
    <2>1. backoff' \subseteq Bridges /\ pending' \subseteq Bridges
        BY <1>6, <1>9 DEF OnWebhookFailed
    <2> QED
        BY <1>1, <1>3, <1>5, <1>9, <2>1, PlainJob DEF OnWebhookFailed
<1>10. CASE CreateWebhook(j.key, j.chan)
    <2> DEFINE k == j.key
    <2>1. CASE k \notin Bridges /\ UNCHANGED <<endpoint, pending, backoff, rest>>
        BY <1>1, <1>3, <1>5, <1>6, <1>10, <2>1, PlainJob DEF CreateWebhook
    <2>2. CASE EnsureWebhook({k}, endpoint, pending \ {k}, backoff, rest)
        BY <1>1, <1>3, <1>5, <1>6, <1>10, <2>2, QuietJob DEF CreateWebhook
    <2>3. CASE OnWebhookFailed(k)
        BY <1>9, <1>10, <2>3 DEF CreateWebhook
    <2>4. CASE /\ PointsAt(k, j.chan)
               /\ rest' = rest \cup {Request("create", k, j.chan, 0, name)}
               /\ UNCHANGED <<endpoint, pending, backoff>>
        <3>1. /\ j.chan \in Chans /\ 0 \in 0..MaxHooks /\ name \in Names
              /\ "create" \in Ops
            BY <2>4, BoundsAssumption DEF PointsAt, Bridges, TypeOK, Ops
        <3>2. PICK r : r = Request("create", k, j.chan, 0, name)
            OBVIOUS
        <3>3. IsRequest(r) /\ r.hook = 0
            BY <1>4, <3>1, <3>2, NewRequest
        <3> QED
            BY <1>1, <1>3, <1>5, <1>6, <1>10, <2>4, <3>2, <3>3, PlainJob
               DEF CreateWebhook
    <2> QED
        BY <1>10, <2>1, <2>2, <2>3, <2>4 DEF CreateWebhook
<1>11. CASE j.kind = "OnWebhookReady" /\ OnWebhookReady(j.key, j.chan, j.hook)
    <2> DEFINE k == j.key
    <2>1. CASE k \notin Bridges /\ UNCHANGED <<endpoint, pending, backoff, rest, own>>
        BY <1>1, <1>3, <1>5, <1>6, <1>11, <2>1, PlainJob DEF OnWebhookReady
    <2>2. CASE EnsureWebhook({k}, endpoint, pending \ {k}, backoff, rest) /\ own' = own
        BY <1>1, <1>3, <1>5, <1>6, <1>11, <2>2, QuietJob DEF OnWebhookReady
    <2>3. CASE /\ PointsAt(k, j.chan)
               /\ endpoint' = [endpoint EXCEPT ![k] = j.hook]
               /\ pending' = pending \ {k} /\ backoff' = backoff \ {k}
               /\ own' = AddOwnWebhook(j.hook) /\ rest' = rest
        <3>1. k \in Bridges /\ chan[k] = j.chan /\ own' = own \cup {j.hook}
            BY <2>3 DEF PointsAt, AddOwnWebhook
        <3>2. j.hook # 0 /\ Known(j.hook, chan[k]) /\ failures' = failures
            BY <1>3, <1>11, <3>1 DEF OnWebhookReady
        <3>3. TypeOK'
            BY <1>1, <1>3, <1>4, <1>5, <2>3, <3>1, <3>2 DEF TypeOK, Bridges, HookIds
        <3>4. UniqueChans' /\ RestOK'
            BY <1>1, <2>3 DEF UniqueChans, Bridges, RestOK, Known
        <3>5. RightChannel' /\ OwnFiltered'
            BY <1>1, <2>3, <3>1, <3>2 DEF RightChannel, OwnFiltered, Known, TypeOK
        <3> QED
            BY <1>3, <3>3, <3>4, <3>5, PartsNext
    <2> QED
        BY <1>11, <2>1, <2>2, <2>3 DEF OnWebhookReady
<1>12. CASE OnWebhookSendFailed(j.key)
    <2> DEFINE k == j.key
               end == [endpoint EXCEPT ![k] = 0]
               back == IF failures[k] > 0 THEN backoff \cup {k} ELSE backoff \ {k}
    <2>1. CASE k \notin Bridges /\ UNCHANGED <<endpoint, pending, backoff, failures, rest, own>>
        BY <1>1, <1>3, <1>5, <1>6, <2>1, PlainJob
    <2>2. CASE /\ k \in Bridges
               /\ failures' = [failures EXCEPT ![k] = IF @ = 0 THEN 1 ELSE 2]
               /\ own' = own \ {endpoint[k]}
               /\ EnsureWebhook({k}, end, pending \ {k}, back, rest)
        <3>1. back \in SUBSET Bridges
            BY <1>6, <2>2
        <3>2. /\ endpoint' = end
              /\ pending' \subseteq Bridges' /\ backoff' \subseteq Bridges'
              /\ RestOK'
            <4> HIDE DEF end, back
            <4> QED
                BY <1>1, <1>6, <2>2, <3>1, EnsureSound
        <3>3. /\ endpoint' \in [Keys -> 0..MaxHooks] /\ failures' \in [Keys -> 0..2]
              /\ \A i \in Keys \ Bridges : endpoint'[i] = 0 /\ failures'[i] = 0
            BY <1>4, <2>2, <3>2, BoundsAssumption DEF TypeOK
        <3>4. TypeOK'
            BY <1>1, <1>3, <1>5, <2>2, <3>2, <3>3 DEF TypeOK, Bridges, RestOK
        <3>5. UniqueChans'
            BY <1>1 DEF UniqueChans, Bridges
        <3>6. RightChannel'
            BY <1>1, <1>4, <3>2 DEF RightChannel, Known, TypeOK
        <3>7. ASSUME NEW i \in Keys, endpoint'[i] # 0 PROVE endpoint'[i] \in own'
            <4>1. i # k /\ endpoint[i] # 0 /\ endpoint'[i] = endpoint[i]
                BY <1>4, <3>2, <3>7 DEF TypeOK
            <4>2. i \in Bridges
                BY <4>1 DEF TypeOK
            <4>3. endpoint[i] # endpoint[k]
                BY <1>4, <2>2, <4>1, <4>2 DEF RightChannel, Known, UniqueChans
            <4> QED
                BY <2>2, <4>1, <4>3 DEF OwnFiltered
        <3> QED
            BY <1>3, <3>2, <3>4, <3>5, <3>6, <3>7, PartsNext DEF OwnFiltered
    <2> QED
        BY <1>12, <2>1, <2>2 DEF OnWebhookSendFailed
<1> QED
    BY <1>2, <1>7, <1>8, <1>9, <1>10, <1>11, <1>12 DEF RunJob

-----------------------------------------------------------------------------
(* Discord and the threads of DPP.                                         *)

\* What holds of the jobs holds with one more at the end that is well formed.
LEMMA AppendJobs ==
    ASSUME TypeOK, JobsOK, hooks' = hooks, NEW j \in JobType, jobs' = Append(jobs, j),
           j.kind = "OnWebhookReady" => j.hook # 0 /\ Known(j.hook, j.chan)
    PROVE  jobs' \in Seq(JobType) /\ JobsOK'
<1> DEFINE J == JobType
<1>1. jobs \in Seq(J)
    BY DEF TypeOK
<1>2. /\ Append(jobs, j) \in Seq(J)
      /\ \A i \in DOMAIN Append(jobs, j) :
            Append(jobs, j)[i] = j \/ (i \in DOMAIN jobs /\ Append(jobs, j)[i] = jobs[i])
    <2> HIDE DEF J
    <2> QED
        BY <1>1, AppendProperties, LenProperties DEF J
<1> QED
    BY <1>2 DEF JobsOK, Known

\* A notice of the gateway, and a job that the full mailbox drops.
LEMMA GatewayIInv ==
    ASSUME IInv, GatewayReady \/ GatewayStops \/ MailboxDrops PROVE IInv'
<1> USE Parts
<1>1. /\ UNCHANGED <<chan, endpoint, pending, backoff, failures, connected, name, own,
                     bridged, rest, hooks, live, echoes, looped>>
      /\ cluster' \in {"none", "running", "dead"}
    BY DEF GatewayReady, GatewayStops, MailboxDrops, mainVars, bridgeVars, filterVars,
           discordVars, TypeOK
<1>2. jobs' \in Seq(JobType) /\ JobsOK'
    <2>1. CASE MailboxDrops
        BY <1>1, <2>1, TailJobs DEF MailboxDrops
    <2>2. ASSUME NEW kind \in {"OnReady", "OnStopped"}, jobs' = Append(jobs, Notice(kind))
          PROVE  jobs' \in Seq(JobType) /\ JobsOK'
        <3>1. (CHOOSE k \in Keys : TRUE) \in Keys
            BY KeysAssumption
        <3>2. Notice(kind) \in JobType /\ Notice(kind).kind = kind
            BY <3>1, BoundsAssumption DEF Notice, Job, JobType, JobKinds
        <3> QED
            BY <1>1, <2>2, <3>2, AppendJobs
    <2> QED
        BY <2>1, <2>2 DEF GatewayReady, GatewayStops
<1>3. TypeOK' /\ UniqueChans' /\ RestOK' /\ RightChannel' /\ OwnFiltered'
    BY <1>1, <1>2 DEF TypeOK, UniqueChans, Bridges, RestOK, RightChannel, OwnFiltered, Known
<1> QED
    BY <1>2, <1>3, PartsNext

\* The answer to a request becomes a job that says what the request said.
LEMMA AnswerIInv == ASSUME IInv, NEW r \in rest, Answer(r) PROVE IInv'
<1> USE Parts
<1>1. /\ UNCHANGED <<chan, endpoint, pending, backoff, failures, cluster, connected, name,
                     own, bridged, hooks, live, echoes, looped>>
      /\ rest' = rest \ {r}
    BY DEF Answer, mainVars, bridgeVars, filterVars, discordVars
<1>2. PICK j : /\ jobs' = Append(jobs, j)
               /\ j = IF r.op = "exec" THEN Job("OnWebhookSendFailed", r.key, NoChan, 0)
                      ELSE IF r.state = "error" THEN Job("OnWebhookFailed", r.key, NoChan, 0)
                      ELSE IF r.hook = 0 THEN Job("CreateWebhook", r.key, r.chan, 0)
                      ELSE Job("OnWebhookReady", r.key, r.chan, r.hook)
    BY DEF Answer
<1>3. IsRequest(r) /\ (r.op \in {"list", "create"} /\ r.hook # 0 => Known(r.hook, r.chan))
    BY DEF RestOK
<1>4. j \in JobType /\ (j.kind = "OnWebhookReady" =>
                           /\ j.hook = r.hook /\ j.chan = r.chan /\ r.op # "exec"
                           /\ r.hook # 0)
    BY <1>2, <1>3, BoundsAssumption DEF Job, JobType, JobKinds, IsRequest
<1>5. r.op # "delete"
    BY DEF Answer
<1>6. jobs' \in Seq(JobType) /\ JobsOK'
    BY <1>1, <1>2, <1>3, <1>4, <1>5, AppendJobs DEF IsRequest, Ops
<1>7. TypeOK' /\ UniqueChans' /\ RestOK' /\ RightChannel' /\ OwnFiltered'
    BY <1>1, <1>6 DEF TypeOK, UniqueChans, Bridges, RestOK, RightChannel, OwnFiltered, Known
<1> QED
    BY <1>6, <1>7, PartsNext

\* Discord's own steps: webhooks are only ever added, and keep their channel.
LEMMA DiscordIInv ==
    ASSUME IInv, RestOK',
           UNCHANGED <<chan, endpoint, pending, backoff, failures, cluster, connected, name,
                       own, bridged, jobs>>,
           \/ hooks' = hooks
           \/ /\ Len(hooks) < MaxHooks
              /\ \E x \in [chan : Chans, name : Names] : hooks' = Append(hooks, x),
           live' \subseteq live \cup {Len(hooks')}, live' \subseteq DOMAIN hooks',
           echoes' \subseteq echoes \cup live, looped' \subseteq looped \cup echoes
    PROVE  IInv'
<1> USE Parts
<1> DEFINE H == [chan : Chans, name : Names]
<1>1. /\ hooks' \in Seq(H) /\ Len(hooks') <= MaxHooks
      /\ \A h \in DOMAIN hooks : h \in DOMAIN hooks' /\ hooks'[h] = hooks[h]
    <2>1. hooks \in Seq(H) /\ Len(hooks) <= MaxHooks
        BY DEF TypeOK
    <2>2. CASE hooks' = hooks
        BY <2>1, <2>2
    <2>3. CASE Len(hooks) < MaxHooks /\ \E x \in H : hooks' = Append(hooks, x)
        <3>1. PICK x \in H : hooks' = Append(hooks, x)
            BY <2>3
        <3> HIDE DEF H
        <3> QED
            BY <2>1, <2>3, <3>1, AppendProperties, LenProperties, BoundsAssumption
    <2> QED
        BY <2>2, <2>3
<1>3. TypeOK'
    BY <1>1 DEF TypeOK, Bridges, RestOK
<1>4. UniqueChans' /\ OwnFiltered'
    BY DEF UniqueChans, Bridges, OwnFiltered
<1>5. JobsOK'
    BY <1>1 DEF JobsOK, Known
<1>6. RightChannel'
    BY <1>1 DEF RightChannel, Known
<1> QED
    BY <1>3, <1>4, <1>5, <1>6, PartsNext

\* Discord performs a request.
LEMMA PerformIInv == ASSUME IInv, NEW r \in rest, Perform(r) PROVE IInv'
<1> USE Parts
<1>1. /\ UNCHANGED <<chan, endpoint, pending, backoff, failures, cluster, connected, name,
                     own, bridged, jobs, looped>>
      /\ r.state = "sent"
    BY DEF Perform, mainVars, bridgeVars, filterVars
<1>2. IsRequest(r) /\ RestOK /\ live \subseteq DOMAIN hooks
      /\ (r.op \in {"list", "create"} /\ r.hook # 0 => Known(r.hook, r.chan))
    BY DEF RestOK, TypeOK
<1>3. hooks \in Seq([chan : Chans, name : Names]) /\ Len(hooks) <= MaxHooks /\ Len(hooks) \in Nat
      /\ DOMAIN hooks = 1..Len(hooks)
    BY LenProperties DEF TypeOK
<1>4. CASE /\ r.op = "list"
           /\ \E h \in Matching(r) \cup {0} :
                /\ h = 0 => Matching(r) = {}
                /\ rest' = (rest \ {r}) \cup {[r EXCEPT !.state = "ok", !.hook = h]}
           /\ UNCHANGED discordVars
    <2>1. PICK h \in Matching(r) \cup {0} :
              rest' = (rest \ {r}) \cup {[r EXCEPT !.state = "ok", !.hook = h]}
        BY <1>4
    <2>2. PICK q : q = [r EXCEPT !.state = "ok", !.hook = h]
        OBVIOUS
    <2>3. h # 0 => Known(h, r.chan)
        BY <1>2 DEF Matching, Known
    <2>4. h \in 0..MaxHooks
        BY <1>2, <1>3, BoundsAssumption DEF Matching
    <2>5. IsRequest(q) /\ q.hook = h /\ q.chan = r.chan
        BY <1>2, <2>2, <2>4 DEF IsRequest, States
    <2>6. RestOK'
        BY <1>2, <1>4, <2>1, <2>2, <2>3, <2>5 DEF RestOK, Known, discordVars
    <2> QED
        BY <1>1, <1>2, <1>4, <2>6, DiscordIInv DEF discordVars
<1>5. CASE /\ r.op = "create" /\ Len(hooks) < MaxHooks
           /\ hooks' = Append(hooks, [chan |-> r.chan, name |-> r.name])
           /\ live' = live \cup {Len(hooks) + 1}
           /\ rest' = (rest \ {r}) \cup
                        {[r EXCEPT !.state = "ok", !.hook = Len(hooks) + 1]}
           /\ echoes' = echoes
    <2>1. PICK q : q = [r EXCEPT !.state = "ok", !.hook = Len(hooks) + 1]
        OBVIOUS
    <2>2. PICK x \in [chan : Chans, name : Names] : x.chan = r.chan /\ hooks' = Append(hooks, x)
        BY <1>2, <1>5 DEF IsRequest
    <2>3. /\ Len(hooks') = Len(hooks) + 1 /\ DOMAIN hooks' = 1..(Len(hooks) + 1)
          /\ hooks'[Len(hooks) + 1] = x
          /\ \A h \in DOMAIN hooks : hooks'[h] = hooks[h]
        <3> DEFINE H == [chan : Chans, name : Names]
        <3>1. hooks \in Seq(H) /\ x \in H
            BY <1>3, <2>2
        <3> HIDE DEF H
        <3> QED
            BY <1>3, <2>2, <3>1, AppendProperties, LenProperties
    <2>4. IsRequest(q) /\ q.hook = Len(hooks) + 1 /\ q.chan = r.chan
        BY <1>2, <1>3, <1>5, <2>1, BoundsAssumption DEF IsRequest, States
    <2>5. RestOK'
        <3>1. Len(hooks) + 1 \in DOMAIN hooks' /\ hooks'[Len(hooks) + 1].chan = q.chan
            BY <1>3, <2>2, <2>3, <2>4
        <3>2. \A h \in DOMAIN hooks : h \in DOMAIN hooks' /\ hooks'[h] = hooks[h]
            BY <1>3, <2>3
        <3>3. rest' = (rest \ {r}) \cup {q}
            BY <1>5, <2>1
        <3>4. \A p \in rest' : IsRequest(p)
            BY <1>2, <2>4, <3>3 DEF RestOK
        <3>5. ASSUME NEW p \in rest', p.op \in {"list", "create"}, p.hook # 0
              PROVE  p.hook \in DOMAIN hooks' /\ hooks'[p.hook].chan = p.chan
            <4>1. CASE p = q
                BY <2>4, <3>1, <4>1
            <4>2. CASE p \in rest
                BY <1>2, <3>2, <3>5, <4>2 DEF RestOK, Known
            <4> QED
                BY <3>3, <4>1, <4>2
        <3> QED
            BY <3>4, <3>5 DEF RestOK, Known
    <2>6. live' \subseteq DOMAIN hooks' /\ live' \subseteq live \cup {Len(hooks')}
        BY <1>2, <1>3, <1>5, <2>3
    <2> QED
        BY <1>1, <1>5, <2>2, <2>5, <2>6, DiscordIInv
<1>6. CASE /\ rest' = (rest \ {r}) \cup {[r EXCEPT !.state = "error"]}
           /\ UNCHANGED discordVars
    <2>1. PICK q : q = [r EXCEPT !.state = "error"]
        OBVIOUS
    <2>2. IsRequest(q) /\ q.hook = r.hook /\ q.chan = r.chan /\ q.op = r.op
        BY <1>2, <2>1 DEF IsRequest, States
    <2>3. RestOK'
        BY <1>2, <1>6, <2>1, <2>2 DEF RestOK, Known, discordVars
    <2> QED
        BY <1>1, <1>2, <1>6, <2>3, DiscordIInv DEF discordVars
<1>7. CASE /\ rest' = rest \ {r} /\ hooks' = hooks
           /\ live' \subseteq live /\ echoes' \subseteq echoes \cup live
    <2>1. RestOK'
        BY <1>2, <1>7 DEF RestOK, Known
    <2> QED
        BY <1>1, <1>2, <1>7, <2>1, DiscordIInv
<1> QED
    BY <1>4, <1>5, <1>6, <1>7 DEF Perform, discordVars

\* Administrators delete webhooks; events of messages are dispatched.
LEMMA OutsideIInv ==
    ASSUME IInv, NEW h, AdminDeletes(h) \/ HandleMessage(h) PROVE IInv'
<1> USE Parts
<1>1. /\ UNCHANGED <<chan, endpoint, pending, backoff, failures, cluster, connected, name,
                     own, bridged, rest, jobs, hooks>>
      /\ live' \subseteq live /\ echoes' \subseteq echoes
      /\ looped' \subseteq looped \cup echoes
    BY DEF AdminDeletes, HandleMessage, mainVars, bridgeVars, filterVars
<1>2. RestOK' /\ live \subseteq DOMAIN hooks
    BY <1>1 DEF RestOK, Known, TypeOK
<1> QED
    BY <1>1, <1>2, DiscordIInv

-----------------------------------------------------------------------------
(* The theorems.                                                           *)

\* Every step preserves the invariant.
LEMMA StepIInv == IInv /\ [Next]_vars => IInv'
<1> SUFFICES ASSUME IInv, [Next]_vars PROVE IInv'
    OBVIOUS
<1>1. CASE UNCHANGED vars
    BY <1>1 DEF vars, bridgeVars, linkVars, filterVars, discordVars, IInv, TypeOK,
        UniqueChans, Provenance, RightChannel, OwnFiltered, Known, Bridges
<1>2. CASE Next
    BY <1>2, AddIInv, SetIInv, DelIInv, SayIInv, TimeIInv, ReloadIInv, RunJobIInv,
       GatewayIInv, PerformIInv, AnswerIInv, OutsideIInv DEF Next
<1> QED
    BY <1>1, <1>2

\* The inductive invariant holds in every behaviour of the specification.
THEOREM Safety == Spec => []IInv
    BY InitIInv, StepIInv, PTL DEF Spec

\* Whatever late, failed or lost answers do, a bridge never posts through
\* the webhook of another Discord channel (OnWebhookReady, CreateWebhook).
THEOREM AlwaysRightChannel == Spec => []RightChannel
<1>1. IInv => RightChannel
    BY DEF IInv
<1> QED
    BY <1>1, Safety, PTL

\* The echo filter always knows every webhook that a bridge posts through
\* (AddOwnWebhook, DelOwnWebhook and SetOwnWebhooks in discord.cpp).
THEOREM AlwaysOwnFiltered == Spec => []OwnFiltered
<1>1. IInv => OwnFiltered
    BY DEF IInv
<1> QED
    BY <1>1, Safety, PTL

\* Every variable keeps its type, and a removed bridge leaves nothing behind.
THEOREM TypeCorrect == Spec => []TypeOK
<1>1. IInv => TypeOK
    BY DEF IInv
<1> QED
    BY <1>1, Safety, PTL

-----------------------------------------------------------------------------
(* The guards of setups.                                                   *)

\* What EnsureWebhook guards it has asked Discord about, and it takes no request
\* back.
LEMMA EnsureAsks ==
    ASSUME NEW S, NEW end, NEW pend, NEW back, NEW reqs,
           EnsureWebhook(S, end, pend, back, reqs)
    PROVE  /\ reqs \subseteq rest'
           /\ \A k \in pending' : k \in pend \/ \E r \in rest' : r.key = k /\ r.op = "list"
<1> DEFINE start == {k \in S : /\ cluster' # "none" /\ connected' = "yes"
                               /\ chan'[k] # NoChan /\ end[k] = 0
                               /\ k \notin pend /\ k \notin back}
           Ask(k) == Request("list", k, chan'[k], 0, name')
<1>1. PICK thrown \in IF "throw" \in Env THEN SUBSET start ELSE {{}} :
            /\ pending' = (pend \cup start) \ thrown
            /\ rest' = reqs \cup {Ask(k) : k \in start \ thrown}
    BY DEF EnsureWebhook
<1>2. \A k : Ask(k).key = k /\ Ask(k).op = "list"
    BY DEF Request
<1> HIDE DEF start, Ask
<1> QED
    BY <1>1, <1>2

\* A setup is under way as long as its request or its job is there.
LEMMA StillSettingUp ==
    ASSUME NEW k, SettingUp(k), rest \subseteq rest',
           \A i \in DOMAIN jobs : \E j \in DOMAIN jobs' : jobs'[j] = jobs[i]
    PROVE  SettingUp(k)'
    BY DEF SettingUp

\* Where EnsureWebhook ends a step that left the jobs alone.
LEMMA EnsureCause ==
    ASSUME NEW S, NEW end, NEW pend, NEW back, NEW reqs, rest \subseteq reqs, jobs' = jobs,
           EnsureWebhook(S, end, pend, back, reqs), NEW k \in pending', ~SettingUp(k)'
    PROVE  k \in pend /\ ~SettingUp(k)
<1>1. rest \subseteq rest' /\ (k \in pend \/ \E r \in rest' : r.key = k /\ r.op = "list")
    BY EnsureAsks
<1> QED
    BY <1>1, StillSettingUp DEF SettingUp

\* The commands and the timers.
LEMMA CommandCause ==
    ASSUME \/ \E k \in Keys, c \in Chans : Add(k, c) \/ Set(k, c)
           \/ \E k \in Keys : Del(k) \/ Say(k) \/ BackoffPasses(k) \/ WindowPasses(k)
    PROVE  Orphans' \subseteq Orphans
<1>1. jobs' = jobs /\ cluster' = cluster
    BY DEF Add, Set, Del, Say, BackoffPasses, WindowPasses, linkVars
<1>2. ASSUME NEW i \in pending', ~SettingUp(i)' PROVE i \in pending /\ ~SettingUp(i)
    <2>1. ASSUME NEW k \in Keys, NEW c \in Chans, Add(k, c) PROVE i \in pending /\ ~SettingUp(i)
        BY <1>1, <1>2, <2>1, EnsureCause DEF Add, OnBridgesChanged
    <2>2. ASSUME NEW k \in Keys, NEW c \in Chans, Set(k, c) PROVE i \in pending /\ ~SettingUp(i)
        <3> DEFINE cleared == {k} \ {j \in Keys : endpoint[j] = 0}
        <3>1. PICK gone \in DeleteWebhooks({k}) :
                 EnsureWebhook(Keys, [endpoint EXCEPT ![k] = 0], pending \ cleared,
                               backoff \ cleared, rest \cup gone)
            BY <2>2 DEF Set, OnBridgesChanged
        <3>2. i \in pending \ cleared /\ ~SettingUp(i)
            <4> HIDE DEF cleared
            <4> QED
                BY <1>1, <1>2, <3>1, EnsureCause
        <3> QED
            BY <3>2
    <2>3. ASSUME NEW k \in Keys, Del(k) PROVE i \in pending /\ ~SettingUp(i)
        <3>1. PICK gone \in DeleteWebhooks({k}) :
                 EnsureWebhook(Keys, [endpoint EXCEPT ![k] = 0], pending \ {k},
                               backoff \ {k}, rest \cup gone)
            BY <2>3 DEF Del, OnBridgesChanged
        <3> QED
            BY <1>1, <1>2, <3>1, EnsureCause
    <2>4. ASSUME NEW k \in Keys, Say(k) PROVE i \in pending /\ ~SettingUp(i)
        <3>1. CASE EnsureWebhook({k}, endpoint, pending, backoff, rest)
            BY <1>1, <1>2, <3>1, EnsureCause
        <3>2. CASE pending' = pending /\ rest \subseteq rest'
            BY <1>1, <1>2, <3>2, StillSettingUp
        <3> QED
            BY <2>4, <3>1, <3>2 DEF Say, Relay
    <2>5. ASSUME NEW k \in Keys, BackoffPasses(k) \/ WindowPasses(k)
          PROVE  i \in pending /\ ~SettingUp(i)
        BY <1>1, <1>2, <2>5, StillSettingUp DEF BackoffPasses, WindowPasses
    <2> QED
        BY <2>1, <2>2, <2>3, <2>4, <2>5
<1> QED
    BY <1>1, <1>2 DEF Orphans

\* A reload: a new connection drops the requests of the old one and the guards
\* with them.
LEMMA ReloadCause ==
    ASSUME NEW n \in Names, NEW t \in {"same", "new", "empty"}, OnReload(n, t)
    PROVE  Orphans' \subseteq Orphans
<1> DEFINE restart == t # "same" \/ cluster = "none"
           renamed == /\ n # name /\ cluster' # "none" /\ connected' = "yes"
           retired == {k \in Keys : renamed /\ endpoint[k] # 0}
           end == [k \in Keys |-> IF k \in retired THEN 0 ELSE endpoint[k]]
           pend == IF restart /\ cluster' = "running" THEN {} ELSE pending \ retired
           kept == IF restart THEN {} ELSE rest
<1>1. PICK gone \in DeleteWebhooks(retired) :
         EnsureWebhook(Keys, end, pend, backoff \ retired, kept \cup gone)
    BY DEF OnReload, OnBridgesChanged
<1>2. jobs' = jobs /\ (restart => cluster' \in {"none", "running"}) /\ (~restart => cluster' = cluster)
    BY DEF OnReload
<1> HIDE DEF end, retired
<1>3. CASE restart /\ cluster' = "running"
    <2>1. \A k \in pending' : \E r \in rest' : r.key = k /\ r.op = "list"
        BY <1>1, <1>3, EnsureAsks
    <2> QED
        BY <2>1 DEF Orphans, SettingUp
<1>4. CASE cluster' = "none"
    BY <1>4 DEF Orphans
<1>5. CASE ~restart
    <2>1. ASSUME NEW i \in pending', ~SettingUp(i)' PROVE i \in pending /\ ~SettingUp(i)
        BY <1>1, <1>2, <1>5, <2>1, EnsureCause
    <2> QED
        BY <1>2, <1>5, <2>1 DEF Orphans
<1> QED
    BY <1>2, <1>3, <1>4, <1>5

\* Discord performs a request of a setup, and its answer becomes a job of it.
LEMMA DiscordCause ==
    ASSUME IInv, \/ GatewayReady \/ GatewayStops
                 \/ \E r \in rest : Perform(r) \/ Answer(r)
                 \/ \E h \in live : AdminDeletes(h)
                 \/ \E h \in echoes : HandleMessage(h)
    PROVE  Orphans' \subseteq Orphans
<1> USE DEF mainVars, bridgeVars
<1>1. jobs \in Seq(JobType)
    BY DEF IInv, TypeOK
<1>2. pending' = pending /\ (cluster' = "none" <=> cluster = "none")
    BY DEF GatewayReady, GatewayStops, Perform, Answer, AdminDeletes, HandleMessage
<1>3. ASSUME NEW k, SettingUp(k) PROVE SettingUp(k)'
    <2>1. CASE GatewayReady \/ GatewayStops
        <3>1. rest' = rest /\ \E e : jobs' = Append(jobs, e)
            BY <2>1 DEF GatewayReady, GatewayStops
        <3>2. \A i \in DOMAIN jobs : i \in DOMAIN jobs' /\ jobs'[i] = jobs[i]
            BY <1>1, <3>1
        <3> QED
            BY <1>3, <3>1, <3>2, StillSettingUp
    <2>2. CASE (\E h \in live : AdminDeletes(h)) \/ \E h \in echoes : HandleMessage(h)
        <3>1. rest' = rest /\ jobs' = jobs
            BY <2>2 DEF AdminDeletes, HandleMessage
        <3> QED
            BY <1>3, <3>1, StillSettingUp
    <2>3. ASSUME NEW r \in rest, Perform(r) PROVE SettingUp(k)'
        <3>1. /\ jobs' = jobs /\ \A q \in rest \ {r} : q \in rest'
              /\ r.op \in {"list", "create"} => \E q \in rest' : q.key = r.key /\ q.op = r.op
            <4>1. IsRequest(r)
                BY DEF IInv, TypeOK
            <4>2. jobs' = jobs /\ \A q \in rest \ {r} : q \in rest'
                BY <2>3 DEF Perform
            <4>3. ASSUME r.op \in {"list", "create"}
                  PROVE  \E q \in rest' : q.key = r.key /\ q.op = r.op
                <5>1. \/ \E h : [r EXCEPT !.state = "ok", !.hook = h] \in rest'
                      \/ [r EXCEPT !.state = "error"] \in rest'
                    BY <2>3, <4>3 DEF Perform
                <5>2. CASE \E h : [r EXCEPT !.state = "ok", !.hook = h] \in rest'
                    <6>1. PICK h : [r EXCEPT !.state = "ok", !.hook = h] \in rest'
                        BY <5>2
                    <6>2. PICK q : q = [r EXCEPT !.state = "ok", !.hook = h]
                        OBVIOUS
                    <6>3. q.key = r.key /\ q.op = r.op
                        BY <4>1, <6>2 DEF IsRequest
                    <6> QED
                        BY <6>1, <6>2, <6>3
                <5>3. CASE [r EXCEPT !.state = "error"] \in rest'
                    <6>1. PICK q : q = [r EXCEPT !.state = "error"]
                        OBVIOUS
                    <6>2. q.key = r.key /\ q.op = r.op
                        BY <4>1, <6>1 DEF IsRequest
                    <6> QED
                        BY <5>3, <6>1, <6>2
                <5> QED
                    BY <5>1, <5>2, <5>3
            <4> QED
                BY <4>2, <4>3
        <3> QED
            BY <1>3, <3>1 DEF SettingUp
    <2>4. ASSUME NEW r \in rest, Answer(r) PROVE SettingUp(k)'
        <3> DEFINE e == IF r.op = "exec" THEN Job("OnWebhookSendFailed", r.key, NoChan, 0)
                        ELSE IF r.state = "error" THEN Job("OnWebhookFailed", r.key, NoChan, 0)
                        ELSE IF r.hook = 0 THEN Job("CreateWebhook", r.key, r.chan, 0)
                        ELSE Job("OnWebhookReady", r.key, r.chan, r.hook)
        <3>1. rest' = rest \ {r} /\ jobs' = Append(jobs, e)
            BY <2>4 DEF Answer
        <3>2. r.op \in {"list", "create"} =>
                 e.key = r.key /\ e.kind \in {"CreateWebhook", "OnWebhookReady", "OnWebhookFailed"}
            BY DEF Job
        <3> HIDE DEF e
        <3>3. /\ \A i \in DOMAIN jobs : i \in DOMAIN jobs' /\ jobs'[i] = jobs[i]
              /\ Len(jobs) + 1 \in DOMAIN jobs' /\ jobs'[Len(jobs) + 1] = e
            BY <1>1, <3>1
        <3> QED
            BY <1>3, <3>1, <3>2, <3>3 DEF SettingUp
    <2> QED
        BY <2>1, <2>2, <2>3, <2>4
<1> QED
    BY <1>2, <1>3 DEF Orphans

\* A job that ends a setup releases the guard, unless it sends the next request.
LEMMA RunJobCause ==
    ASSUME IInv, RunJob
    PROVE  Orphans' \subseteq Orphans
<1> DEFINE j == Head(jobs)
           Setup == {"CreateWebhook", "OnWebhookReady", "OnWebhookFailed"}
<1>1. /\ jobs \in Seq(JobType) /\ jobs # << >> /\ jobs' = Tail(jobs)
      /\ chan' = chan /\ cluster' = cluster /\ pending \subseteq Bridges
    BY DEF IInv, TypeOK, RunJob
<1>2. \A i \in DOMAIN jobs : i = 1 \/ (i - 1 \in DOMAIN jobs' /\ jobs'[i - 1] = jobs[i])
    BY <1>1
<1>3. j = jobs[1]
    BY <1>1
<1> HIDE DEF j
<1>4. ASSUME NEW k, SettingUp(k), rest \subseteq rest', j.key # k \/ j.kind \notin Setup
      PROVE  SettingUp(k)'
    BY <1>2, <1>3, <1>4 DEF SettingUp
<1>5. ASSUME NEW S, NEW end, NEW pend, NEW back, EnsureWebhook(S, end, pend, back, rest),
             NEW k \in pending', ~SettingUp(k)', j.key # k \/ j.kind \notin Setup
      PROVE  k \in pend /\ ~SettingUp(k)
    <2>1. rest \subseteq rest' /\ (k \in pend \/ \E r \in rest' : r.key = k /\ r.op = "list")
        BY <1>5, EnsureAsks
    <2> QED
        BY <1>4, <1>5, <2>1 DEF SettingUp
<1>6. ASSUME NEW S, NEW end, NEW pend, NEW back, EnsureWebhook(S, end, pend, back, rest),
             NEW k \in pending', ~SettingUp(k)'
      PROVE  k \in pend
    BY <1>6, EnsureAsks DEF SettingUp
<1>7. ASSUME NEW k \in pending', ~SettingUp(k)' PROVE k \in pending /\ ~SettingUp(k)
    <2>1. CASE j.kind \in {"OnReady", "OnStopped"}
        <3>1. CASE EnsureWebhook(Keys, endpoint, pending, {}, rest)
            BY <1>5, <1>7, <2>1, <3>1
        <3>2. CASE pending' = pending /\ rest' = rest
            BY <1>4, <1>7, <2>1, <3>2
        <3> QED
            BY <2>1, <3>1, <3>2 DEF RunJob, OnReady, j
    <2>2. CASE j.kind = "OnWebhookSendFailed"
        <3>1. CASE EnsureWebhook({j.key}, [endpoint EXCEPT ![j.key] = 0], pending \ {j.key},
                        IF failures[j.key] > 0 THEN backoff \cup {j.key}
                                               ELSE backoff \ {j.key}, rest)
            BY <1>5, <1>7, <2>2, <3>1
        <3>2. CASE pending' = pending /\ rest' = rest
            BY <1>4, <1>7, <2>2, <3>2
        <3> QED
            BY <2>2, <3>1, <3>2 DEF RunJob, OnWebhookSendFailed, j
    <2>3. CASE j.kind \in Setup
        <3>1. \/ j.key \notin Bridges /\ pending' = pending /\ rest' = rest
              \/ pending' = pending \ {j.key} /\ rest' = rest
              \/ EnsureWebhook({j.key}, endpoint, pending \ {j.key}, backoff, rest)
              \/ /\ pending' = pending /\ rest \subseteq rest'
                 /\ \E r \in rest' : r.key = j.key /\ r.op = "create"
            <4>1. CASE j.kind = "OnWebhookFailed"
                BY <2>3, <4>1 DEF RunJob, OnWebhookFailed, j
            <4>2. CASE j.kind = "OnWebhookReady"
                BY <2>3, <4>2 DEF RunJob, OnWebhookReady, j
            <4>3. CASE j.kind = "CreateWebhook"
                <5>1. CreateWebhook(j.key, j.chan)
                    BY <4>3 DEF RunJob, j
                <5>2. CASE rest' = rest \cup {Request("create", j.key, j.chan, 0, name)}
                           /\ pending' = pending
                    <6>1. Request("create", j.key, j.chan, 0, name) \in rest'
                        BY <5>2
                    <6> QED
                        BY <5>2, <6>1 DEF Request
                <5> QED
                    BY <5>1, <5>2 DEF CreateWebhook, OnWebhookFailed
            <4> QED
                BY <2>3, <4>1, <4>2, <4>3
        <3>2. k # j.key
            BY <1>1, <1>6, <1>7, <3>1 DEF SettingUp
        <3> QED
            BY <1>4, <1>5, <1>7, <3>1, <3>2
    <2> QED
        BY <1>7, <2>1, <2>2, <2>3 DEF RunJob, j
<1> QED
    BY <1>1, <1>7 DEF Orphans

\* No path of a setup that fails, throws, is answered late or survives its
\* connection forgets to release the guard (EnsureWebhook, CreateWebhook,
\* OnWebhookReady, OnWebhookFailed); only a job that is lost leaves it behind.
THEOREM GuardsHaveCauses == Spec => PendingHasCause
<1>1. IInv /\ [Next]_vars => [Orphans' \subseteq Orphans \/ MailboxDrops]_vars
    BY CommandCause, ReloadCause, DiscordCause, RunJobCause DEF Next
<1> QED
    BY <1>1, Safety, PTL DEF Spec, PendingHasCause
=============================================================================
