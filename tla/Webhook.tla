------------------------------ MODULE Webhook ------------------------------
(***************************************************************************)
(* The life of a bridge's Discord webhook (modules/bridgeserv/discord.cpp).*)
(*                                                                         *)
(* The main thread keeps, per bridge, the webhook it posts through         *)
(* (endpoint), the guard of a setup in flight (pending) and the backoff of *)
(* a failed one.  Everything it asks of Discord is a REST request: Discord *)
(* performs it at some time, its answer comes back at some later time on   *)
(* one of DPP's threads and becomes a job in the mailbox, and the job runs *)
(* when the main thread gets to it.  Meanwhile an operator may remove,     *)
(* re-create, repoint or rename what the request was made for.             *)
(*                                                                         *)
(* Time is abstracted to the two conditions the code tests: whether the    *)
(* backoff of a bridge still runs (CurTime < endpoint_retry_at) and        *)
(* whether its last failure is recent (the 300 seconds of                  *)
(* OnWebhookSendFailed).  Message bodies, tokens and threads are left out. *)
(***************************************************************************)
EXTENDS Naturals, Sequences, FiniteSets

CONSTANTS Keys,      \* IRC channels that may be bridged
          Chans,     \* Discord channels
          Names,     \* values of the bridgename setting
          NoChan,    \* the foreign channel of a bridge that does not exist
          Env,       \* what happens around the module, a subset of EnvKinds
          MaxHooks,  \* bound: webhooks that Discord creates in a behaviour
          MaxRest,   \* bound: requests in flight when new input arrives
          MaxJobs    \* bound: jobs queued when new input arrives

EnvKinds == {"add", "del", "set", "rename", "token", "say", "admin",
             "error", "throw", "stop", "overflow", "echo"}

ASSUME EnvAssumption == Env \subseteq EnvKinds
ASSUME KeysAssumption == Keys # {}
ASSUME NoChanAssumption == NoChan \notin Chans
ASSUME BoundsAssumption == MaxHooks \in Nat /\ MaxRest \in Nat /\ MaxJobs \in Nat

VARIABLES
    chan,       \* Bridge::foreign_channel of each key, NoChan without a bridge
    endpoint,   \* Bridge::endpoint_id, 0 when empty
    pending,    \* keys with endpoint_pending
    backoff,    \* keys with CurTime < endpoint_retry_at
    failures,   \* endpoint_failures of the last 300 seconds, 2 for "several"
    cluster,    \* "none", "running", or "dead" once its thread has given up
    connected,  \* "yes" or "no": DiscordProtocol::connected
    name,       \* webhook_name
    own,        \* DiscordFilter::own_webhook_ids
    bridged,    \* DiscordFilter::bridged_channels
    jobs,       \* the mailbox
    rest,       \* requests in flight
    hooks,      \* Discord: every webhook ever created, by id
    live,       \* Discord: ids of the webhooks that still exist
    echoes,     \* Discord: webhooks with a message event still to be dispatched
    looped      \* history: webhooks whose own message was relayed back to IRC

bridgeVars  == <<chan, endpoint, pending, backoff, failures>>
linkVars    == <<cluster, connected, name>>
filterVars  == <<own, bridged>>
discordVars == <<hooks, live, echoes>>
vars == <<bridgeVars, linkVars, filterVars, jobs, rest, discordVars, looped>>

HookIds == 1..MaxHooks
Ops     == {"list", "create", "exec", "delete"}
States  == {"sent", "ok", "error"}
JobKinds == {"OnReady", "OnStopped", "CreateWebhook", "OnWebhookReady",
             "OnWebhookFailed", "OnWebhookSendFailed"}

Bridges == {k \in Keys : chan[k] # NoChan}

Init ==
    /\ chan = [k \in Keys |-> NoChan] /\ endpoint = [k \in Keys |-> 0]
    /\ pending = {} /\ backoff = {} /\ failures = [k \in Keys |-> 0]
    /\ cluster = "running" /\ connected = "no" /\ name \in Names
    /\ own = {} /\ bridged = {}
    /\ jobs = << >> /\ rest = {}
    /\ hooks = << >> /\ live = {} /\ echoes = {} /\ looped = {}

-----------------------------------------------------------------------------
(* Requests and jobs.                                                      *)

\* Equal requests for one bridge are told apart by their ticket.
Ticket(op, k) ==
    CHOOSE i \in 1..(Cardinality(rest) + 1) :
        \A q \in rest : q.op = op /\ q.key = k => q.ticket # i

Request(op, k, c, h, n) ==
    [op |-> op, key |-> k, chan |-> c, hook |-> h, name |-> n,
     state |-> "sent", ticket |-> Ticket(op, k)]

Job(kind, k, c, h) == [kind |-> kind, key |-> k, chan |-> c, hook |-> h]

\* Jobs that are not about one bridge.
Notice(kind) == Job(kind, CHOOSE k \in Keys : TRUE, NoChan, 0)

\* Whether a new input (a command, a message) fits the bounds.
Room == Cardinality(rest) < MaxRest /\ Len(jobs) < MaxJobs

-----------------------------------------------------------------------------
(* Plausible slips in the code, each caught by one of the properties.      *)

\* The answer is taken for whatever channel the bridge points at now.
PointsAt_Always(k, c) == k \in Bridges

\* A new webhook is not registered with the echo filter.
AddOwnWebhook_Forgotten(h) == own

\* A bridge with a backoff keeps its guard.
OnWebhookFailed_KeepsGuard(k) ==
    /\ backoff' = IF k \in Bridges THEN backoff \cup {k} ELSE backoff
    /\ UNCHANGED <<endpoint, pending, rest>>

\* A late failure is booked without looking the bridge up.
OnWebhookFailed_NoLookup(k) ==
    /\ pending' = pending \ {k} /\ backoff' = backoff \cup {k}
    /\ UNCHANGED <<endpoint, rest>>

\* A message that finds no webhook does not set one up.
Relay_NoSetup(k) ==
    /\ IF endpoint[k] # 0
       THEN rest' = rest \cup {Request("exec", k, chan[k], endpoint[k], name)}
       ELSE rest' = rest
    /\ UNCHANGED <<endpoint, pending, backoff>>

-----------------------------------------------------------------------------
(* The parts of the main thread's handlers.  They read the bridge's        *)
(* channel, the link and the name as the handler leaves them (primed).     *)

\* EnsureWebhook for the bridges S, from given values of the bridges'
\* fields and requests; a listing that DPP refuses is a failed setup.
EnsureWebhook(S, end, pend, back, reqs) ==
    LET start == {k \in S : /\ cluster' # "none" /\ connected' = "yes"
                            /\ chan'[k] # NoChan /\ end[k] = 0
                            /\ k \notin pend /\ k \notin back}
    IN  \E thrown \in IF "throw" \in Env THEN SUBSET start ELSE {{}} :
            /\ endpoint' = end
            /\ pending' = (pend \cup start) \ thrown
            /\ backoff' = back \cup thrown
            /\ rest' = reqs \cup
                 {Request("list", k, chan'[k], 0, name') : k \in start \ thrown}

\* The deletions OnBridgeRemoved may leave in flight for the bridges S.
DeleteWebhooks(S) ==
    LET all == {Request("delete", k, chan[k], endpoint[k], name) :
                    k \in {i \in S : endpoint[i] # 0}}
    IN  CASE cluster' = "none" \/ connected' = "no" -> {{}}
          [] OTHER -> IF "throw" \in Env THEN SUBSET all ELSE {all}

\* OnBridgesChanged: the filter is rebuilt and missing webhooks are set up.
OnBridgesChanged(end, pend, back, reqs) ==
    /\ bridged' = {chan'[k] : k \in Keys} \ {NoChan}
    /\ own' = {end[k] : k \in Keys} \ {0}
    /\ EnsureWebhook(Keys, end, pend, back, reqs)

\* Whether the bridge still points at the channel a setup was started for.
PointsAt(k, c) == k \in Bridges /\ chan[k] = c

AddOwnWebhook(h) == own \cup {h}

OnWebhookFailed(k) ==
    /\ pending' = pending \ {k}
    /\ backoff' = IF k \in Bridges THEN backoff \cup {k} ELSE backoff
    /\ UNCHANGED <<endpoint, rest>>

-----------------------------------------------------------------------------
(* Jobs, each on the bridge key k, the channel c it was started for and    *)
(* the webhook h it brings.                                                *)

CreateWebhook(k, c) ==
    /\ \/ /\ k \notin Bridges
          /\ UNCHANGED <<endpoint, pending, backoff, rest>>
       \/ /\ k \in Bridges /\ ~PointsAt(k, c)
          /\ EnsureWebhook({k}, endpoint, pending \ {k}, backoff, rest)
       \/ /\ PointsAt(k, c)
          /\ cluster = "none" \/ connected = "no" \/ "throw" \in Env
          /\ OnWebhookFailed(k)
       \/ /\ PointsAt(k, c)
          /\ cluster # "none" /\ connected = "yes"
          /\ rest' = rest \cup {Request("create", k, c, 0, name)}
          /\ UNCHANGED <<endpoint, pending, backoff>>
    /\ UNCHANGED <<failures, own>>

OnWebhookReady(k, c, h) ==
    /\ \/ /\ k \notin Bridges
          /\ UNCHANGED <<endpoint, pending, backoff, rest, own>>
       \/ /\ k \in Bridges /\ ~PointsAt(k, c)
          /\ EnsureWebhook({k}, endpoint, pending \ {k}, backoff, rest)
          /\ own' = own
       \/ /\ PointsAt(k, c)
          /\ endpoint' = [endpoint EXCEPT ![k] = h]
          /\ pending' = pending \ {k} /\ backoff' = backoff \ {k}
          /\ own' = AddOwnWebhook(h) /\ rest' = rest
    /\ failures' = failures

OnWebhookSendFailed(k) ==
    \/ /\ k \notin Bridges
       /\ UNCHANGED <<endpoint, pending, backoff, failures, rest, own>>
    \/ /\ k \in Bridges
       /\ failures' = [failures EXCEPT ![k] = IF @ = 0 THEN 1 ELSE 2]
       /\ own' = own \ {endpoint[k]}
       /\ EnsureWebhook({k}, [endpoint EXCEPT ![k] = 0], pending \ {k},
                        IF failures[k] > 0 THEN backoff \cup {k}
                                           ELSE backoff \ {k}, rest)

OnReady ==
    /\ EnsureWebhook(Keys, endpoint, pending, {}, rest)
    /\ UNCHANGED <<failures, own>>

RunJob ==
    /\ jobs # << >> /\ jobs' = Tail(jobs)
    /\ UNCHANGED <<chan, cluster, name, bridged, discordVars, looped>>
    /\ LET j == Head(jobs)
       IN  /\ connected' = CASE j.kind = "OnReady"   -> "yes"
                             [] j.kind = "OnStopped" -> "no"
                             [] OTHER                -> connected
           /\ \/ j.kind = "OnReady" /\ OnReady
              \/ /\ j.kind = "OnStopped"
                 /\ UNCHANGED <<endpoint, pending, backoff, failures, rest, own>>
              \/ j.kind = "CreateWebhook" /\ CreateWebhook(j.key, j.chan)
              \/ j.kind = "OnWebhookReady" /\ OnWebhookReady(j.key, j.chan, j.hook)
              \/ /\ j.kind = "OnWebhookFailed" /\ OnWebhookFailed(j.key)
                 /\ UNCHANGED <<failures, own>>
              \/ j.kind = "OnWebhookSendFailed" /\ OnWebhookSendFailed(j.key)

-----------------------------------------------------------------------------
(* Commands, configuration reloads and IRC messages on the main thread.    *)

Add(k, c) ==
    /\ "add" \in Env /\ Room
    /\ k \notin Bridges /\ \A i \in Keys : chan[i] # c
    /\ chan' = [chan EXCEPT ![k] = c]
    /\ UNCHANGED <<linkVars, failures>>
    /\ OnBridgesChanged(endpoint, pending, backoff, rest)
    /\ UNCHANGED <<jobs, discordVars, looped>>

Del(k) ==
    /\ "del" \in Env /\ Room
    /\ k \in Bridges
    /\ chan' = [chan EXCEPT ![k] = NoChan]
    /\ failures' = [failures EXCEPT ![k] = 0]
    /\ UNCHANGED linkVars
    /\ \E gone \in DeleteWebhooks({k}) :
          OnBridgesChanged([endpoint EXCEPT ![k] = 0], pending \ {k},
                           backoff \ {k}, rest \cup gone)
    /\ UNCHANGED <<jobs, discordVars, looped>>

\* A bridge that has no webhook yet keeps its guard and its backoff.
Set(k, c) ==
    /\ "set" \in Env /\ Room
    /\ k \in Bridges /\ c # chan[k] /\ \A i \in Keys : chan[i] # c
    /\ chan' = [chan EXCEPT ![k] = c]
    /\ UNCHANGED <<linkVars, failures>>
    /\ LET cleared == {k} \ {i \in Keys : endpoint[i] = 0}
       IN  \E gone \in DeleteWebhooks({k}) :
             OnBridgesChanged([endpoint EXCEPT ![k] = 0], pending \ cleared,
                              backoff \ cleared, rest \cup gone)
    /\ UNCHANGED <<jobs, discordVars, looped>>

\* Configure, then BridgesChanged.  t is what the reload does to the token.
\* A new connection drops the requests of the old one.
OnReload(n, t) ==
    LET restart == t # "same" \/ cluster = "none"
        renamed == /\ n # name /\ cluster' # "none" /\ connected' = "yes"
        retired == {k \in Keys : renamed /\ endpoint[k] # 0}
    IN  /\ Room
        /\ n # name => "rename" \in Env
        /\ "token" \in Env \/ (t = "same" /\ "rename" \in Env)
        /\ name' = n
        /\ cluster' = IF ~restart THEN cluster
                       ELSE IF t = "new" THEN "running" ELSE "none"
        /\ connected' = IF restart THEN "no" ELSE connected
        /\ UNCHANGED <<chan, failures>>
        /\ \E gone \in DeleteWebhooks(retired) :
              OnBridgesChanged(
                 [k \in Keys |-> IF k \in retired THEN 0 ELSE endpoint[k]],
                 IF restart /\ cluster' = "running" THEN {} ELSE pending \ retired,
                 backoff \ retired,
                 (IF restart THEN {} ELSE rest) \cup gone)
        /\ UNCHANGED <<jobs, discordVars, looped>>

\* What an IRC message asks of Discord; without a webhook the bot account
\* posts it and a webhook is set up for the next one.
Relay(k) ==
    \/ /\ endpoint[k] # 0
       /\ rest' = rest \cup {Request("exec", k, chan[k], endpoint[k], name)}
       /\ UNCHANGED <<endpoint, pending, backoff>>
    \/ /\ endpoint[k] = 0
       /\ EnsureWebhook({k}, endpoint, pending, backoff, rest)

Say(k) ==
    /\ "say" \in Env /\ Room
    /\ k \in Bridges
    /\ cluster # "none" /\ connected = "yes"
    /\ UNCHANGED <<chan, linkVars>>
    /\ Relay(k)
    /\ UNCHANGED <<failures, filterVars, jobs, discordVars, looped>>

\* Time goes by: 60 seconds since a backoff, 300 since a failure.
BackoffPasses(k) ==
    /\ k \in backoff /\ backoff' = backoff \ {k}
    /\ UNCHANGED <<chan, endpoint, pending, failures, linkVars, filterVars,
                   jobs, rest, discordVars, looped>>

WindowPasses(k) ==
    /\ failures[k] # 0 /\ failures' = [failures EXCEPT ![k] = 0]
    /\ UNCHANGED <<chan, endpoint, pending, backoff, linkVars, filterVars,
                   jobs, rest, discordVars, looped>>

-----------------------------------------------------------------------------
(* Discord, and the threads of DPP.                                        *)

mainVars == <<bridgeVars, connected, name, filterVars>>

GatewayReady ==
    /\ cluster = "running" /\ Len(jobs) < MaxJobs
    /\ jobs' = Append(jobs, Notice("OnReady"))
    /\ UNCHANGED <<mainVars, cluster, rest, discordVars, looped>>

GatewayStops ==
    /\ "stop" \in Env /\ cluster = "running" /\ Len(jobs) < MaxJobs
    /\ cluster' = "dead"
    /\ jobs' = Append(jobs, Notice("OnStopped"))
    /\ UNCHANGED <<mainVars, rest, discordVars, looped>>

\* The webhooks of a listing that the setup may adopt.
Matching(r) == {h \in live : hooks[h].chan = r.chan /\ hooks[h].name = r.name}

\* Discord performs a request.  Nothing is done with the answer to a
\* deletion or a delivered message beyond logging and linking it.
Perform(r) ==
    /\ r.state = "sent"
    /\ \/ /\ r.op = "list"
          /\ \E h \in Matching(r) \cup {0} :
                /\ h = 0 => Matching(r) = {}
                /\ rest' = (rest \ {r}) \cup {[r EXCEPT !.state = "ok", !.hook = h]}
          /\ UNCHANGED discordVars
       \/ /\ r.op = "create" /\ Len(hooks) < MaxHooks
          /\ hooks' = Append(hooks, [chan |-> r.chan, name |-> r.name])
          /\ live' = live \cup {Len(hooks) + 1}
          /\ rest' = (rest \ {r}) \cup
                        {[r EXCEPT !.state = "ok", !.hook = Len(hooks) + 1]}
          /\ echoes' = echoes
       \/ /\ \/ r.op \in {"list", "create"} /\ "error" \in Env
             \/ r.op = "create" /\ Len(hooks) = MaxHooks
             \/ r.op = "exec" /\ r.hook \notin live
          /\ rest' = (rest \ {r}) \cup {[r EXCEPT !.state = "error"]}
          /\ UNCHANGED discordVars
       \/ /\ r.op = "exec" /\ r.hook \in live
          /\ echoes' = IF "echo" \in Env THEN echoes \cup {r.hook} ELSE echoes
          /\ rest' = rest \ {r}
          /\ UNCHANGED <<hooks, live>>
       \/ /\ r.op = "delete"
          /\ live' = live \ {r.hook} /\ rest' = rest \ {r}
          /\ UNCHANGED <<hooks, echoes>>
       \/ /\ r.op \in {"exec", "delete"} /\ "error" \in Env
          /\ rest' = rest \ {r}
          /\ UNCHANGED discordVars
    /\ UNCHANGED <<mainVars, cluster, jobs, looped>>

\* The callback of a request: which job the answer becomes.
Answer(r) ==
    /\ r.state # "sent" /\ r.op # "delete"
    /\ rest' = rest \ {r}
    /\ jobs' = Append(jobs,
          IF r.op = "exec" THEN Job("OnWebhookSendFailed", r.key, NoChan, 0)
          ELSE IF r.state = "error" THEN Job("OnWebhookFailed", r.key, NoChan, 0)
          ELSE IF r.hook = 0 THEN Job("CreateWebhook", r.key, r.chan, 0)
          ELSE Job("OnWebhookReady", r.key, r.chan, r.hook))
    /\ UNCHANGED <<mainVars, cluster, discordVars, looped>>

AdminDeletes(h) ==
    /\ "admin" \in Env /\ Len(hooks) < MaxHooks
    /\ h \in live /\ live' = live \ {h}
    /\ UNCHANGED <<mainVars, cluster, rest, jobs, hooks, echoes, looped>>

\* Discord dispatches a message of webhook h, and HandleMessage filters it.
HandleMessage(h) ==
    /\ h \in echoes /\ echoes' = echoes \ {h}
    /\ looped' = IF hooks[h].chan \in bridged /\ h \notin own
                 THEN looped \cup {h} ELSE looped
    /\ UNCHANGED <<mainVars, cluster, rest, jobs, hooks, live>>

\* The mailbox is full of other events and drops its oldest job.
MailboxDrops ==
    /\ "overflow" \in Env /\ jobs # << >> /\ jobs' = Tail(jobs)
    /\ UNCHANGED <<mainVars, cluster, rest, discordVars, looped>>

-----------------------------------------------------------------------------
Next ==
    \/ \E k \in Keys, c \in Chans : Add(k, c) \/ Set(k, c)
    \/ \E k \in Keys : Del(k) \/ Say(k) \/ BackoffPasses(k) \/ WindowPasses(k)
    \/ \E n \in Names, t \in {"same", "new", "empty"} : OnReload(n, t)
    \/ RunJob \/ GatewayReady \/ GatewayStops \/ MailboxDrops
    \/ \E r \in rest : Perform(r) \/ Answer(r)
    \/ \E h \in live : AdminDeletes(h)
    \/ \E h \in echoes : HandleMessage(h)

Spec == Init /\ [][Next]_vars

\* Discord answers, DPP's threads and the main loop run, clocks advance.
Fairness ==
    /\ WF_vars(RunJob)
    /\ \A k \in Keys, o \in Ops :
          /\ WF_vars(\E r \in rest : r.key = k /\ r.op = o /\ Perform(r))
          /\ WF_vars(\E r \in rest : r.key = k /\ r.op = o /\ Answer(r))
    /\ \A k \in Keys : WF_vars(BackoffPasses(k))

FairSpec == Spec /\ Fairness

\* The gateway comes up and people on IRC go on talking.
BusySpec ==
    /\ FairSpec
    /\ WF_vars(connected = "no" /\ GatewayReady)
    /\ \A k \in Keys : SF_vars(Say(k))

-----------------------------------------------------------------------------
(* Properties.                                                             *)

IsRequest(r) ==
    /\ r.op \in Ops /\ r.key \in Keys /\ r.chan \in Chans
    /\ r.hook \in 0..MaxHooks /\ r.name \in Names /\ r.state \in States
JobType == [kind : JobKinds, key : Keys, chan : Chans \cup {NoChan},
            hook : 0..MaxHooks]

\* Every variable has its type; a key without a bridge has no webhook, no
\* guard and no backoff, whatever answers arrive after its removal.
TypeOK ==
    /\ chan \in [Keys -> Chans \cup {NoChan}]
    /\ endpoint \in [Keys -> 0..MaxHooks] /\ failures \in [Keys -> 0..2]
    /\ pending \subseteq Bridges /\ backoff \subseteq Bridges
    /\ \A k \in Keys \ Bridges : endpoint[k] = 0 /\ failures[k] = 0
    /\ cluster \in {"none", "running", "dead"} /\ connected \in {"yes", "no"}
    /\ name \in Names
    /\ own \subseteq HookIds /\ bridged \subseteq Chans
    /\ jobs \in Seq(JobType) /\ \A r \in rest : IsRequest(r)
    /\ hooks \in Seq([chan : Chans, name : Names]) /\ Len(hooks) <= MaxHooks
    /\ live \subseteq DOMAIN hooks /\ echoes \subseteq DOMAIN hooks
    /\ looped \subseteq DOMAIN hooks

\* No two bridges share a Discord channel (the checks of ADD and SET).
UniqueChans == \A i, k \in Bridges : chan[i] = chan[k] => i = k

Known(h, c) == h \in DOMAIN hooks /\ hooks[h].chan = c

\* Whatever brings a webhook to a bridge names the channel it belongs to.
Provenance ==
    /\ \A r \in rest : r.op \in {"list", "create"} /\ r.hook # 0
                       => Known(r.hook, r.chan)
    /\ \A i \in DOMAIN jobs : jobs[i].kind = "OnWebhookReady"
                       => jobs[i].hook # 0 /\ Known(jobs[i].hook, jobs[i].chan)

\* A bridge never posts through the webhook of another Discord channel,
\* although the answer that brings a webhook may be older than the channel
\* the bridge points at (the check of OnWebhookReady).
RightChannel ==
    \A k \in Keys : endpoint[k] # 0 => Known(endpoint[k], chan[k])

\* The echo filter knows every webhook a bridge posts through, although
\* handlers add, remove and rebuild its entries separately.
OwnFiltered == \A k \in Keys : endpoint[k] # 0 => endpoint[k] \in own

\* The inductive invariant.
IInv == TypeOK /\ UniqueChans /\ Provenance /\ RightChannel /\ OwnFiltered

\* The setup of a bridge's webhook: its requests and the jobs they become.
SettingUp(k) ==
    \/ \E r \in rest : r.key = k /\ r.op \in {"list", "create"}
    \/ \E i \in DOMAIN jobs : jobs[i].key = k /\ jobs[i].kind \in
          {"CreateWebhook", "OnWebhookReady", "OnWebhookFailed"}

\* The bridges that are guarded against a second setup while none is under way.
Orphans ==
    IF cluster = "none" THEN {} ELSE {k \in pending : ~SettingUp(k)}

\* A guarded bridge has a setup under way that will release it, unless the
\* mailbox lost a job of it: no path of a setup that fails, throws, is answered
\* late or survives its connection forgets to release the guard.
PendingHasCause == [][Orphans' \subseteq Orphans \/ MailboxDrops]_vars

\* The guard of a setup is released in the end ("rather than leaving the
\* bridge pending forever", CreateWebhook), unless the bridge is repointed
\* or there is no connection any more.
PendingEnds ==
    \A k \in Keys, c \in Chans :
        (k \in pending /\ chan[k] = c) ~>
            (k \notin pending \/ chan[k] # c \/ cluster = "none")

\* A bridge whose webhook was deleted on Discord gets a working one again
\* if people go on talking (OnWebhookSendFailed, Relay).
Heals == \A k \in Keys : k \in Bridges ~> endpoint[k] \in live

\* "Reuse the webhook from a previous run rather than creating a new one on
\* every load, which would litter the channel with dead webhooks": there
\* is one webhook per channel and name.
NoLitter ==
    \A h, i \in live : hooks[h] = hooks[i] => h = i

\* "Messages which this module sent itself must not come back."
NoEcho == looped = {}

\* OnWebhookSendFailed gives a webhook up because it "was deleted on the
\* Discord side or its token was revoked", and for no other reason.
DropsOnlyDead ==
    [][\A k \in Keys : jobs # << >> /\ jobs' = Tail(jobs)
                       /\ endpoint[k] # 0 /\ endpoint'[k] = 0
                       => endpoint[k] \notin live]_vars

\* "Existing webhooks carry the old name; they are replaced so that the
\* name is what the operator configured everywhere" (Configure).
NameEverywhere ==
    \A n \in Names : name = n ~>
        (name # n \/ \A k \in Keys : endpoint[k] # 0 => hooks[endpoint[k]].name = n)
=============================================================================
