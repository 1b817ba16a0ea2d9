-------------------------------- MODULE Relay --------------------------------
(***************************************************************************)
(* What BridgeServ remembers about the messages of one bridge: the token   *)
(* bucket that limits what Discord puts on IRC, the History that decides   *)
(* whether an edit or a deletion is worth a line, and the Links between an *)
(* IRC line and the message Discord made of it (relay.h, RelayToIrc and    *)
(* its relatives in bridgeserv.cpp).                                       *)
(*                                                                         *)
(* A message is its id, the hash of its text and its number of lines; how  *)
(* text is rendered and split is left out.  A message that came from       *)
(* Discord is a member of Ids, one that Discord made of an IRC line is the *)
(* number of its post.  Every handler is one step on the main thread; the  *)
(* answer to a post is a job that comes later, or never.                   *)
(***************************************************************************)
EXTENDS Naturals, Sequences, FiniteSets, SequencesExt

CONSTANTS Ids,          \* messages that are written on Discord
          Lines,        \* msgids of lines that are written on IRC
          Hashes,       \* what a message can say
          None,
          HistoryCap,   \* History::capacity
          LinksCap,     \* Links::capacity
          Burst,        \* flood_lines
          Secs,         \* flood_secs
          MaxLines,     \* bound: IRC lines of one message
          MaxNow,       \* bound: the clock
          MaxForward,   \* bound: seconds the clock advances in all
          MaxDropped,   \* bound: lines refused in all
          MaxPosts,     \* bound: posts to Discord
          Env           \* what happens, a subset of EnvKinds

EnvKinds == {"message", "edit", "delete", "react", "line", "uplink", "clock"}

ASSUME RelayAssumption ==
    /\ Env \subseteq EnvKinds
    /\ HistoryCap \in Nat \ {0} /\ LinksCap \in Nat \ {0}
    /\ Burst \in Nat /\ Secs \in Nat \ {0}
    /\ {MaxLines, MaxDropped, MaxForward, MaxPosts} \subseteq Nat
    /\ MaxNow \in Nat \ {0}
    /\ None \notin Hashes \cup Ids \cup Lines \cup Nat

VARIABLES
    now, tokens, refilled_at,   \* the clock and the TokenBucket
    dropped, reported, refused, \* dropped; history: told to IRC, refused in all
    muted,                      \* history: in a notice that had no connection to go to
    sent, forward,              \* history: tokens taken, seconds gone by
    entries, order,             \* History
    by_irc, by_remote, lorder,  \* Links
    inflight, posts,            \* posts Discord has not answered; their number
    uplink, shown,              \* IRC: "up" or "down"; what it last saw
    unsent                      \* history: messages last written while it was down

bucket == <<tokens, refilled_at, dropped, reported, refused, muted, sent>>
clock == <<now, forward>>
history == <<entries, order>>
links == <<by_irc, by_remote, lorder>>
discord == <<inflight, posts>>
irc == <<uplink, shown, unsent>>
vars == <<bucket, clock, history, links, discord, irc>>

Remotes == Ids \cup 1..MaxPosts

Init ==
    /\ now = 1 /\ forward = 0 /\ tokens = 0 /\ refilled_at = 0
    /\ dropped = 0 /\ reported = 0 /\ refused = 0 /\ muted = 0 /\ sent = 0
    /\ entries = [m \in Ids |-> None] /\ order = << >>
    /\ by_irc = [l \in Lines |-> None] /\ by_remote = [r \in Remotes |-> None]
    /\ lorder = << >>
    /\ inflight = {} /\ posts = 0
    /\ uplink = "up" /\ shown = [m \in Ids |-> None] /\ unsent = {}

Least(a, b) == IF a <= b THEN a ELSE b

-----------------------------------------------------------------------------
(* Plausible slips in the code.                                            *)

\* A clock that went back leaves a fresh, full bucket.
Refill_Resets ==
    IF refilled_at = 0 \/ now < refilled_at THEN [tokens |-> Burst, at |-> now]
    ELSE LET n == (now - refilled_at) \div Secs
         IN  [tokens |-> Least(Burst, tokens + n), at |-> refilled_at + n * Secs]

\* A message that is remembered again is queued for eviction a second time.
HistoryRemember_Twice(m, h) ==
    LET o == Append(order, m)
        gone == IF Len(o) > HistoryCap THEN {o[1]} ELSE {}
    IN  /\ order' = IF gone = {} THEN o ELSE Tail(o)
        /\ entries' = [i \in Ids |-> IF i = m THEN h
                                     ELSE IF i \in gone THEN None ELSE entries[i]]

\* Nothing is evicted.
HistoryRemember_NoLimit(m, h) ==
    /\ entries' = [entries EXCEPT ![m] = h]
    /\ order' = IF entries[m] = None THEN Append(order, m) ELSE order

\* The other half of an evicted link is kept.
Drop_Half(f, g, l) == [irc |-> [f EXCEPT ![l] = None], remote |-> g]

-----------------------------------------------------------------------------
(* The token bucket.                                                       *)

\* The bucket as the first Take of a handler finds it.
Refill ==
    LET t == IF refilled_at = 0 THEN Burst
             ELSE IF now < refilled_at THEN Least(tokens, Burst) ELSE tokens
        a == IF refilled_at = 0 \/ now < refilled_at THEN now ELSE refilled_at
        n == (now - a) \div Secs
    IN  [tokens |-> IF n = 0 THEN t ELSE Least(Burst, t + n), at |-> a + n * Secs]

\* How many of n lines Take lets through.
Through(n) == IF Burst = 0 THEN n ELSE Least(n, Refill.tokens)

\* The refused lines that are still counted once n lines have got through: the
\* service client bi, if there is one, writes the notice before the first of them.
Untold(n, bi) == IF n > 0 /\ bi THEN 0 ELSE dropped

\* Take for each of n lines, or for a reaction.
Take(n, untold) ==
    LET k == Through(n)
    IN  /\ refused + (n - k) <= MaxDropped
        /\ refused' = refused + (n - k)
        /\ dropped' = untold + (n - k)
        /\ IF Burst = 0 THEN UNCHANGED <<tokens, refilled_at, sent>>
           ELSE /\ tokens' = Refill.tokens - k /\ refilled_at' = Refill.at
                /\ sent' = sent + k

-----------------------------------------------------------------------------
(* History.  Entries and the order they were first remembered in.          *)

HistoryRemember(m, h) ==
    IF entries[m] # None
    THEN entries' = [entries EXCEPT ![m] = h] /\ order' = order
    ELSE LET o == Append(order, m)
         IN  IF Len(o) > HistoryCap
             THEN /\ entries' = [[entries EXCEPT ![m] = h] EXCEPT ![Head(o)] = None]
                  /\ order' = Tail(o)
             ELSE entries' = [entries EXCEPT ![m] = h] /\ order' = o

HistoryForget(m) ==
    /\ entries' = [entries EXCEPT ![m] = None]
    /\ order' = RemoveFirst(order, m)

-----------------------------------------------------------------------------
(* Links, in both directions.                                              *)

Drop(f, g, l) ==
    IF f[l] = None THEN [irc |-> f, remote |-> g]
    ELSE [irc |-> [f EXCEPT ![l] = None], remote |-> [g EXCEPT ![f[l]] = None]]

LinksRemember(l, r) ==
    LET a == Drop(by_irc, by_remote, l)
        f == [a.irc EXCEPT ![l] = r]
        g == [a.remote EXCEPT ![r] = l]
        o == IF by_irc[l] # None THEN lorder ELSE Append(lorder, l)
        b == Drop(f, g, Head(o))
    IN  IF Len(o) > LinksCap
        THEN by_irc' = b.irc /\ by_remote' = b.remote /\ lorder' = Tail(o)
        ELSE by_irc' = f /\ by_remote' = g /\ lorder' = o

\* A msgid is one that IRC made, or one that carries Discord's id.
Irc(l) == <<"irc", l>>
Dc(r)  == <<"dc", r>>

IrcIdFor(r) ==
    IF by_remote[r] # None /\ by_irc[by_remote[r]] # None
    THEN Irc(by_remote[r]) ELSE Dc(r)

RemoteIdFor(id) == IF id[1] = "dc" THEN id[2] ELSE by_irc[id[2]]

-----------------------------------------------------------------------------
(* Handlers.                                                               *)

\* Uplink::Send for n lines of a message: without a connection they are lost.
Uplink(m, h, n) ==
    /\ shown' = IF n > 0 /\ uplink = "up" THEN [shown EXCEPT ![m] = h] ELSE shown
    /\ unsent' = IF n = 0 THEN unsent
                 ELSE IF uplink = "up" THEN unsent \ {m} ELSE unsent \cup {m}

\* RelayToIrc remembers a message of which n lines were written.
Reached(n) == n > 0

\* The notice of the refused lines, which like any other line is lost without a
\* connection; RelayToIrc does not find out and clears the count all the same.
Notice(n, bi) ==
    LET told == IF n > 0 /\ bi THEN dropped ELSE 0
    IN  /\ reported' = IF uplink = "up" THEN reported + told ELSE reported
        /\ muted' = IF uplink = "up" THEN muted ELSE muted + told

\* The common end of RelayToIrc for a message and for an edit.
Write(m, h, n, bi) ==
    /\ Take(n, Untold(Through(n), bi))
    /\ Notice(Through(n), bi)
    /\ IF Reached(Through(n)) THEN HistoryRemember(m, h) ELSE UNCHANGED history
    /\ Uplink(m, h, Through(n))
    /\ UNCHANGED <<clock, links, discord, uplink>>

Message(m, h, n, bi) ==
    /\ "message" \in Env /\ entries[m] = None /\ shown[m] = None
    /\ Write(m, h, n, bi)

Edit(m, h, n, bi) ==
    /\ "edit" \in Env /\ entries[m] # None /\ entries[m] # h
    /\ Write(m, h, n, bi)

RelayDelete(m) ==
    /\ "delete" \in Env /\ entries[m] # None
    /\ HistoryForget(m)
    /\ UNCHANGED <<bucket, clock, links, discord, irc>>

\* RelayReaction, and a reaction on IRC to a message that crossed the bridge.
Reaction ==
    /\ "react" \in Env
    /\ Take(1, dropped)
    /\ UNCHANGED <<reported, muted, clock, history, links, discord, irc>>

\* A line from IRC is posted; Discord numbers the posts.
RelayLine(l) ==
    /\ "line" \in Env /\ posts < MaxPosts
    /\ posts' = posts + 1 /\ inflight' = inflight \cup {<<l, posts + 1>>}
    /\ UNCHANGED <<bucket, clock, history, links, irc>>

\* Discord answers with the id, in any order, and the job gets through.
RememberLink(p) ==
    /\ p \in inflight /\ inflight' = inflight \ {p}
    /\ LinksRemember(p[1], p[2])
    /\ UNCHANGED <<bucket, clock, history, posts, irc>>

\* The post fails, or the mailbox drops the job.
PostFails(p) ==
    /\ p \in inflight /\ inflight' = inflight \ {p}
    /\ UNCHANGED <<bucket, clock, history, links, posts, irc>>

\* The clock moves on, or is set back.
Tick(t) ==
    /\ "clock" \in Env /\ now' = t /\ t # now
    /\ forward' = forward + (IF t > now THEN t - now ELSE 0)
    /\ forward' <= MaxForward
    /\ UNCHANGED <<bucket, history, links, discord, irc>>

UplinkChanges ==
    /\ "uplink" \in Env
    /\ uplink' = IF uplink = "up" THEN "down" ELSE "up"
    /\ UNCHANGED <<bucket, clock, history, links, discord, shown, unsent>>

Next ==
    \/ \E m \in Ids, h \in Hashes, n \in 1..MaxLines, bi \in BOOLEAN :
          Message(m, h, n, bi) \/ Edit(m, h, n, bi)
    \/ \E m \in Ids : RelayDelete(m)
    \/ Reaction
    \/ \E l \in Lines : RelayLine(l)
    \/ \E p \in inflight : RememberLink(p) \/ PostFails(p)
    \/ \E t \in 1..MaxNow : Tick(t)
    \/ UplinkChanges

Spec == Init /\ [][Next]_vars

-----------------------------------------------------------------------------
(* Properties.                                                             *)

\* Every variable has its type; the bucket never holds more than it may
\* (Take), and neither memory outgrows its capacity.
TypeOK ==
    /\ tokens \in 0..Burst /\ refilled_at \in 0..MaxNow /\ now \in 1..MaxNow
    /\ dropped \in 0..MaxDropped /\ reported \in Nat /\ refused \in 0..MaxDropped
    /\ muted \in Nat /\ sent \in Nat /\ forward \in 0..MaxForward
    /\ entries \in [Ids -> Hashes \cup {None}] /\ order \in BoundedSeq(Ids, HistoryCap)
    /\ by_irc \in [Lines -> 1..MaxPosts \cup {None}]
    /\ by_remote \in [Remotes -> Lines \cup {None}]
    /\ lorder \in BoundedSeq(Lines, LinksCap)
    /\ inflight \subseteq Lines \X (1..MaxPosts) /\ posts \in 0..MaxPosts
    /\ uplink \in {"up", "down"} /\ shown \in [Ids -> Hashes \cup {None}]
    /\ unsent \subseteq Ids

\* The eviction queue of History names each remembered message once and
\* nothing else, through edits, deletions and evictions; otherwise a message
\* is evicted too early or never.  What is remembered of a message is what IRC
\* last saw of it, so that an edit is suppressed as unchanged only if IRC shows
\* it already, and a deletion quotes what was seen ("Only a message which
\* reached the channel is remembered").  The exception is what was written
\* while there was no uplink: Uplink::Send drops it and RelayToIrc does not
\* find out.
HistoryExact ==
    /\ IsInjective(order)
    /\ ToSet(order) = {m \in Ids : entries[m] # None}
    /\ \A m \in ToSet(order) \ unsent : shown[m] = entries[m]

\* The two maps of Links are each other's inverse and the eviction queue
\* names each link once, whatever order answers come in and however often a
\* line is posted.  A reply or reaction never lands on another message than it
\* was made on: what Discord's id maps to on IRC maps back to that id, and what
\* an IRC msgid maps to on Discord maps back to that msgid.
LinksExact ==
    /\ IsInjective(lorder)
    /\ ToSet(lorder) = {l \in Lines : by_irc[l] # None}
    /\ \A l \in Lines, r \in 1..MaxPosts : by_irc[l] = r <=> by_remote[r] = l
    /\ \A r \in Remotes : RemoteIdFor(IrcIdFor(r)) = r
    /\ \A l \in Lines : by_irc[l] # None => IrcIdFor(RemoteIdFor(Irc(l))) = Irc(l)

\* "A bucket starts full, after which one more line is allowed every
\* interval seconds": no more gets through than that, also when the clock is
\* set back and forth.  Every line that was refused has been told to IRC or is
\* still counted, except those whose notice was written while there was no
\* uplink: Uplink::Send discards it and RelayToIrc clears the count.
FloodBound ==
    /\ Burst > 0 => sent <= Burst + forward \div Secs
    /\ refused = reported + muted + dropped

\* "a single notice reports how many were dropped" (bridgeserv.example.conf)
\* without the exception.  It does not hold if the uplink is ever down.
DropsTold == refused = reported + dropped

=============================================================================
