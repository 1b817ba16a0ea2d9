------------------------------- MODULE Roster -------------------------------
(***************************************************************************)
(* The pseudo clients of BridgeServ (modules/bridgeserv/bridgeserv.cpp):   *)
(* one IRC client for every member of a bridged Discord space, behind a    *)
(* link that services itself introduces, with reserved nicknames.          *)
(*                                                                         *)
(* Services' own records and what the IRC network has been told are kept   *)
(* apart, because the uplink comes and goes and because a user who quits   *)
(* stays in services' user list until the next line from the uplink        *)
(* (User::Quit, User::QuitUsers).  Everything here runs on the main        *)
(* thread, so a handler is one step; handlers call each other, so they are *)
(* written as functions on w, the world a handler works on.                *)
(*                                                                         *)
(* One space is modelled, so a bridge is grouped by its nickname suffix.   *)
(* A nickname is the display name, the suffix and which alternative of     *)
(* MakeNick it is: 0 as it stands, 1 with the network's name, more counted.*)
(* Discord is connected throughout; Webhook is about the connection.       *)
(***************************************************************************)
EXTENDS Naturals, Sequences, FiniteSets, SequencesExt

CONSTANTS Keys,      \* IRC channels that may be bridged
          Groups,    \* nickname suffixes
          Members,   \* Discord users
          Displays,  \* display names
          None,      \* no group, no client, not a member
          MaxTag,    \* the last alternative MakeNick tries
          MaxQuits,  \* bound: users who may have quit between two lines
          Env        \* what happens, a subset of EnvKinds

EnvKinds == {"add", "del", "set", "join", "leave", "presence", "speak", "reap",
             "kill", "stranger", "uplink", "burst", "squit", "domain"}

ASSUME EnvAssumption == Env \subseteq EnvKinds
ASSUME TagAssumption == MaxTag \in Nat /\ MaxQuits \in Nat
\* The code walks std::map and std::set containers of all of them.
ASSUME FiniteAssumption == IsFiniteSet(Keys) /\ IsFiniteSet(Groups) /\ IsFiniteSet(Members)

VARIABLE w

Slots == Groups \X Members
Nicks == Displays \X Groups \X (0..MaxTag)

\* The empty string is not one of them.
ASSUME NoneAssumption == None \notin Groups \cup Displays \cup Nicks

Init ==
    w = [group    |-> [k \in Keys |-> None],    \* Bridge, by irc_channel
         reserved |-> [k \in Keys |-> {}],      \* Bridge::reserved
         nick     |-> [s \in Slots |-> None],   \* BridgeClient::user, its nick
         shown    |-> [s \in Slots |-> None],   \* BridgeClient::display
         chans    |-> [s \in Slots |-> {}],     \* BridgeClient::chans
         away     |-> {},                       \* BridgeClient::away
         link     |-> "none",                   \* the entry in links
         quitting |-> {},                       \* quitting_users, <<nick, channels>>
         uplink   |-> "synced",                 \* down, linking, burst, synced
         roster   |-> [m \in Members |-> None], \* DPP's cache of the space
         absent   |-> {},                       \* members who are idle on Discord
         net      |-> {},                       \* IRC: nicks of our clients
         netChans |-> {},                       \* IRC: <<nick, channel>>
         netAway  |-> {},                       \* IRC: nicks that are away
         qlines   |-> {},                       \* IRC: reserved nicks
         others   |-> {},                       \* IRC: nicks other people hold
         early    |-> "no"]   \* history: did anything go out while linking

-----------------------------------------------------------------------------
(* Helpers.                                                                *)

Bridged(x) == {k \in Keys : x.group[k] # None}
Synced(x) == x.uplink = "synced"

\* Uplink::Send: y is x with the effect the message has on the network.
Send(x, y) ==
    IF x.uplink = "down" THEN x
    ELSE IF x.uplink = "linking" THEN [x EXCEPT !.early = "yes"]
    ELSE y

\* Every nickname in services' user list.
Held(x) == ({x.nick[s] : s \in Slots} \ {None}) \cup {q[1] : q \in x.quitting} \cup x.others

-----------------------------------------------------------------------------
(* Plausible slips in the code, each caught by one of the properties.      *)

\* A client is renamed in services' records only.
Renamed_NotSent(x, s, n) == [x EXCEPT !.nick[s] = n]

\* Nobody asks whether the nickname is free.
MakeNick_NoLookup(x, d, g, self) == <<d, g, 0>>

\* The roster is not sent again once the uplink is ready.
OnUplinkSync_NoRefresh(x) ==
    {[x EXCEPT !.uplink = "synced",
               !.qlines = @ \cup UNION {x.reserved[k] : k \in Bridged(x)}]}

\* A client is retired in services' records only.
RemoveClient_Silent(x, s) ==
    IF x.nick[s] = None THEN x
    ELSE [x EXCEPT !.nick[s] = None, !.shown[s] = None, !.chans[s] = {}, !.away = @ \ {s}]

\* The check for an exhausted set of alternatives is missing.
EnsureClient_Unchecked(x, k, m, d) ==
    LET s    == <<x.group[k], m>>
        free == {t \in 0..MaxTag : <<d, x.group[k], t>> \notin Held(x)}
        n    == IF free = {} THEN None
                ELSE <<d, x.group[k], CHOOSE t \in free : \A u \in free : t <= u>>
    IN  IF x.nick[s] # None THEN x
        ELSE [x EXCEPT !.reserved[k] = @ \cup {n}, !.nick[s] = n, !.shown[s] = d]

-----------------------------------------------------------------------------
(* Clients.                                                                *)

\* The first alternative that nobody, or only the client itself, holds.
MakeNick(x, d, g, self) ==
    LET free == {t \in 0..MaxTag : <<d, g, t>> \notin Held(x) \ {self}}
    IN  IF free = {} THEN None
        ELSE <<d, g, CHOOSE t \in free : \A u \in free : t <= u>>

ReserveNick(x, k, n) ==
    [x EXCEPT !.reserved[k] = @ \cup {n},
              !.qlines = IF Synced(x) THEN @ \cup {n} ELSE @]

\* SendNickChange and ChangeNick.
Renamed(x, s, n) ==
    LET old == x.nick[s]
        y   == [x EXCEPT !.nick[s] = n]
    IN  Send(y, [y EXCEPT !.net = (@ \ {old}) \cup {n},
                          !.netChans = {<<IF p[1] = old THEN n ELSE p[1], p[2]>> : p \in @},
                          !.netAway = {IF p = old THEN n ELSE p : p \in @}])

\* The client of member m for bridge k, introduced, renamed or as it is.
\* Without a client the result is x itself or x with a new link.
EnsureClient(x, k, m, d) ==
    LET s == <<x.group[k], m>>
        n == MakeNick(x, d, x.group[k], x.nick[s])
        y == [x EXCEPT !.link = "up"]
        r == ReserveNick(y, k, n)
        z == [r EXCEPT !.nick[s] = n, !.shown[s] = d]
    IN  IF x.nick[s] # None
        THEN IF x.shown[s] = d THEN x
             ELSE IF n \in {None, x.nick[s]} THEN [x EXCEPT !.shown[s] = d]
             ELSE [Renamed(ReserveNick(x, k, n), s, n) EXCEPT !.shown[s] = d]
        ELSE IF x.link = "none" /\ ~Synced(x) THEN x
             ELSE IF n = None THEN y
             ELSE Send(z, [z EXCEPT !.net = @ \cup {n}])

EnsureJoin(x, s, k) ==
    IF x.nick[s] = None \/ k \in x.chans[s] THEN x
    ELSE LET y == [x EXCEPT !.chans[s] = @ \cup {k}]
         IN  Send(y, [y EXCEPT !.netChans = @ \cup {<<x.nick[s], k>>}])

SetClientAway(x, s, a) ==
    LET n == x.nick[s]
        y == [x EXCEPT !.away = IF a THEN @ \cup {s} ELSE @ \ {s}]
    IN  IF n = None \/ (s \in x.away) = a THEN x
        ELSE IF ~Synced(x) THEN y
        ELSE [y EXCEPT !.netAway = IF a THEN @ \cup {n} ELSE @ \ {n}]

PartClient(x, s, k) ==
    LET y == [x EXCEPT !.chans[s] = @ \ {k}]
    IN  IF k \notin x.chans[s] THEN x
        ELSE Send(y, [y EXCEPT !.netChans = @ \ {<<x.nick[s], k>>}])

\* The network forgets a client.
Gone(x, n) == [x EXCEPT !.net = @ \ {n}, !.netAway = @ \ {n},
                        !.netChans = {p \in @ : p[1] # n}]

\* User::Quit and OnUserQuit: the record goes, the nickname lingers.
Quit(x, s) ==
    [x EXCEPT !.nick[s] = None, !.shown[s] = None, !.chans[s] = {},
              !.away = @ \ {s}, !.quitting = @ \cup {<<x.nick[s], x.chans[s]>>}]

\* One who quits when the network has quit him already.
Killed(x, s) == Gone(Quit(x, s), x.nick[s])

RemoveClient(x, s) ==
    IF x.nick[s] = None THEN x ELSE IF Synced(x) THEN Killed(x, s) ELSE Quit(x, s)

-----------------------------------------------------------------------------
(* Bridges.  Handlers that walk the roster do so in the order of the       *)
(* bridges and of Discord's member map, which is any order.                *)

\* SyncRoster for one member of the space in channel k.
SyncMember(x, k, m) ==
    LET s == <<x.group[k], m>>
        y == EnsureClient(x, k, m, x.roster[m])
    IN  SetClientAway(EnsureJoin(y, s, k), s, m \in x.absent)

SyncChannel(x, k, mo) == FoldLeft(LAMBDA y, m : SyncMember(y, k, m), x, mo)
SyncChannels(x, ko, mo) == FoldLeft(LAMBDA y, k : SyncChannel(y, k, mo), x, ko)

SyncRoster(x, ms) ==
    IF ~Synced(x) THEN {x}
    ELSE {SyncChannels(x, ko, mo) :
             ko \in SetToSeqs(Bridged(x)),
             mo \in SetToSeqs({m \in ms : x.roster[m] # None})}

\* OnBridgesChanged and RefreshRoster, from DPP's cache of the space.
RefreshRoster(x) == SyncRoster(x, Members)

\* Apply op to every slot in S, one after the other.
ForEach(x, S, op(_, _)) == FoldLeft(op, x, SetToSeq(S))

RemoveMember(x, m) ==
    ForEach(x, {<<x.group[k], m>> : k \in Bridged(x)}, RemoveClient)

SetPresence(x, m, a) ==
    ForEach(x, {<<x.group[k], m>> : k \in Bridged(x)},
            LAMBDA y, s : SetClientAway(y, s, a))

ReleaseNicks(x, k) ==
    [x EXCEPT !.qlines = {n \in @ : n \notin x.reserved[k]
                                    \/ \E o \in Bridged(x) \ {k} : n \in x.reserved[o]}]

PruneClient(x, s, ks) == ForEach(x, ks, LAMBDA y, k : PartClient(y, s, k))
PruneChannels(x) ==
    ForEach(x, Slots, LAMBDA y, s : PruneClient(y, s, x.chans[s] \ Bridged(x)))

RetireClient(x, s, k) ==
    LET y == PartClient(x, s, k)
    IN  IF y.chans[s] = {} THEN RemoveClient(y, s) ELSE y
RetireClients(x, k) ==
    ForEach(x, {s \in Slots : k \in x.chans[s]}, LAMBDA y, s : RetireClient(y, s, k))

RemoveAllClients(x) ==
    [ForEach(x, {s \in Slots : x.nick[s] # None}, RemoveClient) EXCEPT !.link = "none"]

OnUplinkSync(x) ==
    RefreshRoster([x EXCEPT !.uplink = "synced",
                            !.qlines = @ \cup UNION {x.reserved[k] : k \in Bridged(x)}])

-----------------------------------------------------------------------------
(* Steps that process a line from the uplink.  User::QuitUsers follows.    *)

QuitUsers(x) == [x EXCEPT !.quitting = {}]

\* Some result of a handler, after the line it belongs to.
Line(results) == \E x \in results : w' = QuitUsers(x)

Add(k, g) ==
    /\ "add" \in Env /\ Synced(w) /\ w.group[k] = None
    /\ Line(RefreshRoster([w EXCEPT !.group[k] = g]))

Del(k) ==
    /\ "del" \in Env /\ Synced(w) /\ w.group[k] # None
    /\ LET x == [ReleaseNicks(w, k) EXCEPT !.group[k] = None, !.reserved[k] = {}]
       IN  Line({PruneChannels(y) : y \in RefreshRoster(x)})

\* The suffix may stay the same, as when only the Discord channel changes.
Set(k, g) ==
    /\ "set" \in Env /\ Synced(w) /\ w.group[k] # None
    /\ Line(RefreshRoster(RetireClients([w EXCEPT !.group[k] = g], k)))

Kill(s) ==
    /\ "kill" \in Env /\ Synced(w) /\ w.nick[s] # None
    /\ Line({Killed(w, s)})

\* An operator splits the link off: OnServerQuit.
LinkSquit ==
    /\ "squit" \in Env /\ Synced(w) /\ w.link = "up"
    /\ Line({[ForEach(w, {s \in Slots : w.nick[s] # None}, Killed) EXCEPT !.link = "none"]})

StrangerTakes(n) ==
    /\ "stranger" \in Env /\ Synced(w) /\ w.others = {}
    /\ n \notin w.qlines \cup w.net
    /\ Line({[w EXCEPT !.others = {n}]})

StrangerLeaves ==
    /\ Synced(w) /\ w.others # {}
    /\ Line({[w EXCEPT !.others = {}]})

\* Any other line, a PING for instance.
OtherLine == w.uplink # "down" /\ w.quitting # {} /\ Line({w})

\* Connected, and the first line of the negotiation has been read.
UplinkConnects ==
    /\ w.uplink = "down"
    /\ Line({[w EXCEPT !.uplink = "linking"]})

\* The Server constructor introduces every user in services' list.
UplinkBurst ==
    /\ w.uplink = "linking"
    /\ LET ours == {<<w.nick[s], w.chans[s]>> : s \in {t \in Slots : w.nick[t] # None}}
                   \cup w.quitting
       IN  Line({[w EXCEPT !.uplink = "burst",
                           !.net = {p[1] : p \in ours},
                           !.netChans = UNION {{p[1]} \X p[2] : p \in ours}]})

EndBurst == w.uplink = "burst" /\ Line(OnUplinkSync(w))

-----------------------------------------------------------------------------
(* Steps of the mailbox, of timers and of the network itself.              *)

\* Whether jobs and timers are let in while the link is being set up.
Quiet == w.uplink \in {"down", "synced"} \/ "burst" \in Env

MayQuit == Cardinality(w.quitting) < MaxQuits

\* A member joins, or changes the display name.
MemberIs(m, d) ==
    /\ "join" \in Env /\ Quiet /\ w.roster[m] # d
    /\ w' \in SyncRoster([w EXCEPT !.roster[m] = d], {m})

MemberLeaves(m) ==
    /\ "leave" \in Env /\ Quiet /\ MayQuit /\ w.roster[m] # None
    /\ w' = RemoveMember([w EXCEPT !.roster[m] = None], m)

Presence(m) ==
    /\ "presence" \in Env /\ Quiet /\ w.roster[m] # None
    /\ LET a == m \notin w.absent
       IN  w' = SetPresence([w EXCEPT !.absent = IF a THEN @ \cup {m} ELSE @ \ {m}], m, a)

\* RelayToIrc, for a message of somebody with display name d.
Speak(k, m, d) ==
    /\ "speak" \in Env /\ Quiet /\ w.group[k] # None /\ w.roster[m] \in {None, d}
    /\ w' = EnsureJoin(EnsureClient(w, k, m, d), <<w.group[k], m>>, k)

ReapIdleUsers(idle) ==
    /\ "reap" \in Env /\ Quiet /\ MayQuit
    /\ idle # {} /\ \A s \in idle : w.nick[s] # None
    /\ w' = ForEach(w, idle, RemoveClient)

\* OnReload with a new domain.
DomainChanged ==
    /\ "domain" \in Env /\ Quiet /\ MayQuit /\ w.link = "up"
    /\ w' \in RefreshRoster(RemoveAllClients(w))

\* The network drops what was behind services; it may lose its nick bans.
\* The users of the network are quit with the uplink.
UplinkLost ==
    /\ "uplink" \in Env /\ w.uplink # "down"
    /\ \E q \in {w.qlines, {}} :
          w' = [w EXCEPT !.uplink = "down", !.net = {}, !.netChans = {}, !.netAway = {},
                         !.qlines = q, !.others = {},
                         !.quitting = @ \cup {<<n, {}>> : n \in w.others}]

Next ==
    \/ \E k \in Keys, g \in Groups : Add(k, g) \/ Set(k, g)
    \/ \E k \in Keys : Del(k)
    \/ \E s \in Slots : Kill(s)
    \/ LinkSquit
    \/ \E n \in Nicks : StrangerTakes(n)
    \/ StrangerLeaves
    \/ OtherLine
    \/ UplinkConnects
    \/ UplinkBurst
    \/ EndBurst
    \/ \E m \in Members, d \in Displays : MemberIs(m, d)
    \/ \E m \in Members : MemberLeaves(m) \/ Presence(m)
    \/ \E k \in Keys, m \in Members, d \in Displays : Speak(k, m, d)
    \/ \E idle \in SUBSET Slots : ReapIdleUsers(idle)
    \/ DomainChanged
    \/ UplinkLost

Spec == Init /\ [][Next]_w

-----------------------------------------------------------------------------
(* Properties.                                                             *)

Live == {s \in Slots : w.nick[s] # None}

World ==
    [group: [Keys -> Groups \cup {None}], reserved: [Keys -> SUBSET Nicks],
     nick: [Slots -> Nicks \cup {None}], shown: [Slots -> Displays \cup {None}],
     chans: [Slots -> SUBSET Keys], away: SUBSET Slots, link: {"none", "up"},
     quitting: SUBSET (Nicks \X SUBSET Keys),
     uplink: {"down", "linking", "burst", "synced"},
     roster: [Members -> Displays \cup {None}], absent: SUBSET Members,
     net: SUBSET Nicks, netChans: SUBSET (Nicks \X Keys), netAway: SUBSET Nicks,
     qlines: SUBSET Nicks, others: SUBSET Nicks, early: {"no", "yes"}]

\* Every field has its type; in particular nothing but a nickname is ever
\* reserved or given to a client (EnsureClient, ReserveNick).
TypeOK == w \in World

\* Once the uplink is synced the network shows exactly the clients services
\* has records of, in exactly the channels of those records, however often the
\* link was lost and whatever happened to the clients meanwhile; and the nick
\* bans on the network are those the bridges reserve: DEL releases what no other
\* bridge reserves, and OnUplinkSync restores what was lost.
Mirror ==
    Synced(w) => /\ w.net = {w.nick[s] : s \in Live}
                 /\ w.netChans = UNION {{w.nick[s]} \X w.chans[s] : s \in Live}
                 /\ w.qlines = UNION {w.reserved[k] : k \in Keys}

\* Once the uplink is synced every member of the space is in every bridged
\* channel: SyncRoster drops rosters while the uplink is not ready, and
\* OnUplinkSync has to make up for every one of them.  A client is only in
\* channels that are bridged under its own suffix, after any DEL and any SET
\* (PruneChannels, RetireClients).
Populated ==
    /\ \A s \in Slots : \A k \in w.chans[s] : w.group[k] = s[1]
    /\ Synced(w) => \A k \in Bridged(w), m \in Members :
                       w.roster[m] # None => k \in w.chans[<<w.group[k], m>>]

\* No two people on the network have the same nickname (MakeNick, User::Find).
NickUnique ==
    /\ \A s, t \in Live : s # t => w.nick[s] # w.nick[t]
    /\ \A s \in Live : w.nick[s] \notin w.others

\* SendReservation: "The nickname of a bridged user is held with a network ban
\* on the nick so that nobody on IRC can take the identity of somebody on the
\* bridged network."
ClientReserved == Synced(w) => \A s \in Live : w.nick[s] \in w.qlines

\* MakeNick: "A taken nickname is usually the same person's own IRC client":
\* a client that gets an alternative nickname leaves the first to somebody.
TagMeansTaken ==
    [][\A s \in Slots :
          LET n == w'.nick[s]
          IN  n # None /\ n # w.nick[s] /\ n[3] > 0 =>
                 <<n[1], n[2], 0>> \in w'.others \cup {w'.nick[t] : t \in Slots}]_w

\* BridgeClient::away: "Whether the client is currently marked away on IRC".
AwayMirror == Synced(w) => w.netAway = {w.nick[s] : s \in w.away}

\* OnUplinkSync: "the end of the burst is the first point at which a join is
\* legal"; nothing is introduced or joined while the link is negotiated.
NoEarlyTraffic == w.early = "no"

=============================================================================
