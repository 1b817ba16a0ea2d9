------------------------------ MODULE Accounts ------------------------------
(***************************************************************************)
(* Nicknames, accounts and registered channels, and the references between *)
(* them.  An account (NickCore) lives as long as it has a nickname         *)
(* (NickAlias); a channel names accounts as its founder, successor, access *)
(* entries and autokicks, and other channels as access entries.  Accounts  *)
(* and channels count the channels that name them, and those counts decide *)
(* what a deletion visits: an account that goes hands its channels on, a   *)
(* channel that goes leaves the access lists that name it.                 *)
(*                                                                         *)
(* One record db holds the tables, so that a deletion can be written as    *)
(* the code writes it, one destructor after the other.                     *)
(***************************************************************************)
EXTENDS Naturals, SequencesExt

CONSTANTS
    Nicks,        \* nicknames that can be registered
    Cores,        \* NickCore objects
    Chans,        \* channel names
    Levels,       \* access levels, compared as ChanAccess::operator> does
    NULL,
    MaxReg,       \* chanserv:maxregistered
    MaxAccess,    \* chanserv:accessmax
    MaxAliases,   \* ns_group:maxaliases
    MaxAkicks,    \* cs_akick:autokickmax
    MaxObjects,   \* bound: nicknames, channels, entries, autokicks and requests
    CloneKinds    \* which forms of CLONE are used

ASSUME LimitsAssumption ==
    /\ MaxReg \in Nat /\ MaxAccess \in Nat /\ MaxAliases \in Nat
    /\ MaxAkicks \in Nat /\ MaxObjects \in Nat /\ Levels \subseteq Nat

\* An access entry or autokick names an account, a channel, or a mask that is none
\* of them (as the nickname of a display that was dropped).
Entry    == [who : Cores \cup Chans \cup Nicks \cup {NULL}, level : Levels]
ChanInfo == [founder : Cores \cup {NULL}, successor : Cores \cup {NULL},
             akicks : SUBSET Cores, access : Seq(Entry)]

ASSUME FiniteAssumption == IsFiniteSet(Cores) /\ IsFiniteSet(Chans) /\ IsFiniteSet(Nicks)
ASSUME NamesAssumption ==
    /\ Cores \cap Chans = {} /\ Cores \cap Nicks = {} /\ Chans \cap Nicks = {}
    /\ NULL \notin Cores \cup Chans \cup Nicks /\ NULL \notin ChanInfo

VARIABLES db,        \* the tables
          requests   \* NSGroupRequests that are not answered yet

vars == <<db, requests>>

\* NickCore::aliases is kept in the order the nicknames joined, so its head is
\* the one with the oldest registration.
Alive(d)    == {c \in Cores : d.aliases[c] # << >>}
Open(d)     == {x \in Chans : d.chan[x] # NULL}
Owners(d, n) == {c \in Cores : n \in Range(d.aliases[c])}
Registered(d, n) == Owners(d, n) # {}
Owner(d, n) == CHOOSE c \in Owners(d, n) : TRUE
Index(s, w) == SelectInSeq(s, LAMBDA e : e.who = w)

(***************************************************************************)
(* Reference counts: refs[w][x] is what account or channel w has counted   *)
(* of channel x.  A count that reaches zero is erased.                     *)
(***************************************************************************)
Refer(d, w, x) ==
    IF w \in Cores \cup Open(d) THEN [d EXCEPT !.refs[w][x] = @ + 1] ELSE d
Unrefer(d, w, x) ==
    IF w \in Cores \cup Open(d)
    THEN [d EXCEPT !.refs[w][x] = IF @ > 0 THEN @ - 1 ELSE 0] ELSE d

SetFounder(d, x, c) ==
    LET f == d.chan[x].founder
        left == IF f = NULL THEN d
                ELSE Unrefer([d EXCEPT !.count[f] = IF @ > 0 THEN @ - 1 ELSE @], f, x)
        set  == [left EXCEPT !.chan[x].founder = c]
    IN IF c = NULL THEN set ELSE Refer([set EXCEPT !.count[c] = @ + 1], c, x)

SetSuccessor_NoUnrefer(d, x, c) ==
    Refer([d EXCEPT !.chan[x].successor = c], c, x)
SetSuccessor(d, x, c) ==
    LET left == Unrefer(d, d.chan[x].successor, x)
    IN Refer([left EXCEPT !.chan[x].successor = c], c, x)

\* ChanAccess::SetMask() turns the name of an account into the account, and
\* Mask() turns it back into the account's display.
SetMask(d, m) == IF m \in Nicks /\ Registered(d, m) THEN Owner(d, m) ELSE m
Mask(d, w)    == IF w \in Cores THEN d.display[w] ELSE w

AddEntry(d, x, m, level) ==
    LET w == SetMask(d, m)
        e == [who |-> w, level |-> level]
    IN Refer([d EXCEPT !.chan[x].access = Append(@, e)], w, x)
\* ~ChanAccess
EraseEntry(d, x, i) ==
    LET w == d.chan[x].access[i].who
    IN Unrefer([d EXCEPT !.chan[x].access = RemoveAt(@, i)], w, x)
EraseFirst(d, x, w) ==
    LET i == Index(d.chan[x].access, w) IN IF i = 0 THEN d ELSE EraseEntry(d, x, i)

AddAkick(d, x, c)   == Refer([d EXCEPT !.chan[x].akicks = @ \cup {c}], c, x)
EraseAkick(d, x, c) ==
    IF c \notin d.chan[x].akicks THEN d
    ELSE Unrefer([d EXCEPT !.chan[x].akicks = @ \ {c}], c, x)
ClearAkick(d, x) ==
    FoldSet(LAMBDA c, e : EraseAkick(e, x, c), d, d.chan[x].akicks)

(***************************************************************************)
(* ~ChannelInfo.                                                           *)
(***************************************************************************)
OnDelChan(d, x) ==
    FoldSet(LAMBDA y, e : EraseFirst(e, y, x), d,
            {y \in Open(d) : d.refs[x][y] > 0})
ClearAccess(d, x) ==
    FoldLeft(LAMBDA e, entry : EraseEntry(e, x, 1), d, d.chan[x].access)

DelChan(d, x) ==
    LET told  == ClearAkick(OnDelChan(d, x), x)
        freed == ClearAccess(SetSuccessor(SetFounder(told, x, NULL), x, NULL), x)
    IN [freed EXCEPT !.chan[x] = NULL, !.refs[x] = [y \in Chans |-> 0]]

(***************************************************************************)
(* ~NickCore.  chanserv and cs_akick visit the channels the account has    *)
(* counted, in the order of their addresses.                               *)
(***************************************************************************)
Below(d, c) == d.count[c] < MaxReg

\* The access entry of the highest level, the first one among equals.
Heirs(d, x, c) ==
    LET a == d.chan[x].access
        I == {i \in 1..Len(a) : a[i].who \in Cores \ {c} /\ Below(d, a[i].who)}
    IN {a[i].who : i \in {i \in I :
            \A j \in I : a[j].level < a[i].level \/ (a[j].level = a[i].level /\ i <= j)}}
NewOwner_NoLimit(d, x, c) ==
    LET s == d.chan[x].successor
    IN IF s \notin {NULL, c} THEN s
       ELSE IF Heirs(d, x, c) # {} THEN CHOOSE h \in Heirs(d, x, c) : TRUE
       ELSE NULL
NewOwner_AccessFirst(d, x, c) ==
    LET s == d.chan[x].successor
    IN IF Heirs(d, x, c) # {} THEN CHOOSE h \in Heirs(d, x, c) : TRUE
       ELSE IF s \notin {NULL, c} /\ Below(d, s) THEN s
       ELSE NULL
NewOwner(d, x, c) ==
    LET s == d.chan[x].successor
    IN IF s \notin {NULL, c} /\ Below(d, s) THEN s
       ELSE IF Heirs(d, x, c) # {} THEN CHOOSE h \in Heirs(d, x, c) : TRUE
       ELSE NULL

OnDelCoreChan(d, x, c) ==
    LET owned == d.chan[x].founder = c
        heir  == NewOwner(d, x, c)
        given == IF owned THEN SetSuccessor(SetFounder(d, x, heir), x, NULL) ELSE d
        unset == IF given.chan[x].successor = c THEN SetSuccessor(given, x, NULL) ELSE given
    IN IF owned /\ heir = NULL THEN DelChan(d, x) ELSE EraseFirst(unset, x, c)

Referring(d, c) == {x \in Chans : d.refs[c][x] > 0}

\* What still names the account once it is gone reads as null.
Unname(a, c) == [i \in DOMAIN a |-> [a[i] EXCEPT !.who = IF @ = c THEN NULL ELSE @]]
Forget(d, c) ==
    [d EXCEPT
       !.chan = [x \in Chans |-> IF @[x] = NULL THEN NULL ELSE
          [founder   |-> IF @[x].founder = c THEN NULL ELSE @[x].founder,
           successor |-> IF @[x].successor = c THEN NULL ELSE @[x].successor,
           akicks    |-> @[x].akicks \ {c},
           access    |-> Unname(@[x].access, c)]],
       !.refs[c] = [x \in Chans |-> 0], !.count[c] = 0,
       !.display[c] = NULL, !.na[c] = NULL, !.aliases[c] = << >>]

\* order is the order of the channels' addresses.
DelCore(d, c, order) ==
    LET handed   == FoldLeft(LAMBDA e, x : IF x \in Referring(d, c) THEN OnDelCoreChan(e, x, c) ELSE e,
                             d, order)
        unkicked == FoldLeft(LAMBDA e, x : IF x \in Referring(handed, c) THEN EraseAkick(e, x, c) ELSE e,
                             handed, order)
    IN Forget(unkicked, c)

(***************************************************************************)
(* Accounts and their nicknames.                                           *)
(***************************************************************************)
NewAlias(d, n, c) ==
    [d EXCEPT !.aliases[c] = Append(@, n),
              !.na[c] = IF d.display[c] = n THEN n ELSE @]
SetDisplay(d, c, n) ==
    IF n = d.display[c] THEN d ELSE [d EXCEPT !.display[c] = n, !.na[c] = n]
Oldest(d, c) == Head(d.aliases[c])

DelNick_KeepCore(d, n, order) ==
    LET c    == Owner(d, n)
        left == [d EXCEPT !.aliases[c] = RemoveFirst(@, n)]
    IN IF left.aliases[c] # << >> /\ d.na[c] = n
       THEN SetDisplay(left, c, Oldest(left, c)) ELSE left
\* ~NickAlias
DelNick(d, n, order) ==
    LET c    == Owner(d, n)
        left == [d EXCEPT !.aliases[c] = RemoveFirst(@, n)]
    IN CASE left.aliases[c] = << >> -> DelCore(left, c, order)
         [] left.aliases[c] # << >> /\ d.na[c] = n -> SetDisplay(left, c, Oldest(left, c))
         [] OTHER -> left

Orders == SetToSeqs(Chans)
Objects(d, r) ==
    MapThenSumSet(LAMBDA c : Len(d.aliases[c]), Cores) + Cardinality(r)
      + MapThenSumSet(LAMBDA x : 1 + Len(d.chan[x].access)
                                   + Cardinality(d.chan[x].akicks), Open(d))
\* A Reference<NickAlias> does not survive the nickname it points to.
Without(n) == {r \in requests : r.target # n}

Init ==
    /\ db = [aliases |-> [c \in Cores |-> << >>],
             display |-> [c \in Cores |-> NULL],
             na      |-> [c \in Cores |-> NULL],
             count   |-> [c \in Cores |-> 0],
             refs    |-> [w \in Cores \cup Chans |-> [x \in Chans |-> 0]],
             chan    |-> [x \in Chans |-> NULL]]
    /\ requests = {}

Register(n) ==
    /\ ~Registered(db, n)
    /\ \E c \in Cores \ Alive(db) : db' = NewAlias([db EXCEPT !.display[c] = n], n, c)
    /\ UNCHANGED requests

\* By its owner or an operator.
Drop(n) ==
    /\ Registered(db, n)
    /\ \E order \in Orders : db' = DelNick(db, n, order)
    /\ requests' = Without(n)

\* By the expiry timer, whoever may be using the nickname.
Expire(n) == Drop(n)

\* The user of nickname n, which is free or his own, asks to join the account
\* of nickname t; the password check may take its time.
Group(n, t) ==
    /\ Registered(db, t) /\ Len(db.aliases[Owner(db, t)]) < MaxAliases
    /\ Registered(db, n) => Owner(db, n) # Owner(db, t)
    /\ requests' = requests \cup {[nick |-> n, target |-> t]}
    /\ UNCHANGED db

\* Whatever now is registered under the nickname makes way.
GroupSuccess(r) ==
    /\ \E order \in Orders :
          LET gone == IF Registered(db, r.nick) THEN DelNick(db, r.nick, order) ELSE db
          IN db' = NewAlias(gone, r.nick, Owner(db, r.target))
    /\ requests' = {q \in requests \ {r} : Registered(db, r.nick) => q.target # r.nick}

\* The password was wrong, or the user has changed nickname or left.
GroupFails(r) == requests' = requests \ {r} /\ UNCHANGED db

Ungroup_KeepDisplay(n) ==
    /\ Registered(db, n) /\ Len(db.aliases[Owner(db, n)]) > 1
    /\ \E e \in Cores \ Alive(db) :
          db' = [db EXCEPT !.aliases[Owner(db, n)] = RemoveFirst(@, n),
                           !.display[e] = n, !.aliases[e] = << n >>]
    /\ UNCHANGED requests
Ungroup(n) ==
    /\ Registered(db, n) /\ Len(db.aliases[Owner(db, n)]) > 1
    /\ LET c    == Owner(db, n)
           left == [db EXCEPT !.aliases[c] = RemoveFirst(@, n)]
           old  == IF db.na[c] = n THEN SetDisplay(left, c, Oldest(left, c)) ELSE left
       IN \E e \in Cores \ Alive(db) :
             db' = [old EXCEPT !.display[e] = n, !.aliases[e] = << n >>]
    /\ UNCHANGED requests

SetDisplayTo(n) ==
    /\ Registered(db, n)
    /\ db' = SetDisplay(db, Owner(db, n), n)
    /\ UNCHANGED requests

(***************************************************************************)
(* Channels.  Who may give a command is left open; what the command        *)
(* refuses whoever gives it is not.                                        *)
(***************************************************************************)
RegisterChan(x, c) ==
    /\ x \notin Open(db) /\ Below(db, c)
    /\ db' = SetFounder([db EXCEPT !.chan[x] =
                [founder |-> NULL, successor |-> NULL, akicks |-> {}, access |-> << >>]], x, c)
    /\ UNCHANGED requests

DropChan(x)   == db' = DelChan(db, x) /\ UNCHANGED requests
ExpireChan(x) == DropChan(x)

\* SET FOUNDER
GiveChan(x, c) ==
    /\ Below(db, c)
    /\ db' = SetFounder(db, x, c)
    /\ UNCHANGED requests

\* SET SUCCESSOR
NameSuccessor(x, c) ==
    /\ c # db.chan[x].founder
    /\ db' = SetSuccessor(db, x, c)
    /\ UNCHANGED requests

\* An entry for the same account or mask is replaced.
Same(m, e) == e.who = SetMask(db, m) \/ Mask(db, e.who) = m
Replace(x, m, level, i) ==
    LET rid == IF i = 0 THEN db ELSE EraseEntry(db, x, i)
    IN /\ m # x
       /\ m \in Nicks => Registered(db, m)
       /\ m \in Chans => m \in Open(db)
       /\ db' = IF Len(rid.chan[x].access) >= MaxAccess THEN rid
                ELSE AddEntry(rid, x, m, level)
       /\ UNCHANGED requests

\* ACCESS ADD looks for the entry from the end of the list, SOP and its kin from
\* the beginning.
AccessAdd(x, m, level) ==
    Replace(x, m, level, SelectLastInSeq(db.chan[x].access, LAMBDA e : Same(m, e)))
XopAdd(x, m, level) ==
    Replace(x, m, level, SelectInSeq(db.chan[x].access, LAMBDA e : Same(m, e)))

AccessDel(x, i) == db' = EraseEntry(db, x, i) /\ UNCHANGED requests

Akick(x, c) ==
    /\ c \notin db.chan[x].akicks /\ Cardinality(db.chan[x].akicks) < MaxAkicks
    /\ db' = AddAkick(db, x, c)
    /\ UNCHANGED requests

AkickDel(x, c) ==
    c \in db.chan[x].akicks /\ db' = EraseAkick(db, x, c) /\ UNCHANGED requests

CopyAccess(d, x, y) ==
    FoldLeft(LAMBDA e, entry :
               LET m == Mask(e, entry.who) IN
               IF \/ Len(e.chan[y].access) >= MaxAccess
                  \/ \E i \in DOMAIN e.chan[y].access : Mask(e, e.chan[y].access[i].who) = m
               THEN e ELSE AddEntry(e, y, m, entry.level),
             d, d.chan[x].access)
CopyAkick(d, x, y) ==
    FoldSet(LAMBDA c, e : AddAkick(e, y, c), ClearAkick(d, y), d.chan[x].akicks)
\* The copy constructor counts the channel for its founder, but is not counted
\* among the founder's and the successor's references.
CopyChan(d, x, y) ==
    LET gone == DelChan(d, y)
        copy == [gone.chan[x] EXCEPT !.access = << >>, !.akicks = {}]
    IN [gone EXCEPT !.chan[y] = copy, !.refs[y] = gone.refs[x],
          !.count = [c \in Cores |-> IF c = copy.founder THEN @[c] + 1 ELSE @[c]]]

\* CLONE x y
Clone(x, y, what) ==
    /\ x # y
    /\ db' = CASE what = "ACCESS" -> CopyAccess(db, x, y)
               [] what = "AKICK"  -> CopyAkick(db, x, y)
               [] what = "ALL"    ->
                    CopyAkick(CopyAccess(CopyChan(db, x, y), x, y), x, y)
    /\ UNCHANGED requests

Within == Objects(db', requests') <= MaxObjects

Next ==
    \/ \E n \in Nicks : (Register(n) /\ Within) \/ Drop(n) \/ Expire(n)
                        \/ Ungroup(n) \/ SetDisplayTo(n)
    \/ \E n, t \in Nicks : Group(n, t) /\ Within
    \/ \E r \in requests : GroupSuccess(r) \/ GroupFails(r)
    \/ \E x \in Chans, c \in Alive(db) : RegisterChan(x, c) /\ Within
    \/ \E x \in Open(db) :
          \/ DropChan(x) \/ ExpireChan(x)
          \/ \E c \in Alive(db) : GiveChan(x, c) \/ (Akick(x, c) /\ Within) \/ AkickDel(x, c)
          \/ \E c \in Alive(db) \cup {NULL} : NameSuccessor(x, c)
          \/ \E m \in Nicks \cup Chans, l \in Levels :
                (AccessAdd(x, m, l) \/ XopAdd(x, m, l)) /\ Within
          \/ \E i \in DOMAIN db.chan[x].access : AccessDel(x, i)
          \/ \E y \in Open(db), what \in CloneKinds : Clone(x, y, what) /\ Within

Spec == Init /\ [][Next]_vars

(***************************************************************************)
(* Properties.                                                             *)
(***************************************************************************)
\* The shape of the tables; an access list never exceeds chanserv:accessmax, and
\* an account without nicknames is gone.
TypeOK ==
    /\ db.aliases \in [Cores -> BoundedSeq(Nicks, Cardinality(Nicks))]
    /\ db.display \in [Cores -> Nicks \cup {NULL}]
    /\ db.na      \in [Cores -> Nicks \cup {NULL}]
    /\ db.count   \in [Cores -> 0..Cardinality(Chans)]
    /\ db.refs    \in [Cores \cup Chans -> [Chans -> Nat]]
    /\ \A x \in Open(db) :
          /\ db.chan[x].founder   \in Cores \cup {NULL}
          /\ db.chan[x].successor \in Cores \cup {NULL}
          /\ db.chan[x].akicks    \subseteq Cores
          /\ db.chan[x].access    \in BoundedSeq(Entry, MaxAccess)
    /\ \A c \in Cores \ Alive(db) :
          db.display[c] = NULL /\ db.na[c] = NULL /\ db.count[c] = 0
    /\ requests \subseteq [nick : Nicks, target : Nicks]

\* How often the record r of a channel names w.
One(b) == IF b THEN 1 ELSE 0
Hits(a, w) == {i \in DOMAIN a : a[i].who = w}
Names(r, w) == One(r.founder = w) + One(r.successor = w) + One(w \in r.akicks)
                 + Cardinality(Hits(r.access, w))
Uses(d, w, x) == IF x \in Open(d) THEN Names(d.chan[x], w) ELSE 0

\* include/account.h:144: an account (and, for access lists, a channel) knows
\* every channel that names it, as often as it is named.  A deletion visits
\* only the channels that were counted, so a missed count leaves a channel
\* behind and a count too many outlives the channel: whatever is deleted in
\* whatever order, no channel is left without a founder, and no channel names an
\* account that is gone as its heir or on its autokicks.
RefsExact ==
    /\ \A w \in Alive(db) \cup Open(db), x \in Chans : db.refs[w][x] = Uses(db, w, x)
    /\ \A x \in Open(db) :
       /\ db.chan[x].founder \in Alive(db)
       /\ db.chan[x].successor \in Alive(db) \cup {NULL}
       /\ db.chan[x].akicks \subseteq Alive(db)

\* channelcount is the number of channels an account founded, and inheriting
\* channels from several deleted accounts never takes it over the limit.
CountExact ==
    \A c \in Alive(db) :
       /\ db.count[c] = Cardinality({x \in Open(db) : db.chan[x].founder = c})
       /\ db.count[c] <= MaxReg

\* An account that knows its display nickname owns it, whichever nicknames were
\* dropped, grouped or ungrouped since (NickCore::na, display and aliases agree).
DisplayFollows ==
    /\ \A n \in Nicks : Cardinality(Owners(db, n)) <= 1
    /\ \A c \in Alive(db) : db.na[c] # NULL =>
          /\ db.na[c] = db.display[c]
          /\ db.display[c] \in Range(db.aliases[c])

\* A channel whose founder's account goes passes to its successor whenever the
\* successor has room for everything the account founded; it is never lost.
Inherited ==
    [][\A x \in Open(db) :
         LET c == db.chan[x].founder
             s == db.chan[x].successor
         IN ( /\ c \in Alive(db) /\ db'.aliases[c] = << >>
              /\ s \in Alive(db) \ {c} /\ db.count[s] + db.count[c] <= MaxReg )
            => x \in Open(db') /\ db'.chan[x].founder = s]_vars

\* include/account.h:126 and :149: each account has a nickname that is its
\* display, Find(display)->nc == this.
DisplayIsAlias == \A c \in Alive(db) : db.display[c] \in Range(db.aliases[c])
=============================================================================
