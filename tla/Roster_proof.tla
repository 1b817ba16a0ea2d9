---------------------------- MODULE Roster_proof ----------------------------
(***************************************************************************)
(* Proofs about Roster: for any number of channels, suffixes, members and  *)
(* display names, whatever the environment does, no two people get one     *)
(* nickname, and no client is in a channel of another suffix; when nothing *)
(* runs while the link to the network is being set up, the network shows   *)
(* what services has records of; and while nicknames are to be had and     *)
(* nobody takes clients away, everybody is in every bridged channel.       *)
(***************************************************************************)
EXTENDS Roster, Folding, FiniteSetTheorems

\* A slot without a client is in no channel.
Shape(x) == x \in World /\ \A s \in Slots : x.nick[s] = None => x.chans[s] = {}

Unique(x) ==
    /\ \A s, t \in Slots : x.nick[s] # None /\ x.nick[s] = x.nick[t] => s = t
    /\ \A s \in Slots : x.nick[s] # None => x.nick[s] \notin x.others

\* The network has heard of every client since the burst.
Known(x) ==
    x.uplink \in {"burst", "synced"} =>
        \A s \in Slots : x.nick[s] # None => x.nick[s] \in x.net

\* Nick bans are those the bridges reserve, and none is missing once synced.
Bans(x) ==
    /\ \A n \in x.qlines : \E k \in Keys : n \in x.reserved[k]
    /\ Synced(x) => \A k \in Keys : x.reserved[k] \subseteq x.qlines
    /\ \A k \in Keys : x.group[k] = None => x.reserved[k] = {}

\* The network shows the clients in the channels of the records, and no others.
Shown(x) ==
    /\ \A n \in Nicks : n \in x.net <=> n # None /\ \E s \in Slots : x.nick[s] = n
    /\ \A n \in Nicks, k \in Keys :
          <<n, k>> \in x.netChans <=> n # None /\ \E s \in Slots : x.nick[s] = n /\ k \in x.chans[s]

\* What every handler keeps.
Fine(x) ==
    /\ Shape(x) /\ Unique(x) /\ Known(x) /\ Bans(x)
    /\ "burst" \notin Env /\ Synced(x) => Shown(x)

IInv ==
    /\ Fine(w)
    /\ "burst" \notin Env =>
          /\ w.uplink \in {"linking", "burst"} => w.quitting = {}
          /\ w.uplink = "burst" => Shown(w)

-----------------------------------------------------------------------------
(* One thing done to the world.                                            *)

\* What a handler may not change when it goes over slots and channels.
Same(x, y) == y.group = x.group /\ y.roster = x.roster /\ y.uplink = x.uplink
\* What is Fine does not depend on the rest.
Alike(x, y) ==
    /\ Same(x, y) /\ y.nick = x.nick /\ y.chans = x.chans /\ y.others = x.others
    /\ y.reserved = x.reserved /\ y.qlines = x.qlines
    /\ y.net = x.net /\ y.netChans = x.netChans

\* The fields of a world.
LEMMA Fields ==
    ASSUME NEW x \in World
    PROVE  /\ x.group \in [Keys -> Groups \cup {None}] /\ x.reserved \in [Keys -> SUBSET Nicks]
           /\ x.nick \in [Slots -> Nicks \cup {None}] /\ x.shown \in [Slots -> Displays \cup {None}]
           /\ x.chans \in [Slots -> SUBSET Keys] /\ x.away \subseteq Slots
           /\ x.quitting \subseteq Nicks \X SUBSET Keys
           /\ x.uplink \in {"down", "linking", "burst", "synced"}
           /\ x.roster \in [Members -> Displays \cup {None}] /\ x.absent \subseteq Members
           /\ x.net \subseteq Nicks /\ x.netChans \subseteq Nicks \X Keys /\ x.netAway \subseteq Nicks
           /\ x.qlines \subseteq Nicks /\ x.others \subseteq Nicks
BY DEF World

\* A world that differs in what the rest does not depend on.
LEMMA AlikeFine ==
    ASSUME NEW x, NEW y \in World, Fine(x), Alike(x, y)
    PROVE  Fine(y)
<1> USE DEF Alike, Same
<1>1. Shape(y)
  BY DEF Fine, Shape
<1>2. Unique(y)
  BY DEF Fine, Unique
<1>3. Known(y)
  BY DEF Fine, Known
<1>4. Bans(y)
  BY DEF Fine, Bans, Synced
<1>5. "burst" \notin Env /\ Synced(y) => Shown(y)
  BY DEF Fine, Shown, Synced
<1> QED
  BY <1>1, <1>2, <1>3, <1>4, <1>5 DEF Fine

\* A message is not sent, or too early, or it has its effect.
LEMMA SendCases ==
    ASSUME NEW y \in World, NEW z
    PROVE  \/ /\ y.uplink \notin {"burst", "synced"} /\ Send(y, z) \in World
              /\ Alike(y, Send(y, z)) /\ Send(y, z).shown = y.shown
              /\ Send(y, z).quitting = y.quitting
           \/ y.uplink \in {"burst", "synced"} /\ Send(y, z) = z
<1>1. CASE y.uplink = "down"
  BY <1>1 DEF Send, Alike, Same
<1>2. CASE y.uplink = "linking"
  <2> DEFINE u == [y EXCEPT !.early = "yes"]
  <2>1. u \in World /\ Alike(y, u) /\ u.shown = y.shown /\ u.quitting = y.quitting
    BY DEF World, Alike, Same
  <2>2. Send(y, z) = u
    BY <1>2 DEF Send
  <2> QED
    BY <1>2, <2>1, <2>2
<1>3. CASE y.uplink \in {"burst", "synced"}
  BY <1>3 DEF Send
<1> QED
  BY <1>1, <1>2, <1>3, Fields

\* A client that parts.
LEMMA PartFine ==
    ASSUME NEW x, Fine(x), NEW s \in Slots, NEW k \in Keys
    PROVE  Fine(PartClient(x, s, k)) /\ Same(x, PartClient(x, s, k))
<1> DEFINE y == [x EXCEPT !.chans[s] = @ \ {k}]
           z == [y EXCEPT !.netChans = @ \ {<<x.nick[s], k>>}]
<1>0. x \in World
  BY DEF Fine, Shape
<1>1. CASE k \notin x.chans[s]
  BY <1>1 DEF PartClient, Same
<1>2. CASE k \in x.chans[s]
  <2>1. /\ y \in World /\ Same(x, y) /\ y.nick = x.nick /\ y.others = x.others
        /\ y.chans = [x.chans EXCEPT ![s] = @ \ {k}]
        /\ y.reserved = x.reserved /\ y.qlines = x.qlines
        /\ y.net = x.net /\ y.netChans = x.netChans
    <3> DEFINE C == [x.chans EXCEPT ![s] = @ \ {k}]
    <3>1. C \in [Slots -> SUBSET Keys]
      BY <1>0, Fields
    <3>2. y = [x EXCEPT !.chans = C]
      OBVIOUS
    <3> HIDE DEF C, y
    <3>3. y \in World
      BY <1>0, <3>1, <3>2 DEF World
    <3>4. /\ Same(x, y) /\ y.nick = x.nick /\ y.others = x.others /\ y.chans = C
          /\ y.reserved = x.reserved /\ y.qlines = x.qlines
          /\ y.net = x.net /\ y.netChans = x.netChans
      BY <1>0, <3>2 DEF World, Same
    <3> QED
      BY <3>3, <3>4 DEF C
  <2>2. PartClient(x, s, k) = Send(y, z)
    BY <1>2 DEF PartClient
  <2>3. x.nick \in [Slots -> Nicks \cup {None}] /\ x.chans \in [Slots -> SUBSET Keys]
        /\ x.netChans \subseteq Nicks \X Keys
    BY <1>0, Fields
  <2> HIDE DEF y
  <2>4. /\ z \in World /\ Same(y, z) /\ z.nick = y.nick /\ z.others = y.others
        /\ z.chans = y.chans /\ z.reserved = y.reserved /\ z.qlines = y.qlines
        /\ z.net = y.net /\ z.netChans = y.netChans \ {<<x.nick[s], k>>}
    BY <2>1 DEF World, Same
  <2> HIDE DEF z
  <2>5. ASSUME NEW u \in {y, z}
        PROVE  Shape(u) /\ Unique(u) /\ Known(u) /\ Bans(u)
    <3>1. /\ u \in World /\ Same(x, u) /\ u.nick = x.nick /\ u.others = x.others
          /\ u.chans = [x.chans EXCEPT ![s] = @ \ {k}]
          /\ u.reserved = x.reserved /\ u.qlines = x.qlines /\ u.net = x.net
      BY <2>1, <2>4, <2>5 DEF Same
    <3>2. Shape(u)
      BY <2>3, <3>1 DEF Fine, Shape
    <3>3. Unique(u)
      BY <3>1 DEF Fine, Unique
    <3>4. Known(u)
      BY <3>1 DEF Fine, Known, Same
    <3>5. Bans(u)
      BY <3>1 DEF Fine, Bans, Same, Synced
    <3> QED
      BY <3>2, <3>3, <3>4, <3>5
  <2>6. x.nick[s] # None
    BY <1>2 DEF Fine, Shape
  <2>7. Shown(x) => Shown(z)
    BY <2>1, <2>3, <2>4, <2>6 DEF Shown, Fine, Unique
  <2>8. Fine(z)
    BY <2>1, <2>4, <2>5, <2>7 DEF Fine, Same, Synced
  <2>9. y.uplink \notin {"burst", "synced"} => Fine(y)
    BY <2>5 DEF Fine, Synced
  <2> QED
    BY <2>1, <2>2, <2>4, <2>8, <2>9, SendCases, AlikeFine DEF Alike, Same
<1> QED
  BY <1>1, <1>2

\* A nickname that is reserved for a bridge.
LEMMA ReserveFine ==
    ASSUME NEW x, Fine(x), NEW k \in Keys, x.group[k] # None, NEW n \in Nicks
    PROVE  LET r == ReserveNick(x, k, n) IN
           /\ Fine(r) /\ Same(x, r)
           /\ r.nick = x.nick /\ r.others = x.others /\ r.quitting = x.quitting /\ r.shown = x.shown
           /\ r.chans = x.chans /\ r.net = x.net /\ r.netChans = x.netChans
<1> DEFINE q == IF Synced(x) THEN x.qlines \cup {n} ELSE x.qlines
           r == [x EXCEPT !.reserved[k] = @ \cup {n}, !.qlines = q]
<1>1. x \in World /\ x.qlines \subseteq Nicks /\ x.reserved \in [Keys -> SUBSET Nicks]
  BY Fields DEF Fine, Shape
<1>2. q \subseteq Nicks /\ x.qlines \subseteq q /\ q \subseteq x.qlines \cup {n}
      /\ (Synced(x) => q = x.qlines \cup {n})
  BY <1>1
<1>3. ReserveNick(x, k, n) = r
  BY <1>1 DEF ReserveNick
<1> HIDE DEF q
<1>4. /\ r \in World /\ Same(x, r) /\ r.nick = x.nick /\ r.others = x.others /\ r.shown = x.shown
      /\ r.quitting = x.quitting /\ r.chans = x.chans /\ r.net = x.net /\ r.netChans = x.netChans
      /\ r.reserved = [x.reserved EXCEPT ![k] = @ \cup {n}] /\ r.qlines = q
  <2> DEFINE R == [x.reserved EXCEPT ![k] = @ \cup {n}]
             y == [x EXCEPT !.reserved = R, !.qlines = q]
  <2>1. R \in [Keys -> SUBSET Nicks]
    BY <1>1
  <2>2. r = y
    BY <1>1 DEF World
  <2> HIDE DEF R
  <2>3. y \in World
    BY <1>1, <1>2, <2>1 DEF World
  <2>4. /\ Same(x, y) /\ y.nick = x.nick /\ y.others = x.others /\ y.shown = x.shown
        /\ y.quitting = x.quitting /\ y.chans = x.chans /\ y.net = x.net /\ y.netChans = x.netChans
        /\ y.reserved = R /\ y.qlines = q
    BY <1>1 DEF World, Same
  <2> HIDE DEF y, r
  <2> QED
    BY <2>2, <2>3, <2>4 DEF R
<1> HIDE DEF r
<1>5. Bans(r)
  BY <1>1, <1>2, <1>4 DEF Fine, Bans, Same, Synced
<1>6. Shape(r) /\ Unique(r) /\ Known(r)
  BY <1>4 DEF Fine, Shape, Unique, Known, Same
<1>7. "burst" \notin Env /\ Synced(r) => Shown(r)
  BY <1>4 DEF Fine, Same, Synced, Shown
<1> QED
  BY <1>3, <1>4, <1>5, <1>6, <1>7 DEF Fine

\* A client that joins.
LEMMA JoinFine ==
    ASSUME NEW x, Fine(x), NEW s \in Slots, NEW k \in Keys
    PROVE  Fine(EnsureJoin(x, s, k)) /\ Same(x, EnsureJoin(x, s, k))
<1> DEFINE y == [x EXCEPT !.chans[s] = @ \cup {k}]
           z == [y EXCEPT !.netChans = @ \cup {<<x.nick[s], k>>}]
<1>0. x \in World
  BY DEF Fine, Shape
<1>1. CASE x.nick[s] = None \/ k \in x.chans[s]
  BY <1>1 DEF EnsureJoin, Same
<1>2. CASE ~(x.nick[s] = None \/ k \in x.chans[s])
  <2>1. /\ y \in World /\ Same(x, y) /\ y.nick = x.nick /\ y.others = x.others
        /\ y.chans = [x.chans EXCEPT ![s] = @ \cup {k}]
        /\ y.reserved = x.reserved /\ y.qlines = x.qlines
        /\ y.net = x.net /\ y.netChans = x.netChans
    <3> DEFINE C == [x.chans EXCEPT ![s] = @ \cup {k}]
    <3>1. C \in [Slots -> SUBSET Keys]
      BY <1>0, Fields
    <3>2. y = [x EXCEPT !.chans = C]
      OBVIOUS
    <3> HIDE DEF C, y
    <3>3. y \in World
      BY <1>0, <3>1, <3>2 DEF World
    <3>4. /\ Same(x, y) /\ y.nick = x.nick /\ y.others = x.others /\ y.chans = C
          /\ y.reserved = x.reserved /\ y.qlines = x.qlines
          /\ y.net = x.net /\ y.netChans = x.netChans
      BY <1>0, <3>2 DEF World, Same
    <3> QED
      BY <3>3, <3>4 DEF C
  <2>2. EnsureJoin(x, s, k) = Send(y, z)
    BY <1>2 DEF EnsureJoin
  <2>3. x.nick \in [Slots -> Nicks \cup {None}] /\ x.chans \in [Slots -> SUBSET Keys]
        /\ x.netChans \subseteq Nicks \X Keys /\ x.nick[s] \in Nicks
    BY <1>0, <1>2, Fields
  <2> HIDE DEF y
  <2>4. /\ z \in World /\ Same(y, z) /\ z.nick = y.nick /\ z.others = y.others
        /\ z.chans = y.chans /\ z.reserved = y.reserved /\ z.qlines = y.qlines
        /\ z.net = y.net /\ z.netChans = y.netChans \cup {<<x.nick[s], k>>}
    BY <2>1, <2>3 DEF World, Same
  <2> HIDE DEF z
  <2>5. ASSUME NEW u \in {y, z}
        PROVE  Shape(u) /\ Unique(u) /\ Known(u) /\ Bans(u)
    <3>1. /\ u \in World /\ Same(x, u) /\ u.nick = x.nick /\ u.others = x.others
          /\ u.chans = [x.chans EXCEPT ![s] = @ \cup {k}]
          /\ u.reserved = x.reserved /\ u.qlines = x.qlines /\ u.net = x.net
      BY <2>1, <2>4, <2>5 DEF Same
    <3>2. Shape(u)
      BY <1>2, <2>3, <3>1 DEF Fine, Shape
    <3>3. Unique(u)
      BY <3>1 DEF Fine, Unique
    <3>4. Known(u)
      BY <3>1 DEF Fine, Known, Same
    <3>5. Bans(u)
      BY <3>1 DEF Fine, Bans, Same, Synced
    <3> QED
      BY <3>2, <3>3, <3>4, <3>5
  <2>6. x.nick[s] # None
    BY <1>2
  <2>7. Shown(x) => Shown(z)
    BY <2>1, <2>3, <2>4, <2>6 DEF Shown, Fine, Unique
  <2>8. Fine(z)
    BY <2>1, <2>4, <2>5, <2>7 DEF Fine, Same, Synced
  <2>9. y.uplink \notin {"burst", "synced"} => Fine(y)
    BY <2>5 DEF Fine, Synced
  <2> QED
    BY <2>1, <2>2, <2>4, <2>8, <2>9, SendCases, AlikeFine DEF Alike, Same
<1> QED
  BY <1>1, <1>2

\* A client that is marked away or back.
LEMMA AwayFine ==
    ASSUME NEW x, Fine(x), NEW s \in Slots, NEW a \in BOOLEAN
    PROVE  Fine(SetClientAway(x, s, a)) /\ Same(x, SetClientAway(x, s, a))
<1> DEFINE n == x.nick[s]
           A == IF a THEN x.away \cup {s} ELSE x.away \ {s}
           B == IF a THEN x.netAway \cup {n} ELSE x.netAway \ {n}
           y == [x EXCEPT !.away = A]
           z == [y EXCEPT !.netAway = B]
<1>1. x \in World /\ x.away \subseteq Slots /\ x.netAway \subseteq Nicks /\ n \in Nicks \cup {None}
  BY Fields DEF Fine, Shape
<1>2. A \subseteq Slots
  BY <1>1
<1>3. y.netAway = x.netAway
  BY <1>1 DEF World
<1>4. \/ SetClientAway(x, s, a) = x
      \/ SetClientAway(x, s, a) = y
      \/ SetClientAway(x, s, a) = z /\ n # None
  BY <1>3 DEF SetClientAway
<1>5. n # None => B \subseteq Nicks
  BY <1>1
<1> HIDE DEF A, B
<1>6. y \in World /\ Alike(x, y)
  BY <1>1, <1>2 DEF World, Alike, Same
<1> HIDE DEF y
<1>7. n # None => z \in World /\ Alike(y, z)
  BY <1>5, <1>6 DEF World, Alike, Same
<1> HIDE DEF z
<1>8. Fine(y) /\ Same(x, y)
  BY <1>6, AlikeFine DEF Alike
<1>9. n # None => Fine(z) /\ Same(x, z)
  BY <1>7, <1>8, AlikeFine DEF Alike, Same
<1> QED
  BY <1>4, <1>8, <1>9 DEF Same

\* A client that is gone, from the network too if it has heard of him.
LEMMA RemoveFine ==
    ASSUME NEW x, Fine(x), NEW s \in Slots, x.nick[s] # None
    PROVE  /\ Fine(Killed(x, s)) /\ Same(x, Killed(x, s))
           /\ Fine(RemoveClient(x, s)) /\ Same(x, RemoveClient(x, s))
<1> DEFINE n == x.nick[s]
           y == [x EXCEPT !.nick[s] = None, !.shown[s] = None, !.chans[s] = {},
                          !.away = @ \ {s}, !.quitting = @ \cup {<<x.nick[s], x.chans[s]>>}]
           z == [y EXCEPT !.net = @ \ {n}, !.netAway = @ \ {n}, !.netChans = {p \in @ : p[1] # n}]
<1>1. x \in World /\ x.nick \in [Slots -> Nicks \cup {None}] /\ x.chans \in [Slots -> SUBSET Keys]
      /\ n \in Nicks /\ x.chans[s] \in SUBSET Keys /\ x.netChans \subseteq Nicks \X Keys
  BY Fields DEF Fine, Shape
<1>2. Quit(x, s) = y /\ Killed(x, s) = z
  BY DEF Quit, Killed, Gone
<1>3. RemoveClient(x, s) = IF Synced(x) THEN z ELSE y
  BY <1>2 DEF RemoveClient
<1> HIDE DEF n
<1>4. /\ y \in World /\ Same(x, y) /\ y.nick = [x.nick EXCEPT ![s] = None] /\ y.others = x.others
      /\ y.chans = [x.chans EXCEPT ![s] = {}] /\ y.reserved = x.reserved /\ y.qlines = x.qlines
      /\ y.net = x.net /\ y.netChans = x.netChans
  <2> DEFINE e == <<x.nick[s], x.chans[s]>>
             v == [x EXCEPT !.nick[s] = None, !.shown[s] = None, !.chans[s] = {}]
             u == [v EXCEPT !.away = @ \ {s}, !.quitting = @ \cup {e}]
  <2>1. e \in Nicks \X SUBSET Keys
    BY <1>1 DEF n
  <2>2. v \in World
    BY <1>1 DEF World
  <2>3. y = u
    OBVIOUS
  <2> HIDE DEF e, v, y
  <2>4. u \in World
    BY <2>1, <2>2 DEF World
  <2>5. y \in World
    BY <2>3, <2>4
  <2> QED
    BY <1>1, <2>5 DEF World, Same, y
<1> HIDE DEF y
<1>5. /\ z \in World /\ Same(y, z) /\ z.nick = y.nick /\ z.others = y.others
      /\ z.chans = y.chans /\ z.reserved = y.reserved /\ z.qlines = y.qlines
      /\ z.net = y.net \ {n} /\ z.netChans = {p \in y.netChans : p[1] # n}
  BY <1>4 DEF World, Same
<1> HIDE DEF z
<1>6. ASSUME NEW u \in {y, z}
      PROVE  Shape(u) /\ Unique(u) /\ Known(z) /\ Bans(u)
  <2>1. /\ u \in World /\ Same(x, u) /\ u.nick = [x.nick EXCEPT ![s] = None] /\ u.others = x.others
        /\ u.chans = [x.chans EXCEPT ![s] = {}] /\ u.reserved = x.reserved /\ u.qlines = x.qlines
    BY <1>4, <1>5, <1>6 DEF Same
  <2>2. Shape(u)
    BY <1>1, <2>1 DEF Fine, Shape
  <2>3. Unique(u)
    BY <1>1, <2>1 DEF Fine, Unique
  <2>4. Known(z)
    BY <1>1, <1>4, <1>5 DEF Fine, Known, Same, Unique, n
  <2>5. Bans(u)
    BY <2>1 DEF Fine, Bans, Same, Synced
  <2> QED
    BY <2>2, <2>3, <2>4, <2>5
<1>7. Known(y)
  BY <1>1, <1>4 DEF Fine, Known, Same
<1>8. Shown(x) => Shown(z)
  <2> SUFFICES ASSUME Shown(x) PROVE Shown(z)
    OBVIOUS
  <2>1. z.nick = [x.nick EXCEPT ![s] = None] /\ z.chans = [x.chans EXCEPT ![s] = {}]
        /\ z.net = x.net \ {n} /\ z.netChans = {p \in x.netChans : p[1] # n}
    BY <1>4, <1>5
  <2>2. \A t \in Slots : x.nick[t] = n <=> t = s
    BY <1>1 DEF Fine, Unique, n
  <2>3. ASSUME NEW m \in Nicks
        PROVE  m \in z.net <=> m # None /\ \E t \in Slots : z.nick[t] = m
    BY <1>1, <2>1, <2>2 DEF Shown
  <2>4. ASSUME NEW m \in Nicks, NEW k \in Keys
        PROVE  <<m, k>> \in z.netChans
                 <=> m # None /\ \E t \in Slots : z.nick[t] = m /\ k \in z.chans[t]
    BY <1>1, <2>1, <2>2 DEF Shown
  <2> QED
    BY <2>3, <2>4 DEF Shown
<1>9. Fine(z) /\ Same(x, z)
  BY <1>4, <1>5, <1>6, <1>8 DEF Fine, Same, Synced
<1>10. ~Synced(x) => Fine(y) /\ Same(x, y)
  BY <1>4, <1>6, <1>7 DEF Fine, Same, Synced
<1> QED
  BY <1>2, <1>3, <1>9, <1>10

-----------------------------------------------------------------------------
(* A client that is wanted.                                                *)

\* Whoever has a nickname, holds it.
LEMMA HeldBy ==
    ASSUME NEW x, NEW n, n # None
    PROVE  n \notin Held(x) => n \notin x.others /\ \A s \in Slots : x.nick[s] # n
BY DEF Held

\* What MakeNick finds is nobody else's.
LEMMA MakeNickFree ==
    ASSUME NEW x, NEW d \in Displays, NEW g \in Groups, NEW self
    PROVE  LET n == MakeNick(x, d, g, self) IN
           n = None \/ (n \in Nicks /\ n \notin Held(x) \ {self})
<1> DEFINE free == {t \in 0..MaxTag : <<d, g, t>> \notin Held(x) \ {self}}
           t0 == CHOOSE t \in free : \A u \in free : t <= u
<1>1. CASE free = {}
  <2>1. MakeNick(x, d, g, self) = None
    BY <1>1, Zenon DEF MakeNick
  <2> QED
    BY <2>1
<1>2. CASE free # {}
  <2>1. free \subseteq Nat
    BY TagAssumption
  <2>2. PICK t \in free : \A u \in free : <<u, t>> \notin LessThan
    <3> HIDE DEF free
    <3> QED
      BY <1>2, <2>1, WFMin, LessThanWF
  <2>3. \A u \in free : t <= u
    <3> SUFFICES ASSUME NEW u \in free PROVE t <= u
      OBVIOUS
    <3>1. t \in Nat /\ u \in Nat /\ <<u, t>> \notin LessThan
      BY <2>1, <2>2
    <3> QED
      BY <3>1 DEF LessThan
  <2>4. t0 \in free
    BY <2>3
  <2>5. MakeNick(x, d, g, self) = <<d, g, t0>>
    BY <1>2 DEF MakeNick
  <2> HIDE DEF t0
  <2> QED
    BY <2>4, <2>5 DEF Nicks
<1> QED
  BY <1>1, <1>2

\* A client that is given another nickname.
LEMMA RenamedFine ==
    ASSUME NEW x, Fine(x), NEW s \in Slots, x.nick[s] # None,
           NEW n \in Nicks, n # None, n \notin Held(x)
    PROVE  Fine(Renamed(x, s, n)) /\ Same(x, Renamed(x, s, n))
<1> DEFINE old == x.nick[s]
           y == [x EXCEPT !.nick[s] = n]
           C == {<<IF p[1] = old THEN n ELSE p[1], p[2]>> : p \in x.netChans}
           A == {IF p = old THEN n ELSE p : p \in x.netAway}
           N == (x.net \ {old}) \cup {n}
           z == [y EXCEPT !.net = N, !.netChans = C, !.netAway = A]
<1>1. /\ x \in World /\ x.nick \in [Slots -> Nicks \cup {None}] /\ x.chans \in [Slots -> SUBSET Keys]
      /\ x.netChans \subseteq Nicks \X Keys /\ x.netAway \subseteq Nicks /\ x.net \subseteq Nicks
      /\ old \in Nicks
  BY Fields DEF Fine, Shape
<1>2. y.net = x.net /\ y.netChans = x.netChans /\ y.netAway = x.netAway
  BY <1>1 DEF World
<1>3. Renamed(x, s, n) = Send(y, z)
  BY <1>2 DEF Renamed
<1>4. C \subseteq Nicks \X Keys /\ A \subseteq Nicks /\ N \subseteq Nicks
  BY <1>1
<1>5. \A m \in Nicks, k \in Keys :
         <<m, k>> \in C <=> \/ m # old /\ <<m, k>> \in x.netChans
                            \/ m = n /\ <<old, k>> \in x.netChans
  <2> SUFFICES ASSUME NEW m \in Nicks, NEW k \in Keys
               PROVE  <<m, k>> \in C <=> \/ m # old /\ <<m, k>> \in x.netChans
                                         \/ m = n /\ <<old, k>> \in x.netChans
    OBVIOUS
  <2>1. ASSUME <<m, k>> \in C
        PROVE  \/ m # old /\ <<m, k>> \in x.netChans
               \/ m = n /\ <<old, k>> \in x.netChans
    <3>1. PICK p \in x.netChans : <<m, k>> = <<IF p[1] = old THEN n ELSE p[1], p[2]>>
      BY <2>1
    <3>2. p = <<p[1], p[2]>> /\ k = p[2] /\ m = IF p[1] = old THEN n ELSE p[1]
      BY <1>1, <3>1
    <3>3. CASE p[1] = old
      BY <3>2, <3>3
    <3>4. CASE p[1] # old
      BY <3>2, <3>4
    <3> QED
      BY <3>3, <3>4
  <2>2. ASSUME m # old, <<m, k>> \in x.netChans PROVE <<m, k>> \in C
    BY <2>2
  <2>3. ASSUME m = n, <<old, k>> \in x.netChans PROVE <<m, k>> \in C
    BY <2>3
  <2> QED
    BY <2>1, <2>2, <2>3
<1>6. N = (x.net \ {old}) \cup {n}
  OBVIOUS
<1> HIDE DEF C, A, N, old
<1>7. /\ y \in World /\ Same(x, y) /\ y.nick = [x.nick EXCEPT ![s] = n] /\ y.others = x.others
      /\ y.chans = x.chans /\ y.reserved = x.reserved /\ y.qlines = x.qlines
  BY <1>1 DEF World, Same
<1> HIDE DEF y
<1>8. /\ z \in World /\ Same(y, z) /\ z.nick = y.nick /\ z.others = y.others
      /\ z.chans = y.chans /\ z.reserved = y.reserved /\ z.qlines = y.qlines
      /\ z.net = N /\ z.netChans = C
  BY <1>4, <1>7 DEF World, Same
<1> HIDE DEF z
<1>9. n \notin x.others /\ \A t \in Slots : x.nick[t] # n
  BY HeldBy
<1>10. ASSUME NEW u \in {y, z}
       PROVE  Shape(u) /\ Unique(u) /\ Bans(u)
  <2>1. /\ u \in World /\ Same(x, u) /\ u.nick = [x.nick EXCEPT ![s] = n] /\ u.others = x.others
        /\ u.chans = x.chans /\ u.reserved = x.reserved /\ u.qlines = x.qlines
    BY <1>7, <1>8, <1>10 DEF Same
  <2>2. Shape(u)
    BY <1>1, <2>1 DEF Fine, Shape
  <2>3. Unique(u)
    BY <1>1, <1>9, <2>1 DEF Fine, Unique
  <2>4. Bans(u)
    BY <2>1 DEF Fine, Bans, Same, Synced
  <2> QED
    BY <2>2, <2>3, <2>4
<1>11. \A t \in Slots : x.nick[t] = old <=> t = s
  BY <1>1 DEF Fine, Unique, old
<1>12. Known(z)
  BY <1>1, <1>6, <1>7, <1>8, <1>11 DEF Fine, Known, Same
<1>13. Shown(x) => Shown(z)
  <2> SUFFICES ASSUME Shown(x) PROVE Shown(z)
    OBVIOUS
  <2>1. z.nick = [x.nick EXCEPT ![s] = n] /\ z.chans = x.chans /\ z.net = N /\ z.netChans = C
    BY <1>7, <1>8
  <2>2. old # None
    BY DEF old
  <2>3. ASSUME NEW m \in Nicks
        PROVE  m \in z.net <=> m # None /\ \E t \in Slots : z.nick[t] = m
    BY <1>1, <1>6, <1>11, <2>1 DEF Shown
  <2>4. ASSUME NEW m \in Nicks, NEW k \in Keys
        PROVE  <<m, k>> \in z.netChans
                 <=> m # None /\ \E t \in Slots : z.nick[t] = m /\ k \in z.chans[t]
    <3>1. <<m, k>> \in z.netChans <=> \/ m # old /\ <<m, k>> \in x.netChans
                                      \/ m = n /\ <<old, k>> \in x.netChans
      BY <1>5, <2>1
    <3>2. <<old, k>> \in x.netChans <=> k \in x.chans[s]
      BY <1>1, <1>11, <2>2 DEF Shown
    <3>3. <<m, k>> \in x.netChans <=> m # None /\ \E t \in Slots : x.nick[t] = m /\ k \in x.chans[t]
      BY DEF Shown
    <3>4. \A t \in Slots : z.nick[t] = IF t = s THEN n ELSE x.nick[t]
      BY <1>1, <2>1
    <3>5. CASE m = n
      BY <1>9, <2>1, <3>1, <3>2, <3>3, <3>4, <3>5
    <3>6. CASE m # n
      BY <1>11, <2>1, <3>1, <3>3, <3>4, <3>6
    <3> QED
      BY <3>5, <3>6
  <2> QED
    BY <2>3, <2>4 DEF Shown
<1>14. Fine(z)
  BY <1>7, <1>8, <1>10, <1>12, <1>13 DEF Fine, Same, Synced
<1>15. y.uplink \notin {"burst", "synced"} => Fine(y)
  BY <1>10 DEF Fine, Synced, Known
<1> QED
  BY <1>3, <1>7, <1>8, <1>14, <1>15, SendCases, AlikeFine DEF Alike, Same

\* A client that is introduced.
LEMMA IntroducedFine ==
    ASSUME NEW x, Fine(x), NEW s \in Slots, x.nick[s] = None, NEW d \in Displays,
           NEW n \in Nicks, n # None, n \notin Held(x)
    PROVE  LET z == [x EXCEPT !.nick[s] = n, !.shown[s] = d]
               v == Send(z, [z EXCEPT !.net = @ \cup {n}])
           IN  Fine(v) /\ Same(x, v)
<1> DEFINE y == [x EXCEPT !.nick[s] = n, !.shown[s] = d]
           z == [y EXCEPT !.net = @ \cup {n}]
<1>1. /\ x \in World /\ x.nick \in [Slots -> Nicks \cup {None}] /\ x.chans \in [Slots -> SUBSET Keys]
      /\ x.netChans \subseteq Nicks \X Keys /\ x.net \subseteq Nicks
  BY Fields DEF Fine, Shape
<1>2. /\ y \in World /\ Same(x, y) /\ y.nick = [x.nick EXCEPT ![s] = n] /\ y.others = x.others
      /\ y.chans = x.chans /\ y.reserved = x.reserved /\ y.qlines = x.qlines
      /\ y.net = x.net /\ y.netChans = x.netChans
  <2> DEFINE N == [x.nick EXCEPT ![s] = n]
             D == [x.shown EXCEPT ![s] = d]
  <2>1. N \in [Slots -> Nicks \cup {None}] /\ D \in [Slots -> Displays \cup {None}]
    BY <1>1, Fields
  <2>2. y = [x EXCEPT !.nick = N, !.shown = D]
    OBVIOUS
  <2> HIDE DEF N, D, y
  <2>3. y \in World
    <3>1. x \in World
      BY <1>1
    <3> QED
      BY <2>1, <2>2, <3>1 DEF World
  <2>4. /\ Same(x, y) /\ y.nick = N /\ y.others = x.others
        /\ y.chans = x.chans /\ y.reserved = x.reserved /\ y.qlines = x.qlines
        /\ y.net = x.net /\ y.netChans = x.netChans
    BY <1>1, <2>2 DEF World, Same
  <2> QED
    BY <2>3, <2>4 DEF N
<1> HIDE DEF y
<1>3. /\ z \in World /\ Same(y, z) /\ z.nick = y.nick /\ z.others = y.others
      /\ z.chans = y.chans /\ z.reserved = y.reserved /\ z.qlines = y.qlines
      /\ z.net = y.net \cup {n} /\ z.netChans = y.netChans
  <2> DEFINE O == y.net \cup {n}
  <2>1. O \subseteq Nicks
    BY <1>1, <1>2
  <2>2. z = [y EXCEPT !.net = O]
    OBVIOUS
  <2> HIDE DEF O, z
  <2>3. z \in World
    BY <1>2, <2>1, <2>2 DEF World
  <2>4. /\ Same(y, z) /\ z.nick = y.nick /\ z.others = y.others
        /\ z.chans = y.chans /\ z.reserved = y.reserved /\ z.qlines = y.qlines
        /\ z.net = O /\ z.netChans = y.netChans
    BY <1>2, <2>2 DEF World, Same
  <2> QED
    BY <2>3, <2>4 DEF O
<1> HIDE DEF z
<1>4. n \notin x.others /\ \A t \in Slots : x.nick[t] # n
  BY HeldBy
<1>5. ASSUME NEW u \in {y, z}
      PROVE  Shape(u) /\ Unique(u) /\ Bans(u)
  <2>1. /\ u \in World /\ Same(x, u) /\ u.nick = [x.nick EXCEPT ![s] = n] /\ u.others = x.others
        /\ u.chans = x.chans /\ u.reserved = x.reserved /\ u.qlines = x.qlines
    BY <1>2, <1>3, <1>5 DEF Same
  <2>2. Shape(u)
    BY <1>1, <2>1 DEF Fine, Shape
  <2>3. Unique(u)
    BY <1>1, <1>4, <2>1 DEF Fine, Unique
  <2>4. Bans(u)
    BY <2>1 DEF Fine, Bans, Same, Synced
  <2> QED
    BY <2>2, <2>3, <2>4
<1>6. Known(z)
  BY <1>1, <1>2, <1>3 DEF Fine, Known, Same
<1>7. Shown(x) => Shown(z)
  <2> SUFFICES ASSUME Shown(x) PROVE Shown(z)
    OBVIOUS
  <2>1. z.nick = [x.nick EXCEPT ![s] = n] /\ z.chans = x.chans
        /\ z.net = x.net \cup {n} /\ z.netChans = x.netChans /\ x.chans[s] = {}
    BY <1>2, <1>3 DEF Fine, Shape
  <2>2. \A t \in Slots : z.nick[t] = IF t = s THEN n ELSE x.nick[t]
    BY <1>1, <2>1
  <2>3. ASSUME NEW m \in Nicks
        PROVE  m \in z.net <=> m # None /\ \E t \in Slots : z.nick[t] = m
    BY <1>1, <2>1, <2>2 DEF Shown
  <2>4. ASSUME NEW m \in Nicks, NEW k \in Keys
        PROVE  <<m, k>> \in z.netChans
                 <=> m # None /\ \E t \in Slots : z.nick[t] = m /\ k \in z.chans[t]
    BY <1>4, <2>1, <2>2 DEF Shown
  <2> QED
    BY <2>3, <2>4 DEF Shown
<1>8. Fine(z)
  BY <1>2, <1>3, <1>5, <1>6, <1>7 DEF Fine, Same, Synced
<1>9. y.uplink \notin {"burst", "synced"} => Fine(y)
  BY <1>5 DEF Fine, Synced, Known
<1>10. Fine(Send(y, z)) /\ Same(x, Send(y, z))
  BY <1>2, <1>3, <1>8, <1>9, SendCases, AlikeFine DEF Alike, Same
<1> QED
  BY <1>10 DEF y, z

\* A display name or the state of the link.
LEMMA LabelFine ==
    ASSUME NEW x, Fine(x), NEW s \in Slots, NEW d \in Displays
    PROVE  /\ Fine([x EXCEPT !.shown[s] = d]) /\ Same(x, [x EXCEPT !.shown[s] = d])
           /\ Fine([x EXCEPT !.link = "up"]) /\ Alike(x, [x EXCEPT !.link = "up"])
           /\ [x EXCEPT !.link = "up"].quitting = x.quitting
           /\ [x EXCEPT !.link = "up"].shown = x.shown
<1> DEFINE y == [x EXCEPT !.shown[s] = d]
           z == [x EXCEPT !.link = "up"]
<1>1. x \in World
  BY DEF Fine, Shape
<1>2. y \in World /\ Alike(x, y)
  BY <1>1 DEF World, Alike, Same
<1>3. z \in World /\ Alike(x, z) /\ z.quitting = x.quitting /\ z.shown = x.shown
  BY <1>1 DEF World, Alike, Same
<1> QED
  BY <1>2, <1>3, AlikeFine DEF Alike

\* The client of a member for a bridge.
LEMMA EnsureFine ==
    ASSUME NEW x, Fine(x), NEW k \in Keys, x.group[k] # None, NEW m \in Members, NEW d \in Displays
    PROVE  Fine(EnsureClient(x, k, m, d)) /\ Same(x, EnsureClient(x, k, m, d))
<1> DEFINE s == <<x.group[k], m>>
           n == MakeNick(x, d, x.group[k], x.nick[s])
           y == [x EXCEPT !.link = "up"]
           r == ReserveNick(y, k, n)
           z == [r EXCEPT !.nick[s] = n, !.shown[s] = d]
           v == Send(z, [z EXCEPT !.net = @ \cup {n}])
           u == Renamed(ReserveNick(x, k, n), s, n)
<1>1. x.group[k] \in Groups /\ x \in World
  BY Fields DEF Fine, Shape
<1>2. s \in Slots
  BY <1>1 DEF Slots
<1>3. n = None \/ (n \in Nicks /\ n \notin Held(x) \ {x.nick[s]})
  BY <1>1, MakeNickFree
<1>4. CASE x.nick[s] # None
  <2>1. \/ EnsureClient(x, k, m, d) = x
        \/ EnsureClient(x, k, m, d) = [x EXCEPT !.shown[s] = d]
        \/ /\ n \notin {None, x.nick[s]}
           /\ EnsureClient(x, k, m, d) = [u EXCEPT !.shown[s] = d]
    BY <1>4 DEF EnsureClient
  <2>2. ASSUME n \notin {None, x.nick[s]}
        PROVE  Fine([u EXCEPT !.shown[s] = d]) /\ Same(x, [u EXCEPT !.shown[s] = d])
    <3> DEFINE q == ReserveNick(x, k, n)
    <3>1. n \in Nicks /\ n # None /\ n \notin Held(x)
      BY <1>3, <2>2
    <3> HIDE DEF n, s
    <3>2. /\ Fine(q) /\ Same(x, q) /\ q.nick = x.nick /\ q.others = x.others
          /\ q.quitting = x.quitting
      BY <3>1, ReserveFine
    <3>3. Held(q) = Held(x)
      BY <3>2 DEF Held
    <3> HIDE DEF q
    <3>4. Fine(Renamed(q, s, n)) /\ Same(q, Renamed(q, s, n))
      BY <1>2, <1>4, <3>1, <3>2, <3>3, RenamedFine
    <3>5. Fine(u) /\ Same(x, u)
      BY <3>2, <3>4 DEF q, Same
    <3> HIDE DEF u
    <3> QED
      BY <1>2, <3>5, LabelFine DEF Same
  <2>3. Fine([x EXCEPT !.shown[s] = d]) /\ Same(x, [x EXCEPT !.shown[s] = d]) /\ Same(x, x)
    BY <1>2, LabelFine DEF Same
  <2> HIDE DEF u, s, n
  <2> QED
    BY <2>1, <2>2, <2>3
<1>5. CASE x.nick[s] = None
  <2>1. \/ EnsureClient(x, k, m, d) = x
        \/ EnsureClient(x, k, m, d) = y
        \/ n # None /\ EnsureClient(x, k, m, d) = v
    BY <1>5 DEF EnsureClient
  <2>2. Fine(y) /\ Alike(x, y) /\ y.quitting = x.quitting /\ y.shown = x.shown
    BY <1>2, LabelFine
  <2> HIDE DEF y
  <2>3. ASSUME n # None
        PROVE  Fine(v) /\ Same(x, v)
    <3>1. n \in Nicks /\ n \notin Held(x)
      <4>1. \A q \in Held(x) : q # None \/ q \in {p[1] : p \in x.quitting} \cup x.others
        BY DEF Held
      <4> QED
        BY <1>3, <1>5, <2>3
    <3> HIDE DEF n, s
    <3>2. /\ Fine(r) /\ Same(y, r) /\ r.nick = y.nick /\ r.others = y.others
          /\ r.quitting = y.quitting
      <4>1. y.group[k] # None
        BY <2>2 DEF Alike, Same
      <4> QED
        BY <2>2, <3>1, <4>1, ReserveFine
    <3>3. Held(r) = Held(x) /\ r.nick[s] = None
      BY <1>5, <2>2, <3>2 DEF Held, Alike
    <3> HIDE DEF r
    <3>4. Fine(v) /\ Same(r, v)
      BY <1>2, <2>3, <3>1, <3>2, <3>3, IntroducedFine
    <3> QED
      BY <2>2, <3>2, <3>4 DEF Same, Alike
  <2>4. Same(x, x) /\ Same(x, y)
    BY <2>2 DEF Same, Alike
  <2> HIDE DEF v, s, n
  <2> QED
    BY <2>1, <2>2, <2>3, <2>4
<1> QED
  BY <1>4, <1>5

\* The client of a member in the channel, with the member's away state.
LEMMA SyncMemberFine ==
    ASSUME NEW x, Fine(x), NEW k \in Keys, x.group[k] # None,
           NEW m \in Members, x.roster[m] # None
    PROVE  Fine(SyncMember(x, k, m)) /\ Same(x, SyncMember(x, k, m))
<1> DEFINE s == <<x.group[k], m>>
           d == x.roster[m]
           y == EnsureClient(x, k, m, d)
           z == EnsureJoin(y, s, k)
           a == m \in x.absent
<1>1. s \in Slots /\ d \in Displays
  BY Fields DEF Fine, Shape, Slots
<1>2. SyncMember(x, k, m) = SetClientAway(z, s, a)
  BY DEF SyncMember
<1>3. a \in BOOLEAN
  OBVIOUS
<1> HIDE DEF s, d, a
<1>4. Fine(y) /\ Same(x, y)
  BY <1>1, EnsureFine
<1> HIDE DEF y
<1>5. Fine(z) /\ Same(y, z)
  BY <1>1, <1>4, JoinFine
<1> HIDE DEF z
<1>6. Fine(SetClientAway(z, s, a)) /\ Same(z, SetClientAway(z, s, a))
  BY <1>1, <1>3, <1>5, AwayFine
<1> QED
  BY <1>2, <1>4, <1>5, <1>6 DEF Same

\* A client that is removed if there is one.
LEMMA RemoveAnyFine ==
    ASSUME NEW x, Fine(x), NEW s \in Slots
    PROVE  Fine(RemoveClient(x, s)) /\ Same(x, RemoveClient(x, s))
<1>1. CASE x.nick[s] = None
  BY <1>1 DEF RemoveClient, Same
<1>2. CASE x.nick[s] # None
  BY <1>2, RemoveFine
<1> QED
  BY <1>1, <1>2

\* A client that leaves a channel, and goes when it was the last.
LEMMA RetireFine ==
    ASSUME NEW x, Fine(x), NEW s \in Slots, NEW k \in Keys
    PROVE  Fine(RetireClient(x, s, k)) /\ Same(x, RetireClient(x, s, k))
<1> DEFINE y == PartClient(x, s, k)
<1>1. Fine(y) /\ Same(x, y)
  BY PartFine
<1>2. RetireClient(x, s, k) \in {y, RemoveClient(y, s)}
  BY DEF RetireClient
<1> HIDE DEF y
<1>3. Fine(RemoveClient(y, s)) /\ Same(y, RemoveClient(y, s))
  BY <1>1, RemoveAnyFine
<1> QED
  BY <1>1, <1>2, <1>3 DEF Same

-----------------------------------------------------------------------------
(* What is done to channels and to nicknames that linger.                  *)

\* The nicknames in services' user list that no client of ours has.
Out(x) == {q[1] : q \in x.quitting} \cup x.others

\* From x to y clients left channels or were retired.
Shrunk(x, y) ==
    /\ y.others = x.others /\ Held(y) \subseteq Held(x)
    /\ \A s \in Slots : y.chans[s] \subseteq x.chans[s]
    /\ IsFiniteSet(x.quitting) => IsFiniteSet(y.quitting)

\* From x to y clients were introduced, and joined channels under their suffix.
Grown(x, y) ==
    /\ y.others = x.others /\ y.quitting = x.quitting
    /\ \A s \in Slots :
          /\ x.chans[s] \subseteq y.chans[s]
          /\ \A k \in y.chans[s] : k \in x.chans[s] \/ x.group[k] = s[1]

\* Some alternative of every nickname is left, however many clients there are.
Room(x) == IsFiniteSet(Out(x)) /\ Cardinality(Out(x)) + Cardinality(Slots) <= MaxTag

\* A client that parts loses the channel and nothing else.
LEMMA PartChans ==
    ASSUME NEW x \in World, NEW s \in Slots, NEW k \in Keys
    PROVE  LET y == PartClient(x, s, k) IN
           /\ y.nick = x.nick /\ y.others = x.others /\ y.quitting = x.quitting
           /\ y.chans = [x.chans EXCEPT ![s] = @ \ {k}]
<1> DEFINE y == [x EXCEPT !.chans[s] = @ \ {k}]
           z == [y EXCEPT !.netChans = @ \ {<<x.nick[s], k>>}]
<1>0. x.chans \in [Slots -> SUBSET Keys]
  BY Fields
<1>1. CASE k \notin x.chans[s]
  BY <1>0, <1>1 DEF PartClient
<1>2. CASE k \in x.chans[s]
  <2>1. /\ y \in World /\ y.nick = x.nick /\ y.others = x.others /\ y.quitting = x.quitting
        /\ y.chans = [x.chans EXCEPT ![s] = @ \ {k}]
    BY DEF World
  <2>2. PartClient(x, s, k) = Send(y, z)
    BY <1>2 DEF PartClient
  <2> HIDE DEF y
  <2>3. /\ z.nick = y.nick /\ z.others = y.others /\ z.quitting = y.quitting /\ z.chans = y.chans
    BY <2>1 DEF World
  <2> HIDE DEF z
  <2> QED
    BY <2>1, <2>2, <2>3, SendCases DEF Alike
<1> QED
  BY <1>1, <1>2

\* A client joins if there is one.
LEMMA JoinChans ==
    ASSUME NEW x \in World, NEW s \in Slots, NEW k \in Keys
    PROVE  LET y == EnsureJoin(x, s, k) IN
           /\ y.nick = x.nick /\ y.others = x.others /\ y.quitting = x.quitting
           /\ y.chans = IF x.nick[s] = None THEN x.chans
                        ELSE [x.chans EXCEPT ![s] = @ \cup {k}]
<1> DEFINE y == [x EXCEPT !.chans[s] = @ \cup {k}]
           z == [y EXCEPT !.netChans = @ \cup {<<x.nick[s], k>>}]
<1>0. x.chans \in [Slots -> SUBSET Keys]
  BY Fields
<1>1. CASE x.nick[s] = None \/ k \in x.chans[s]
  <2>1. k \in x.chans[s] => [x.chans EXCEPT ![s] = @ \cup {k}] = x.chans
    BY <1>0
  <2> QED
    BY <1>1, <2>1 DEF EnsureJoin
<1>2. CASE ~(x.nick[s] = None \/ k \in x.chans[s])
  <2>1. /\ y \in World /\ y.nick = x.nick /\ y.others = x.others /\ y.quitting = x.quitting
        /\ y.chans = [x.chans EXCEPT ![s] = @ \cup {k}]
    <3> DEFINE C == [x.chans EXCEPT ![s] = @ \cup {k}]
    <3>1. C \in [Slots -> SUBSET Keys]
      BY <1>0
    <3>2. y = [x EXCEPT !.chans = C]
      OBVIOUS
    <3> HIDE DEF C, y
    <3>3. y \in World
      BY <3>1, <3>2 DEF World
    <3>4. y.nick = x.nick /\ y.others = x.others /\ y.quitting = x.quitting /\ y.chans = C
      BY <3>2 DEF World
    <3> QED
      BY <3>3, <3>4 DEF C
  <2>2. EnsureJoin(x, s, k) = Send(y, z)
    BY <1>2 DEF EnsureJoin
  <2> HIDE DEF y
  <2>3. /\ z.nick = y.nick /\ z.others = y.others /\ z.quitting = y.quitting /\ z.chans = y.chans
    BY <2>1 DEF World
  <2> HIDE DEF z
  <2> QED
    BY <1>2, <2>1, <2>2, <2>3, SendCases DEF Alike
<1> QED
  BY <1>1, <1>2

\* An away mark changes nothing else of services' records.
LEMMA AwayChans ==
    ASSUME NEW x \in World, NEW s \in Slots, NEW a \in BOOLEAN
    PROVE  LET y == SetClientAway(x, s, a) IN
           /\ y.nick = x.nick /\ y.others = x.others /\ y.quitting = x.quitting
           /\ y.chans = x.chans
BY DEF SetClientAway, World

\* A client that is gone has left its channels, and its nickname lingers.
LEMMA RemoveChans ==
    ASSUME NEW x \in World, NEW s \in Slots, x.nick[s] # None,
           NEW y \in {Killed(x, s), RemoveClient(x, s)}
    PROVE  /\ y.nick = [x.nick EXCEPT ![s] = None] /\ y.others = x.others
           /\ y.quitting = x.quitting \cup {<<x.nick[s], x.chans[s]>>}
           /\ y.chans = [x.chans EXCEPT ![s] = {}]
<1> DEFINE q == Quit(x, s)
           g == Gone(q, x.nick[s])
<1>1. /\ q.nick = [x.nick EXCEPT ![s] = None] /\ q.others = x.others
      /\ q.quitting = x.quitting \cup {<<x.nick[s], x.chans[s]>>}
      /\ q.chans = [x.chans EXCEPT ![s] = {}]
  BY DEF World, Quit
<1>2. /\ g.nick = q.nick /\ g.others = q.others
      /\ g.quitting = q.quitting /\ g.chans = q.chans
  BY DEF World, Quit, Gone
<1>3. y \in {q, g}
  BY DEF Killed, RemoveClient
<1> HIDE DEF q, g
<1> QED
  BY <1>1, <1>2, <1>3

\* Both take from what there is.
LEMMA RemoveShrinks ==
    ASSUME NEW x \in World, NEW s \in Slots, x.nick[s] # None,
           NEW y \in {Killed(x, s), RemoveClient(x, s)}
    PROVE  Shrunk(x, y)
<1> DEFINE e == <<x.nick[s], x.chans[s]>>
<1>1. /\ y.nick = [x.nick EXCEPT ![s] = None] /\ y.others = x.others
      /\ y.quitting = x.quitting \cup {e} /\ e[1] = x.nick[s]
      /\ y.chans = [x.chans EXCEPT ![s] = {}]
  BY RemoveChans
<1>2. x.nick \in [Slots -> Nicks \cup {None}] /\ x.chans \in [Slots -> SUBSET Keys]
  BY Fields
<1> HIDE DEF e
<1>3. ASSUME NEW n \in Held(y) PROVE n \in Held(x)
  <2>1. CASE \E t \in Slots : n = y.nick[t] /\ n # None
    BY <1>1, <1>2, <2>1 DEF Held
  <2>2. CASE \E q \in y.quitting : n = q[1]
    BY <1>1, <2>2 DEF Held
  <2>3. CASE n \in y.others
    BY <1>1, <2>3 DEF Held
  <2> QED
    BY <1>3, <2>1, <2>2, <2>3 DEF Held
<1>4. \A t \in Slots : y.chans[t] \subseteq x.chans[t]
  BY <1>1, <1>2
<1>5. IsFiniteSet(x.quitting) => IsFiniteSet(y.quitting)
  BY <1>1, FS_AddElement
<1> QED
  BY <1>1, <1>3, <1>4, <1>5 DEF Shrunk

\* A client that is removed if there is one, and no other.
LEMMA RemoveAnyShrinks ==
    ASSUME NEW x \in World, NEW s \in Slots
    PROVE  /\ Shrunk(x, RemoveClient(x, s))
           /\ \A t \in Slots : t # s => RemoveClient(x, s).chans[t] = x.chans[t]
<1>0. x.chans \in [Slots -> SUBSET Keys]
  BY Fields
<1>1. CASE x.nick[s] = None
  BY <1>1 DEF RemoveClient, Shrunk
<1>2. CASE x.nick[s] # None
  <2> DEFINE y == RemoveClient(x, s)
  <2>1. y \in {Killed(x, s), y}
    OBVIOUS
  <2>2. Shrunk(x, y) /\ y.chans = [x.chans EXCEPT ![s] = {}]
    BY <1>2, <2>1, RemoveShrinks, RemoveChans
  <2> HIDE DEF y
  <2>3. \A t \in Slots : t # s => y.chans[t] = x.chans[t]
    BY <1>0, <2>2
  <2> QED
    BY <2>2, <2>3 DEF y
<1> QED
  BY <1>1, <1>2

\* What takes from what takes takes.
LEMMA ShrunkThen ==
    ASSUME NEW x, NEW y, NEW z, Shrunk(x, y), Shrunk(y, z)
    PROVE  Shrunk(x, z)
BY DEF Shrunk

\* A client that parts.
LEMMA PartShrinks ==
    ASSUME NEW x \in World, NEW s \in Slots, NEW k \in Keys
    PROVE  Shrunk(x, PartClient(x, s, k))
<1> DEFINE y == PartClient(x, s, k)
<1>1. /\ y.nick = x.nick /\ y.others = x.others /\ y.quitting = x.quitting
      /\ y.chans = [x.chans EXCEPT ![s] = @ \ {k}] /\ x.chans \in [Slots -> SUBSET Keys]
  BY PartChans, Fields
<1> HIDE DEF y
<1>2. Held(y) = Held(x)
  BY <1>1 DEF Held
<1>3. Shrunk(x, y)
  BY <1>1, <1>2 DEF Shrunk
<1> QED
  BY <1>3 DEF y

\* A client that leaves a channel, and goes when it was the last.
LEMMA RetireShrinks ==
    ASSUME NEW x, Fine(x), NEW s \in Slots, NEW k \in Keys
    PROVE  Shrunk(x, RetireClient(x, s, k)) /\ k \notin RetireClient(x, s, k).chans[s]
<1> DEFINE y == PartClient(x, s, k)
<1>1. Fine(y) /\ x \in World
  BY PartFine DEF Fine, Shape
<1>2. Shrunk(x, y) /\ y.chans = [x.chans EXCEPT ![s] = @ \ {k}] /\ x.chans \in [Slots -> SUBSET Keys]
  BY <1>1, PartShrinks, PartChans, Fields
<1>3. RetireClient(x, s, k) \in {y, RemoveClient(y, s)}
  BY DEF RetireClient
<1> HIDE DEF y
<1>4. k \notin y.chans[s]
  BY <1>2
<1>5. Shrunk(y, RemoveClient(y, s))
  BY <1>1, RemoveAnyShrinks DEF Fine, Shape
<1>6. Shrunk(x, RemoveClient(y, s)) /\ RemoveClient(y, s).chans[s] \subseteq y.chans[s]
  BY <1>2, <1>5, ShrunkThen DEF Shrunk
<1> QED
  BY <1>2, <1>3, <1>4, <1>6

\* There are finitely many slots.
LEMMA SlotsFinite == IsFiniteSet(Slots)
BY FiniteAssumption, FS_Product DEF Slots

\* Who has what nickname is one of our clients or Out.
LEMMA HeldBound ==
    ASSUME NEW x \in World, IsFiniteSet(Out(x))
    PROVE  /\ IsFiniteSet(Held(x)) /\ Cardinality(Held(x)) \in Nat
           /\ Cardinality(Held(x)) <= Cardinality(Slots) + Cardinality(Out(x))
<1> DEFINE N == {x.nick[s] : s \in Slots}
<1>1. x.nick \in Surjection(Slots, N)
  BY Fields DEF Surjection
<1>2. IsFiniteSet(Slots) /\ Cardinality(Slots) \in Nat /\ Cardinality(Out(x)) \in Nat
  BY SlotsFinite, FS_CardinalityType
<1>3. Held(x) \subseteq N \cup Out(x)
  BY DEF Held, Out
<1> HIDE DEF N
<1>4. IsFiniteSet(N) /\ Cardinality(N) <= Cardinality(Slots) /\ Cardinality(N) \in Nat
  BY <1>1, <1>2, FS_Surjection, FS_CardinalityType
<1>5. /\ IsFiniteSet(N \cup Out(x)) /\ IsFiniteSet(N \cap Out(x))
      /\ Cardinality(N \cup Out(x)) = Cardinality(N) + Cardinality(Out(x)) - Cardinality(N \cap Out(x))
  BY <1>4, FS_Union, FS_Intersection
<1>6. Cardinality(N \cap Out(x)) \in Nat
  BY <1>5, FS_CardinalityType
<1>7. IsFiniteSet(Held(x)) /\ Cardinality(Held(x)) <= Cardinality(N \cup Out(x))
  BY <1>3, <1>5, FS_Subset
<1>8. Cardinality(Held(x)) \in Nat
  BY <1>7, FS_CardinalityType
<1> QED
  BY <1>2, <1>4, <1>5, <1>6, <1>7, <1>8

\* Not every alternative of a nickname can be held.
LEMMA RoomLeft ==
    ASSUME NEW x \in World, Room(x), NEW d \in Displays, NEW g \in Groups
    PROVE  \E t \in 0..MaxTag : <<d, g, t>> \notin Held(x)
<1> SUFFICES ASSUME \A t \in 0..MaxTag : <<d, g, t>> \in Held(x) PROVE FALSE
  OBVIOUS
<1> DEFINE f == [t \in 0..MaxTag |-> <<d, g, t>>]
<1>1. f \in Injection(0..MaxTag, Held(x))
  BY DEF Injection, IsInjective
<1>2. /\ IsFiniteSet(Held(x)) /\ Cardinality(Held(x)) \in Nat
      /\ Cardinality(Held(x)) <= Cardinality(Slots) + Cardinality(Out(x))
  BY HeldBound DEF Room
<1> HIDE DEF f
<1>3. Cardinality(0..MaxTag) <= Cardinality(Held(x))
  BY <1>1, <1>2, FS_Injection
<1>4. Cardinality(0..MaxTag) = MaxTag + 1
  BY TagAssumption, FS_Interval
<1>5. Cardinality(Slots) \in Nat /\ Cardinality(Out(x)) \in Nat
  BY SlotsFinite, FS_CardinalityType DEF Room
<1> QED
  BY <1>2, <1>3, <1>4, <1>5, TagAssumption DEF Room

\* So MakeNick finds one.
LEMMA MakeNickFinds ==
    ASSUME NEW x \in World, Room(x), NEW d \in Displays, NEW g \in Groups, NEW self
    PROVE  MakeNick(x, d, g, self) # None
<1> DEFINE free == {t \in 0..MaxTag : <<d, g, t>> \notin Held(x) \ {self}}
           t0 == CHOOSE t \in free : \A u \in free : t <= u
<1>1. free # {}
  BY RoomLeft
<1>2. free \subseteq Nat
  BY TagAssumption
<1>3. PICK t \in free : \A u \in free : <<u, t>> \notin LessThan
  <2> HIDE DEF free
  <2> QED
    BY <1>1, <1>2, WFMin, LessThanWF
<1>4. \A u \in free : t <= u
  <2> SUFFICES ASSUME NEW u \in free PROVE t <= u
    OBVIOUS
  <2>1. t \in Nat /\ u \in Nat /\ <<u, t>> \notin LessThan
    BY <1>2, <1>3
  <2> QED
    BY <2>1 DEF LessThan
<1>5. t0 \in free
  BY <1>4
<1>6. MakeNick(x, d, g, self) = <<d, g, t0>>
  BY <1>1 DEF MakeNick
<1> HIDE DEF t0
<1>7. <<d, g, t0>> \in Nicks
  BY <1>5 DEF Nicks
<1> QED
  BY <1>6, <1>7, NoneAssumption

\* A new nickname changes nothing else of services' records.
LEMMA RenamedChans ==
    ASSUME NEW x \in World, NEW s \in Slots, NEW n \in Nicks
    PROVE  LET y == Renamed(x, s, n) IN
           /\ y.nick = [x.nick EXCEPT ![s] = n] /\ y.others = x.others
           /\ y.quitting = x.quitting /\ y.chans = x.chans
<1> DEFINE old == x.nick[s]
           y == [x EXCEPT !.nick[s] = n]
           z == [y EXCEPT !.net = (@ \ {old}) \cup {n},
                          !.netChans = {<<IF p[1] = old THEN n ELSE p[1], p[2]>> : p \in @},
                          !.netAway = {IF p = old THEN n ELSE p : p \in @}]
<1>1. /\ y \in World /\ y.nick = [x.nick EXCEPT ![s] = n] /\ y.others = x.others
      /\ y.quitting = x.quitting /\ y.chans = x.chans
  BY DEF World
<1>2. Renamed(x, s, n) = Send(y, z)
  BY DEF Renamed
<1> HIDE DEF y
<1>3. z.nick = y.nick /\ z.others = y.others /\ z.quitting = y.quitting /\ z.chans = y.chans
  BY <1>1 DEF World
<1> HIDE DEF z
<1> QED
  BY <1>1, <1>2, <1>3, SendCases DEF Alike

\* Neither does a display name.
LEMMA LabelChans ==
    ASSUME NEW x \in World, NEW s \in Slots, NEW d
    PROVE  LET y == [x EXCEPT !.shown[s] = d] IN
           y.nick = x.nick /\ y.others = x.others /\ y.quitting = x.quitting /\ y.chans = x.chans
BY DEF World

\* A client that is wanted is in no other channel for it, and there is one when
\* the uplink is synced and there is room.
LEMMA EnsureChans ==
    ASSUME NEW x, Fine(x), NEW k \in Keys, x.group[k] # None, NEW m \in Members, NEW d \in Displays
    PROVE  LET y == EnsureClient(x, k, m, d) IN
           /\ y.others = x.others /\ y.quitting = x.quitting /\ y.chans = x.chans
           /\ Synced(x) /\ Room(x) => y.nick[<<x.group[k], m>>] # None
<1> DEFINE s == <<x.group[k], m>>
           n == MakeNick(x, d, x.group[k], x.nick[s])
           y == [x EXCEPT !.link = "up"]
           r == ReserveNick(y, k, n)
           z == [r EXCEPT !.nick[s] = n, !.shown[s] = d]
           v == Send(z, [z EXCEPT !.net = @ \cup {n}])
           q == ReserveNick(x, k, n)
           u == Renamed(q, s, n)
           e == EnsureClient(x, k, m, d)
<1>1. x.group[k] \in Groups /\ x \in World /\ x.nick \in [Slots -> Nicks \cup {None}]
  BY Fields DEF Fine, Shape
<1>2. s \in Slots
  BY <1>1 DEF Slots
<1>3. n = None \/ (n \in Nicks /\ n \notin Held(x) \ {x.nick[s]})
  BY <1>1, MakeNickFree
<1>4. Room(x) => n # None
  BY <1>1, MakeNickFinds
<1>5. CASE x.nick[s] # None
  <2>1. \/ e = x
        \/ e = [x EXCEPT !.shown[s] = d]
        \/ n \notin {None, x.nick[s]} /\ e = [u EXCEPT !.shown[s] = d]
    BY <1>5 DEF EnsureClient
  <2> HIDE DEF e, n, s
  <2>2. ASSUME n \in Nicks, n # None, n \notin Held(x)
        PROVE  LET l == [u EXCEPT !.shown[s] = d] IN
               /\ l.others = x.others /\ l.quitting = x.quitting /\ l.chans = x.chans
               /\ l.nick[s] # None
    <3>1. Fine(q) /\ q.others = x.others /\ q.quitting = x.quitting /\ q.chans = x.chans
          /\ q.nick = x.nick
      BY <2>2, ReserveFine
    <3>0. Held(q) = Held(x)
      BY <3>1 DEF Held
    <3> HIDE DEF q
    <3>2. q \in World
      BY <3>1 DEF Fine, Shape
    <3>3. /\ u.nick = [q.nick EXCEPT ![s] = n] /\ u.others = q.others
          /\ u.quitting = q.quitting /\ u.chans = q.chans
      BY <1>2, <2>2, <3>2, RenamedChans
    <3>4. u \in World
      BY <1>2, <1>5, <2>2, <3>0, <3>1, RenamedFine DEF Fine, Shape
    <3> HIDE DEF u
    <3> QED
      BY <1>1, <1>2, <2>2, <3>1, <3>3, <3>4, LabelChans
  <2> DEFINE P(l) == /\ l.others = x.others /\ l.quitting = x.quitting /\ l.chans = x.chans
                     /\ l.nick[s] # None
             l0 == [x EXCEPT !.shown[s] = d]
             l1 == [u EXCEPT !.shown[s] = d]
  <2>3. P(x)
    BY <1>5
  <2>4. P(l0)
    BY <1>1, <1>2, <1>5, LabelChans
  <2>5. n \notin {None, x.nick[s]} => P(l1)
    <3> SUFFICES ASSUME n \notin {None, x.nick[s]} PROVE P(l1)
      OBVIOUS
    <3>1. n \in Nicks /\ n # None /\ n \notin Held(x)
      BY <1>3
    <3> QED
      BY <2>2, <3>1
  <2> HIDE DEF u, l0, l1
  <2>6. P(e)
    BY <2>1, <2>3, <2>4, <2>5 DEF l0, l1
  <2> QED
    BY <2>6 DEF e, s
<1>6. CASE x.nick[s] = None
  <2>1. \/ ~Synced(x) /\ e = x
        \/ n = None /\ e = y
        \/ n # None /\ e = v
    BY <1>6 DEF EnsureClient
  <2> HIDE DEF e, n, s
  <2>2. Fine(y) /\ Alike(x, y) /\ y.quitting = x.quitting
    BY <1>2, LabelFine
  <2> HIDE DEF y
  <2>3. ASSUME n \in Nicks, n # None
        PROVE  /\ v.others = x.others /\ v.quitting = x.quitting /\ v.chans = x.chans
               /\ v.nick[s] # None
    <3>1. Fine(r) /\ r.others = y.others /\ r.quitting = y.quitting /\ r.chans = y.chans
          /\ r.nick = y.nick
      <4>1. y.group[k] # None
        BY <2>2 DEF Alike, Same
      <4> QED
        BY <2>2, <2>3, <4>1, ReserveFine
    <3> HIDE DEF r
    <3>2. r \in World
      BY <3>1 DEF Fine, Shape
    <3>3. /\ z \in World /\ z.nick = [r.nick EXCEPT ![s] = n] /\ z.others = r.others
          /\ z.quitting = r.quitting /\ z.chans = r.chans
      BY <1>2, <2>3, <3>2 DEF World
    <3> DEFINE h == [z EXCEPT !.net = @ \cup {n}]
    <3> HIDE DEF z
    <3>4. h.nick = z.nick /\ h.others = z.others /\ h.quitting = z.quitting /\ h.chans = z.chans
      BY <3>3 DEF World
    <3>5. v = Send(z, h)
      OBVIOUS
    <3> HIDE DEF h, v
    <3>6. v.nick = z.nick /\ v.others = z.others /\ v.quitting = z.quitting /\ v.chans = z.chans
      BY <3>3, <3>4, <3>5, SendCases DEF Alike
    <3>7. v.nick[s] = n
      BY <1>1, <1>2, <2>2, <3>1, <3>3, <3>6 DEF Alike
    <3> QED
      BY <2>2, <2>3, <3>1, <3>3, <3>6, <3>7 DEF Alike
  <2> HIDE DEF v
  <2> QED
    BY <1>3, <1>4, <2>1, <2>2, <2>3 DEF Alike, e, s
<1> QED
  BY <1>5, <1>6

\* The client of a member is in the channel then.
LEMMA SyncMemberGrows ==
    ASSUME NEW x, Fine(x), NEW k \in Keys, x.group[k] # None,
           NEW m \in Members, x.roster[m] # None
    PROVE  LET y == SyncMember(x, k, m) IN
           /\ Grown(x, y)
           /\ Synced(x) /\ Room(x) => k \in y.chans[<<x.group[k], m>>]
<1> DEFINE s == <<x.group[k], m>>
           d == x.roster[m]
           y == EnsureClient(x, k, m, d)
           z == EnsureJoin(y, s, k)
           a == m \in x.absent
           v == SetClientAway(z, s, a)
<1>1. s \in Slots /\ d \in Displays /\ x.chans \in [Slots -> SUBSET Keys] /\ s[1] = x.group[k]
  <2>1. /\ x.group \in [Keys -> Groups \cup {None}] /\ x.chans \in [Slots -> SUBSET Keys]
        /\ x.roster \in [Members -> Displays \cup {None}]
    BY Fields DEF Fine, Shape
  <2>2. x.group[k] \in Groups /\ x.roster[m] \in Displays
    BY <2>1
  <2> QED
    BY <2>1, <2>2 DEF Slots
<1>2. SyncMember(x, k, m) = v
  BY DEF SyncMember
<1>3. a \in BOOLEAN
  OBVIOUS
<1>4. /\ Fine(y) /\ y \in World /\ y.others = x.others /\ y.quitting = x.quitting
      /\ y.chans = x.chans
      /\ Synced(x) /\ Room(x) => y.nick[s] # None
  <2>1. Fine(y)
    BY <1>1, EnsureFine
  <2>2. /\ y.others = x.others /\ y.quitting = x.quitting /\ y.chans = x.chans
        /\ Synced(x) /\ Room(x) => y.nick[s] # None
    BY <1>1, EnsureChans
  <2> QED
    BY <2>1, <2>2 DEF Fine, Shape
<1> HIDE DEF s, d, a, y
<1>5. /\ Fine(z) /\ z \in World /\ z.others = y.others /\ z.quitting = y.quitting
      /\ z.chans = IF y.nick[s] = None THEN y.chans ELSE [y.chans EXCEPT ![s] = @ \cup {k}]
  <2>1. Fine(z)
    BY <1>1, <1>4, JoinFine
  <2>2. /\ z.others = y.others /\ z.quitting = y.quitting
        /\ z.chans = IF y.nick[s] = None THEN y.chans ELSE [y.chans EXCEPT ![s] = @ \cup {k}]
    BY <1>1, <1>4, JoinChans
  <2> QED
    BY <2>1, <2>2 DEF Fine, Shape
<1> HIDE DEF z
<1>6. v.others = z.others /\ v.quitting = z.quitting /\ v.chans = z.chans
  BY <1>1, <1>3, <1>5, AwayChans
<1> HIDE DEF v
<1>7. Grown(x, v)
  BY <1>1, <1>4, <1>5, <1>6 DEF Grown
<1>8. Synced(x) /\ Room(x) => k \in v.chans[s]
  BY <1>1, <1>4, <1>5, <1>6
<1> QED
  BY <1>2, <1>7, <1>8 DEF s

\* What grows from what grew from x grew from it.
LEMMA GrownThen ==
    ASSUME NEW x, NEW y, NEW z, Same(x, y), Grown(x, y), Grown(y, z)
    PROVE  Grown(x, z)
BY DEF Grown, Same

\* There is as much room as before.
LEMMA GrownRoom ==
    ASSUME NEW x, NEW y, Grown(x, y), Room(x)
    PROVE  Room(y)
<1>1. Out(y) = Out(x)
  BY DEF Grown, Out
<1> QED
  BY <1>1 DEF Room

-----------------------------------------------------------------------------
(* Loops over slots, channels and members.                                 *)

\* What a loop over them may come to from x.
Kept(x) == {y \in World : Fine(y) /\ Same(x, y)}

\* It is what is Fine and the Same.
LEMMA KeptIs ==
    ASSUME NEW x, NEW y
    PROVE  y \in Kept(x) <=> Fine(y) /\ Same(x, y)
BY DEF Kept, Fine, Shape

\* What a loop that takes from x may come to, and one that adds to it.
Less(x) == {y \in Kept(x) : Shrunk(x, y)}
More(x) == {y \in Kept(x) : Grown(x, y)}

\* One more round of a loop that takes.
LEMMA LessThen ==
    ASSUME NEW x, NEW v \in Less(x), NEW y, Fine(y), Same(v, y), Shrunk(v, y)
    PROVE  y \in Less(x)
<1>1. Shrunk(x, y)
  BY ShrunkThen DEF Less
<1> QED
  BY <1>1, KeptIs DEF Less, Same

\* One more round of a loop that adds.
LEMMA MoreThen ==
    ASSUME NEW x, NEW v \in More(x), NEW y, Fine(y), Same(v, y), Grown(v, y)
    PROVE  y \in More(x)
<1>1. Same(x, v) /\ Grown(x, v)
  BY DEF More, Kept
<1>2. Grown(x, y)
  BY <1>1, GrownThen
<1> QED
  BY <1>1, <1>2, KeptIs DEF More, Same

\* Before the first round.
LEMMA NoRound ==
    ASSUME NEW x, Fine(x)
    PROVE  x \in Kept(x) /\ x \in Less(x) /\ x \in More(x)
BY KeptIs DEF Less, More, Same, Shrunk, Grown

\* What a loop that retires the clients in S may come to.
Cut(x, S) == {y \in Less(x) : \A t \in Slots \ S : y.chans[t] = x.chans[t]}

\* What a loop that marks clients may come to.
Calm(x) ==
    {y \in Kept(x) : y.nick = x.nick /\ y.chans = x.chans
                     /\ y.others = x.others /\ y.quitting = x.quitting}

\* Clients that are removed one after the other.
LEMMA RemoveEach ==
    ASSUME NEW x, Fine(x), NEW S \in SUBSET Slots
    PROVE  ForEach(x, S, RemoveClient) \in Cut(x, S)
<1> DEFINE n == Cardinality(S)
           z == SetToSeq(S)
           G == [p \in Cut(x, S) \X S |-> RemoveClient(p[1], p[2])]
           Loop(f) == f = [s \in SUBSET (1..n) |-> IF s = {} THEN x
                             ELSE RemoveClient(f[s \ {Max(s)}], z[Max(s)])]
           I == CHOOSE f : Loop(f)
<1>1. n \in Nat /\ z \in [1..n -> S] /\ DOMAIN z = 1..n
  BY SlotsFinite, FS_Subset, SetToSeqIn
<1>2. x \in Cut(x, S) /\ G \in [Cut(x, S) \X S -> Cut(x, S)]
  <2>1. ASSUME NEW y \in Cut(x, S), NEW e \in S
        PROVE  RemoveClient(y, e) \in Cut(x, S)
    <3>1. y \in Less(x) /\ Fine(y) /\ y \in World /\ e \in Slots
      BY <2>1 DEF Cut, Less, Kept
    <3>2. /\ Shrunk(y, RemoveClient(y, e))
          /\ \A t \in Slots : t # e => RemoveClient(y, e).chans[t] = y.chans[t]
      BY <3>1, RemoveAnyShrinks
    <3>3. RemoveClient(y, e) \in Less(x)
      BY <3>1, <3>2, RemoveAnyFine, LessThen
    <3> QED
      BY <2>1, <3>2, <3>3 DEF Cut
  <2>2. x \in Cut(x, S)
    BY NoRound DEF Cut
  <2> QED
    BY <2>1, <2>2
<1>3. PICK f \in [SUBSET (1..n) -> Cut(x, S)] : IsFold(f, n, x, G, z)
  <2> HIDE DEF G, n, z
  <2> QED
    BY <1>1, <1>2, FoldExists
<1>4. ASSUME NEW s \in SUBSET (1..n), s # {}, NEW y \in Cut(x, S)
      PROVE  RemoveClient(y, z[Max(s)]) = G[<<y, z[Max(s)]>>] /\ RemoveClient(y, z[Max(s)]) \in Cut(x, S)
  <2>1. z[Max(s)] \in S
    <3> HIDE DEF n, z
    <3> QED
      BY <1>1, <1>4, MaxOf
  <2> HIDE DEF z
  <2> QED
    BY <1>2, <2>1
<1> HIDE DEF G, n, z
<1>5. Loop(f)
  BY <1>3, <1>4 DEF IsFold
<1>6. Loop(I)
  BY <1>5
<1> USE DEF n, z
<1>7. ForEach(x, S, RemoveClient) = I[1..n]
  BY <1>1 DEF ForEach, FoldLeft, MapThenFoldSet
<1> HIDE DEF I, n, z
<1>8. I[1..n] \in Cut(x, S)
  BY <1>1, <1>2, <1>4, <1>6, LastStage
<1> QED
  BY <1>7, <1>8

\* Clients that are marked one after the other.
LEMMA AwayEach ==
    ASSUME NEW x, Fine(x), NEW S \in SUBSET Slots, NEW a \in BOOLEAN
    PROVE  ForEach(x, S, LAMBDA y, s : SetClientAway(y, s, a)) \in Calm(x)
<1> DEFINE n == Cardinality(S)
           z == SetToSeq(S)
           G == [p \in Calm(x) \X S |-> SetClientAway(p[1], p[2], a)]
           Loop(f) == f = [s \in SUBSET (1..n) |-> IF s = {} THEN x
                             ELSE SetClientAway(f[s \ {Max(s)}], z[Max(s)], a)]
           I == CHOOSE f : Loop(f)
<1>1. n \in Nat /\ z \in [1..n -> S] /\ DOMAIN z = 1..n
  BY SlotsFinite, FS_Subset, SetToSeqIn
<1>2. x \in Calm(x) /\ G \in [Calm(x) \X S -> Calm(x)]
  <2>1. ASSUME NEW y \in Calm(x), NEW e \in S
        PROVE  SetClientAway(y, e, a) \in Calm(x)
    <3>1. y \in Kept(x) /\ Fine(y) /\ Same(x, y) /\ y \in World /\ e \in Slots
      BY <2>1 DEF Calm, Kept
    <3>2. SetClientAway(y, e, a) \in Kept(x)
      BY <3>1, KeptIs, AwayFine DEF Same
    <3> QED
      BY <2>1, <3>1, <3>2, AwayChans DEF Calm
  <2>2. x \in Calm(x)
    BY NoRound DEF Calm
  <2> QED
    BY <2>1, <2>2
<1>3. PICK f \in [SUBSET (1..n) -> Calm(x)] : IsFold(f, n, x, G, z)
  <2> HIDE DEF G, n, z
  <2> QED
    BY <1>1, <1>2, FoldExists
<1>4. ASSUME NEW s \in SUBSET (1..n), s # {}, NEW y \in Calm(x)
      PROVE  SetClientAway(y, z[Max(s)], a) = G[<<y, z[Max(s)]>>] /\ SetClientAway(y, z[Max(s)], a) \in Calm(x)
  <2>1. z[Max(s)] \in S
    <3> HIDE DEF n, z
    <3> QED
      BY <1>1, <1>4, MaxOf
  <2> HIDE DEF z
  <2> QED
    BY <1>2, <2>1
<1> HIDE DEF G, n, z
<1>5. Loop(f)
  BY <1>3, <1>4 DEF IsFold
<1>6. Loop(I)
  BY <1>5
<1> USE DEF n, z
<1>7. ForEach(x, S, LAMBDA y, s : SetClientAway(y, s, a)) = I[1..n]
  BY <1>1 DEF ForEach, FoldLeft, MapThenFoldSet
<1> HIDE DEF I, n, z
<1>8. I[1..n] \in Calm(x)
  BY <1>1, <1>2, <1>4, <1>6, LastStage
<1> QED
  BY <1>7, <1>8

\* A client that leaves the channels of K one after the other.
LEMMA PruneClientLess ==
    ASSUME NEW v, Fine(v), NEW c \in Slots, NEW K \in SUBSET Keys
    PROVE  LET y == PruneClient(v, c, K) IN
           /\ y \in Less(v) /\ y.chans[c] \cap K = {}
           /\ \A t \in Slots : v.chans[t] \ K \subseteq y.chans[t]
<1> DEFINE A == {y \in Less(v) : \A t \in Slots : v.chans[t] \ K \subseteq y.chans[t]}
           D == {p \in K \X A : p[1] \notin p[2].chans[c]}
           n == Cardinality(K)
           z == SetToSeq(K)
           G == [p \in A \X K |-> PartClient(p[1], c, p[2])]
           Loop(f) == f = [s \in SUBSET (1..n) |-> IF s = {} THEN v
                             ELSE PartClient(f[s \ {Max(s)}], c, z[Max(s)])]
           I == CHOOSE f : Loop(f)
<1>1. n \in Nat /\ z \in [1..n -> K] /\ DOMAIN z = 1..n /\ \A e \in K : \E i \in 1..n : z[i] = e
  BY FiniteAssumption, FS_Subset, SetToSeqIn, SetToSeqAll
<1>0. ASSUME NEW y \in A, NEW e \in K
      PROVE  /\ PartClient(y, c, e) \in A /\ <<e, PartClient(y, c, e)>> \in D
             /\ \A k \in K : <<k, y>> \in D => <<k, PartClient(y, c, e)>> \in D
  <2> DEFINE u == PartClient(y, c, e)
  <2>1. y \in Less(v) /\ Fine(y) /\ y \in World /\ y.chans \in [Slots -> SUBSET Keys]
    BY <1>0, Fields DEF Less, Kept
  <2>2. u.chans = [y.chans EXCEPT ![c] = @ \ {e}]
    BY <2>1, PartChans
  <2>3. u \in Less(v)
    BY <2>1, PartFine, PartShrinks, LessThen
  <2> HIDE DEF u
  <2>4. u \in A
    BY <1>0, <2>1, <2>2, <2>3
  <2>5. \A k \in K : k = e \/ k \notin y.chans[c] => k \notin u.chans[c]
    BY <2>1, <2>2
  <2> HIDE DEF A
  <2>6. /\ u \in A /\ <<e, u>> \in D
        /\ \A k \in K : <<k, y>> \in D => <<k, u>> \in D
    BY <2>4, <2>5
  <2> QED
    BY <2>6 DEF u
<1>2. v \in A /\ G \in [A \X K -> A]
  <2>1. ASSUME NEW y \in A, NEW e \in K
        PROVE  PartClient(y, c, e) \in A
    BY <1>0, <2>1
  <2>2. v \in A
    BY NoRound
  <2> HIDE DEF A
  <2> QED
    BY <2>1, <2>2
<1> HIDE DEF A
<1>3. PICK f \in [SUBSET (1..n) -> A] : IsFold(f, n, v, G, z)
  <2> HIDE DEF G, n, z
  <2> QED
    BY <1>1, <1>2, FoldExists
<1>4. ASSUME NEW s \in SUBSET (1..n), s # {}, NEW y \in A
      PROVE  PartClient(y, c, z[Max(s)]) = G[<<y, z[Max(s)]>>] /\ PartClient(y, c, z[Max(s)]) \in A
  <2>1. z[Max(s)] \in K
    <3> HIDE DEF n, z
    <3> QED
      BY <1>1, <1>4, MaxOf
  <2> HIDE DEF z
  <2> QED
    BY <1>2, <2>1
<1> HIDE DEF G, n, z
<1>5. Loop(f)
  BY <1>3, <1>4 DEF IsFold
<1>6. Loop(I)
  BY <1>5
<1> USE DEF n, z
<1>7. PruneClient(v, c, K) = I[1..n]
  BY <1>1 DEF PruneClient, ForEach, FoldLeft, MapThenFoldSet
<1> HIDE DEF I, n, z
<1>8. ASSUME NEW s \in SUBSET (1..n), s # {}, I[s \ {Max(s)}] \in A
      PROVE  /\ I[s] \in A /\ <<z[Max(s)], I[s]>> \in D
             /\ \A e \in K : <<e, I[s \ {Max(s)}]>> \in D => <<e, I[s]>> \in D
  <2>1. I[s] = PartClient(I[s \ {Max(s)}], c, z[Max(s)])
    BY <1>6, <1>8
  <2>2. z[Max(s)] \in K
    BY <1>1, <1>8, MaxOf
  <2> HIDE DEF D
  <2> QED
    BY <1>0, <1>8, <2>1, <2>2
<1>9. I[1..n] \in A /\ \A e \in K : <<e, I[1..n]>> \in D
  <2> HIDE DEF D
  <2>1. n \in Nat /\ z \in [1..n -> K] /\ I[{}] \in A
    BY <1>1, <1>2, <1>6
  <2>2. \A e \in K : \E i \in 1..n : z[i] = e
    BY <1>1
  <2>3. \A s \in SUBSET (1..n) : s # {} /\ I[s \ {Max(s)}] \in A =>
           /\ I[s] \in A /\ <<z[Max(s)], I[s]>> \in D
           /\ \A e \in K : <<e, I[s \ {Max(s)}]>> \in D => <<e, I[s]>> \in D
    BY <1>8
  <2>4. Handles(n, K, z, I, A, D)
    BY <2>1, <2>2, <2>3 DEF Handles
  <2> QED
    BY <2>4, EachDone
<1> QED
  BY <1>7, <1>9 DEF A

\* Every client leaves the channels that are not bridged.
LEMMA PruneLess ==
    ASSUME NEW x, Fine(x)
    PROVE  LET y == PruneChannels(x) IN
           /\ y \in Less(x)
           /\ \A c \in Slots : y.chans[c] = x.chans[c] \cap Bridged(x)
<1> DEFINE A == {y \in Less(x) : \A t \in Slots : x.chans[t] \cap Bridged(x) \subseteq y.chans[t]}
           D == {p \in Slots \X A : p[2].chans[p[1]] \subseteq Bridged(x)}
           n == Cardinality(Slots)
           z == SetToSeq(Slots)
           G == [p \in A \X Slots |-> PruneClient(p[1], p[2], x.chans[p[2]] \ Bridged(x))]
           Loop(f) == f = [s \in SUBSET (1..n) |-> IF s = {} THEN x
                             ELSE PruneClient(f[s \ {Max(s)}], z[Max(s)], x.chans[z[Max(s)]] \ Bridged(x))]
           I == CHOOSE f : Loop(f)
<1>1. n \in Nat /\ z \in [1..n -> Slots] /\ DOMAIN z = 1..n /\ \A e \in Slots : \E i \in 1..n : z[i] = e
  BY SlotsFinite, SetToSeqIn, SetToSeqAll
<1>0. ASSUME NEW y \in A, NEW e \in Slots
      PROVE  LET u == PruneClient(y, e, x.chans[e] \ Bridged(x)) IN
             /\ u \in A /\ <<e, u>> \in D
             /\ \A t \in Slots : <<t, y>> \in D => <<t, u>> \in D
  <2> DEFINE K == x.chans[e] \ Bridged(x)
             u == PruneClient(y, e, K)
  <2>1. y \in Less(x) /\ Fine(y) /\ Shrunk(x, y) /\ K \in SUBSET Keys
    BY <1>0, Fields DEF Less, Kept, Fine, Shape
  <2>2. /\ u \in Less(y) /\ u.chans[e] \cap K = {}
        /\ \A t \in Slots : y.chans[t] \ K \subseteq u.chans[t]
    BY <2>1, PruneClientLess
  <2>3. Fine(u) /\ Same(y, u) /\ Shrunk(y, u)
    BY <2>2 DEF Less, Kept
  <2>4. u \in Less(x)
    BY <2>1, <2>3, LessThen
  <2> HIDE DEF u
  <2>5. /\ \A t \in Slots : x.chans[t] \cap Bridged(x) \subseteq u.chans[t]
        /\ \A t \in Slots : u.chans[t] \subseteq y.chans[t]
        /\ u.chans[e] \subseteq Bridged(x)
    BY <1>0, <2>1, <2>2, <2>3 DEF Shrunk
  <2>6. u \in A
    BY <2>4, <2>5
  <2> HIDE DEF A
  <2>7. /\ u \in A /\ <<e, u>> \in D
        /\ \A t \in Slots : <<t, y>> \in D => <<t, u>> \in D
    BY <2>5, <2>6
  <2> QED
    BY <2>7 DEF u
<1>2. x \in A /\ G \in [A \X Slots -> A]
  <2>1. ASSUME NEW y \in A, NEW e \in Slots
        PROVE  PruneClient(y, e, x.chans[e] \ Bridged(x)) \in A
    BY <1>0, <2>1
  <2>2. x \in A
    BY NoRound
  <2> HIDE DEF A
  <2> QED
    BY <2>1, <2>2
<1> HIDE DEF A
<1>3. PICK f \in [SUBSET (1..n) -> A] : IsFold(f, n, x, G, z)
  <2> HIDE DEF G, n, z
  <2> QED
    BY <1>1, <1>2, FoldExists
<1>4. ASSUME NEW s \in SUBSET (1..n), s # {}, NEW y \in A
      PROVE  PruneClient(y, z[Max(s)], x.chans[z[Max(s)]] \ Bridged(x)) = G[<<y, z[Max(s)]>>] /\ PruneClient(y, z[Max(s)], x.chans[z[Max(s)]] \ Bridged(x)) \in A
  <2>1. z[Max(s)] \in Slots
    <3> HIDE DEF n, z
    <3> QED
      BY <1>1, <1>4, MaxOf
  <2> DEFINE e == z[Max(s)]
  <2> HIDE DEF z, e
  <2>2. <<y, e>> \in A \X Slots /\ G[<<y, e>>] \in A
    BY <1>2, <2>1 DEF e
  <2>3. G[<<y, e>>] = PruneClient(y, e, x.chans[e] \ Bridged(x))
    BY <2>2
  <2> QED
    BY <2>2, <2>3 DEF e
<1> HIDE DEF G, n, z
<1>5. Loop(f)
  BY <1>3, <1>4 DEF IsFold
<1>6. Loop(I)
  BY <1>5
<1> USE DEF n, z
<1>7. PruneChannels(x) = I[1..n]
  BY <1>1 DEF PruneChannels, ForEach, FoldLeft, MapThenFoldSet
<1> HIDE DEF I, n, z
<1>8. ASSUME NEW s \in SUBSET (1..n), s # {}, I[s \ {Max(s)}] \in A
      PROVE  /\ I[s] \in A /\ <<z[Max(s)], I[s]>> \in D
             /\ \A e \in Slots : <<e, I[s \ {Max(s)}]>> \in D => <<e, I[s]>> \in D
  <2>1. I[s] = PruneClient(I[s \ {Max(s)}], z[Max(s)], x.chans[z[Max(s)]] \ Bridged(x))
    BY <1>6, <1>8
  <2>2. z[Max(s)] \in Slots
    BY <1>1, <1>8, MaxOf
  <2> HIDE DEF D
  <2> QED
    BY <1>0, <1>8, <2>1, <2>2
<1>9. I[1..n] \in A /\ \A e \in Slots : <<e, I[1..n]>> \in D
  <2> HIDE DEF D
  <2>1. n \in Nat /\ z \in [1..n -> Slots] /\ I[{}] \in A
    BY <1>1, <1>2, <1>6
  <2>2. \A e \in Slots : \E i \in 1..n : z[i] = e
    BY <1>1
  <2>3. \A s \in SUBSET (1..n) : s # {} /\ I[s \ {Max(s)}] \in A =>
           /\ I[s] \in A /\ <<z[Max(s)], I[s]>> \in D
           /\ \A e \in Slots : <<e, I[s \ {Max(s)}]>> \in D => <<e, I[s]>> \in D
    BY <1>8
  <2>4. Handles(n, Slots, z, I, A, D)
    BY <2>1, <2>2, <2>3 DEF Handles
  <2> QED
    BY <2>4, EachDone
<1> DEFINE y == I[1..n]
<1>10. /\ y \in Less(x) /\ \A c \in Slots : y.chans[c] \subseteq Bridged(x)
       /\ \A t \in Slots : x.chans[t] \cap Bridged(x) \subseteq y.chans[t]
  BY <1>9 DEF A
<1> HIDE DEF y
<1>11. \A c \in Slots : y.chans[c] = x.chans[c] \cap Bridged(x)
  BY <1>10 DEF Less, Shrunk
<1> QED
  BY <1>7, <1>10, <1>11 DEF y

\* The clients of a bridge that moves to another space.
LEMMA RetireLess ==
    ASSUME NEW x, Fine(x), NEW k \in Keys
    PROVE  LET y == RetireClients(x, k) IN
           y \in Less(x) /\ \A c \in Slots : k \notin y.chans[c]
<1> DEFINE A == Less(x)
           S == {s \in Slots : k \in x.chans[s]}
           D == {p \in S \X A : k \notin p[2].chans[p[1]]}
           n == Cardinality(S)
           z == SetToSeq(S)
           G == [p \in A \X S |-> RetireClient(p[1], p[2], k)]
           Loop(f) == f = [s \in SUBSET (1..n) |-> IF s = {} THEN x
                             ELSE RetireClient(f[s \ {Max(s)}], z[Max(s)], k)]
           I == CHOOSE f : Loop(f)
<1>1. n \in Nat /\ z \in [1..n -> S] /\ DOMAIN z = 1..n /\ \A e \in S : \E i \in 1..n : z[i] = e
  BY SlotsFinite, FS_Subset, SetToSeqIn, SetToSeqAll
<1>0. ASSUME NEW y \in A, NEW e \in S
      PROVE  LET u == RetireClient(y, e, k) IN
             /\ u \in A /\ <<e, u>> \in D
             /\ \A t \in S : <<t, y>> \in D => <<t, u>> \in D
  <2> DEFINE u == RetireClient(y, e, k)
  <2>1. Fine(y) /\ e \in Slots
    BY <1>0 DEF Less, Kept
  <2>2. Fine(u) /\ Same(y, u) /\ Shrunk(y, u) /\ k \notin u.chans[e]
    BY <2>1, RetireFine, RetireShrinks
  <2> HIDE DEF u
  <2>3. u \in A
    BY <1>0, <2>2, LessThen
  <2>4. \A t \in S : k \notin y.chans[t] => k \notin u.chans[t]
    BY <2>2 DEF Shrunk
  <2> HIDE DEF A, S
  <2>5. /\ u \in A /\ <<e, u>> \in D
        /\ \A t \in S : <<t, y>> \in D => <<t, u>> \in D
    BY <2>2, <2>3, <2>4
  <2> QED
    BY <2>5 DEF u
<1>2. x \in A /\ G \in [A \X S -> A]
  <2>1. ASSUME NEW y \in A, NEW e \in S
        PROVE  RetireClient(y, e, k) \in A
    BY <1>0, <2>1
  <2>2. x \in A
    BY NoRound
  <2> HIDE DEF A, S
  <2> QED
    BY <2>1, <2>2
<1> HIDE DEF A
<1>3. PICK f \in [SUBSET (1..n) -> A] : IsFold(f, n, x, G, z)
  <2> HIDE DEF G, n, z
  <2> QED
    BY <1>1, <1>2, FoldExists
<1>4. ASSUME NEW s \in SUBSET (1..n), s # {}, NEW y \in A
      PROVE  RetireClient(y, z[Max(s)], k) = G[<<y, z[Max(s)]>>] /\ RetireClient(y, z[Max(s)], k) \in A
  <2>1. z[Max(s)] \in S
    <3> HIDE DEF n, z
    <3> QED
      BY <1>1, <1>4, MaxOf
  <2> HIDE DEF z
  <2> QED
    BY <1>2, <2>1
<1> HIDE DEF G, n, z
<1>5. Loop(f)
  BY <1>3, <1>4 DEF IsFold
<1>6. Loop(I)
  BY <1>5
<1> USE DEF n, z
<1>7. RetireClients(x, k) = I[1..n]
  BY <1>1 DEF RetireClients, ForEach, FoldLeft, MapThenFoldSet
<1> HIDE DEF I, n, z
<1>8. ASSUME NEW s \in SUBSET (1..n), s # {}, I[s \ {Max(s)}] \in A
      PROVE  /\ I[s] \in A /\ <<z[Max(s)], I[s]>> \in D
             /\ \A e \in S : <<e, I[s \ {Max(s)}]>> \in D => <<e, I[s]>> \in D
  <2>1. I[s] = RetireClient(I[s \ {Max(s)}], z[Max(s)], k)
    BY <1>6, <1>8
  <2>2. z[Max(s)] \in S
    BY <1>1, <1>8, MaxOf
  <2> HIDE DEF D
  <2> QED
    BY <1>0, <1>8, <2>1, <2>2
<1>9. I[1..n] \in A /\ \A e \in S : <<e, I[1..n]>> \in D
  <2> HIDE DEF D, S
  <2>1. n \in Nat /\ z \in [1..n -> S] /\ I[{}] \in A
    BY <1>1, <1>2, <1>6
  <2>2. \A e \in S : \E i \in 1..n : z[i] = e
    BY <1>1
  <2>3. \A s \in SUBSET (1..n) : s # {} /\ I[s \ {Max(s)}] \in A =>
           /\ I[s] \in A /\ <<z[Max(s)], I[s]>> \in D
           /\ \A e \in S : <<e, I[s \ {Max(s)}]>> \in D => <<e, I[s]>> \in D
    BY <1>8
  <2>4. Handles(n, S, z, I, A, D)
    BY <2>1, <2>2, <2>3 DEF Handles
  <2> QED
    BY <2>4, EachDone
<1> DEFINE y == I[1..n]
<1>10. y \in Less(x) /\ \A c \in S : k \notin y.chans[c]
  BY <1>9 DEF A
<1> HIDE DEF y
<1>11. \A c \in Slots : k \notin y.chans[c]
  BY <1>10 DEF Less, Shrunk
<1> QED
  BY <1>7, <1>10, <1>11 DEF y

\* The members of the space, of those in ms.
Here(x, ms) == {m \in ms : x.roster[m] # None}

\* The orders in which a finite set may be gone over.
LEMMA OrdersIn ==
    ASSUME NEW S, IsFiniteSet(S), NEW z \in SetToSeqs(S)
    PROVE  z \in [1..Cardinality(S) -> S] /\ Cardinality(S) \in Nat
BY FS_CardinalityType DEF SetToSeqs

\* Each of them leaves out none.
LEMMA OrdersAll ==
    ASSUME NEW S, IsFiniteSet(S), NEW z \in SetToSeqs(S)
    PROVE  \A e \in S : \E i \in 1..Cardinality(S) : z[i] = e
<1>1. z \in [1..Cardinality(S) -> S] /\ IsInjective(z)
  BY DEF SetToSeqs, IsInjective
<1> QED
  BY <1>1, GoesOver

\* All members of the space in one channel.
LEMMA SyncChannelMore ==
    ASSUME NEW x, NEW v \in More(x), NEW k \in Bridged(x), NEW ms \in SUBSET Members,
           NEW mo \in SetToSeqs(Here(x, ms))
    PROVE  LET y == SyncChannel(v, k, mo) IN
           /\ y \in More(x) /\ \A t \in Slots : v.chans[t] \subseteq y.chans[t]
           /\ Synced(x) /\ Room(x) => \A m \in Here(x, ms) : k \in y.chans[<<x.group[k], m>>]
<1> DEFINE S == Here(x, ms)
           A == {y \in More(x) : \A t \in Slots : v.chans[t] \subseteq y.chans[t]}
           D == {p \in S \X A : Synced(x) /\ Room(x) => k \in p[2].chans[<<x.group[k], p[1]>>]}
           n == Cardinality(S)
           z == mo
           G == [p \in A \X S |-> SyncMember(p[1], k, p[2])]
           Loop(f) == f = [s \in SUBSET (1..n) |-> IF s = {} THEN v
                             ELSE SyncMember(f[s \ {Max(s)}], k, z[Max(s)])]
           I == CHOOSE f : Loop(f)
<1>1. n \in Nat /\ z \in [1..n -> S] /\ DOMAIN z = 1..n /\ \A e \in S : \E i \in 1..n : z[i] = e
  <2>1. IsFiniteSet(S)
    BY FiniteAssumption, FS_Subset DEF Here
  <2> HIDE DEF S
  <2>2. n \in Nat /\ z \in [1..n -> S] /\ DOMAIN z = 1..n
    BY <2>1, OrdersIn DEF S
  <2>3. \A e \in S : \E i \in 1..n : z[i] = e
    BY <2>1, OrdersAll DEF S
  <2> QED
    BY <2>2, <2>3
<1>0. ASSUME NEW y \in A, NEW e \in S
      PROVE  LET u == SyncMember(y, k, e) IN
             /\ u \in A /\ <<e, u>> \in D
             /\ \A m \in S : <<m, y>> \in D => <<m, u>> \in D
  <2> DEFINE u == SyncMember(y, k, e)
  <2>1. /\ y \in More(x) /\ Fine(y) /\ Same(x, y) /\ Grown(x, y)
        /\ k \in Keys /\ y.group[k] # None /\ e \in Members /\ y.roster[e] # None
    BY <1>0 DEF More, Kept, Same, Here, Bridged
  <2>2. Fine(u) /\ Same(y, u)
    BY <2>1, SyncMemberFine
  <2>3. Grown(y, u) /\ (Synced(y) /\ Room(y) => k \in u.chans[<<y.group[k], e>>])
    BY <2>1, SyncMemberGrows
  <2>4. Synced(x) /\ Room(x) => k \in u.chans[<<x.group[k], e>>]
    BY <2>1, <2>3, GrownRoom DEF Same, Synced
  <2> HIDE DEF u
  <2>5. u \in More(x)
    BY <2>1, <2>2, <2>3, MoreThen
  <2>6. \A t \in Slots : y.chans[t] \subseteq u.chans[t]
    BY <2>3 DEF Grown
  <2>7. u \in A
    BY <1>0, <2>5, <2>6
  <2>8. \A m \in S : <<x.group[k], m>> \in Slots
    <3>1. x.group = y.group /\ y.group \in [Keys -> Groups \cup {None}]
      BY <2>1, Fields DEF Same, Fine, Shape
    <3>2. x.group[k] \in Groups
      BY <2>1, <3>1
    <3> QED
      BY <3>2 DEF Here, Slots
  <2> HIDE DEF A, S
  <2>9. /\ u \in A /\ <<e, u>> \in D
        /\ \A m \in S : <<m, y>> \in D => <<m, u>> \in D
    BY <2>4, <2>6, <2>7, <2>8
  <2> QED
    BY <2>9 DEF u
<1>2. v \in A /\ G \in [A \X S -> A]
  <2>1. ASSUME NEW y \in A, NEW e \in S
        PROVE  SyncMember(y, k, e) \in A
    BY <1>0, <2>1
  <2>2. v \in A
    OBVIOUS
  <2> HIDE DEF A, S
  <2> QED
    BY <2>1, <2>2
<1> HIDE DEF A
<1>3. PICK f \in [SUBSET (1..n) -> A] : IsFold(f, n, v, G, z)
  <2> HIDE DEF G, n, z
  <2> QED
    BY <1>1, <1>2, FoldExists
<1>4. ASSUME NEW s \in SUBSET (1..n), s # {}, NEW y \in A
      PROVE  SyncMember(y, k, z[Max(s)]) = G[<<y, z[Max(s)]>>] /\ SyncMember(y, k, z[Max(s)]) \in A
  <2>1. z[Max(s)] \in S
    <3> HIDE DEF n, z
    <3> QED
      BY <1>1, <1>4, MaxOf
  <2> HIDE DEF z
  <2> QED
    BY <1>2, <2>1
<1> HIDE DEF G, n, z
<1>5. Loop(f)
  BY <1>3, <1>4 DEF IsFold
<1>6. Loop(I)
  BY <1>5
<1> USE DEF n, z
<1>7. SyncChannel(v, k, mo) = I[1..n]
  BY <1>1 DEF SyncChannel, FoldLeft, MapThenFoldSet
<1> HIDE DEF I, n, z
<1>8. ASSUME NEW s \in SUBSET (1..n), s # {}, I[s \ {Max(s)}] \in A
      PROVE  /\ I[s] \in A /\ <<z[Max(s)], I[s]>> \in D
             /\ \A e \in S : <<e, I[s \ {Max(s)}]>> \in D => <<e, I[s]>> \in D
  <2>1. I[s] = SyncMember(I[s \ {Max(s)}], k, z[Max(s)])
    BY <1>6, <1>8
  <2>2. z[Max(s)] \in S
    BY <1>1, <1>8, MaxOf
  <2> HIDE DEF D
  <2> QED
    BY <1>0, <1>8, <2>1, <2>2
<1>9. I[1..n] \in A /\ \A e \in S : <<e, I[1..n]>> \in D
  <2> HIDE DEF D, S
  <2>1. n \in Nat /\ z \in [1..n -> S] /\ I[{}] \in A
    BY <1>1, <1>2, <1>6
  <2>2. \A e \in S : \E i \in 1..n : z[i] = e
    BY <1>1
  <2>3. \A s \in SUBSET (1..n) : s # {} /\ I[s \ {Max(s)}] \in A =>
           /\ I[s] \in A /\ <<z[Max(s)], I[s]>> \in D
           /\ \A e \in S : <<e, I[s \ {Max(s)}]>> \in D => <<e, I[s]>> \in D
    BY <1>8
  <2>4. Handles(n, S, z, I, A, D)
    BY <2>1, <2>2, <2>3 DEF Handles
  <2> QED
    BY <2>4, EachDone
<1> QED
  BY <1>7, <1>9 DEF A

\* All members of the space in all channels.
LEMMA SyncRosterMore ==
    ASSUME NEW x, Fine(x), NEW ms \in SUBSET Members,
           NEW ko \in SetToSeqs(Bridged(x)), NEW mo \in SetToSeqs(Here(x, ms))
    PROVE  LET y == SyncChannels(x, ko, mo) IN
           /\ y \in More(x)
           /\ Synced(x) /\ Room(x) => \A k \in Bridged(x), m \in Here(x, ms) :
                                         k \in y.chans[<<x.group[k], m>>]
<1> DEFINE S == Bridged(x)
           A == More(x)
           D == {p \in S \X A : Synced(x) /\ Room(x) =>
                   \A m \in Here(x, ms) : p[1] \in p[2].chans[<<x.group[p[1]], m>>]}
           n == Cardinality(S)
           z == ko
           G == [p \in A \X S |-> SyncChannel(p[1], p[2], mo)]
           Loop(f) == f = [s \in SUBSET (1..n) |-> IF s = {} THEN x
                             ELSE SyncChannel(f[s \ {Max(s)}], z[Max(s)], mo)]
           I == CHOOSE f : Loop(f)
<1>1. n \in Nat /\ z \in [1..n -> S] /\ DOMAIN z = 1..n /\ \A e \in S : \E i \in 1..n : z[i] = e
  <2>1. IsFiniteSet(S)
    BY FiniteAssumption, FS_Subset DEF Bridged
  <2> HIDE DEF S
  <2>2. n \in Nat /\ z \in [1..n -> S] /\ DOMAIN z = 1..n
    BY <2>1, OrdersIn DEF S
  <2>3. \A e \in S : \E i \in 1..n : z[i] = e
    BY <2>1, OrdersAll DEF S
  <2> QED
    BY <2>2, <2>3
<1>0. ASSUME NEW y \in A, NEW e \in S
      PROVE  LET u == SyncChannel(y, e, mo) IN
             /\ u \in A /\ <<e, u>> \in D
             /\ \A k \in S : <<k, y>> \in D => <<k, u>> \in D
  <2> DEFINE u == SyncChannel(y, e, mo)
  <2>1. /\ u \in More(x) /\ \A t \in Slots : y.chans[t] \subseteq u.chans[t]
        /\ Synced(x) /\ Room(x) => \A m \in Here(x, ms) : e \in u.chans[<<x.group[e], m>>]
    BY <1>0, SyncChannelMore
  <2> HIDE DEF u
  <2>2. \A k \in S, m \in Here(x, ms) : <<x.group[k], m>> \in Slots
    BY Fields DEF Here, Slots, Bridged, Fine, Shape
  <2> HIDE DEF S, A
  <2>3. u \in A
    BY <2>1 DEF A
  <2>4. /\ u \in A /\ <<e, u>> \in D
        /\ \A k \in S : <<k, y>> \in D => <<k, u>> \in D
    BY <2>1, <2>2, <2>3
  <2> QED
    BY <2>4 DEF u
<1>2. x \in A /\ G \in [A \X S -> A]
  <2>1. ASSUME NEW y \in A, NEW e \in S
        PROVE  SyncChannel(y, e, mo) \in A
    BY <1>0, <2>1
  <2>2. x \in A
    BY NoRound
  <2> HIDE DEF A, S
  <2> QED
    BY <2>1, <2>2
<1> HIDE DEF A
<1>3. PICK f \in [SUBSET (1..n) -> A] : IsFold(f, n, x, G, z)
  <2> HIDE DEF G, n, z
  <2> QED
    BY <1>1, <1>2, FoldExists
<1>4. ASSUME NEW s \in SUBSET (1..n), s # {}, NEW y \in A
      PROVE  SyncChannel(y, z[Max(s)], mo) = G[<<y, z[Max(s)]>>] /\ SyncChannel(y, z[Max(s)], mo) \in A
  <2>1. z[Max(s)] \in S
    <3> HIDE DEF n, z
    <3> QED
      BY <1>1, <1>4, MaxOf
  <2> HIDE DEF z
  <2> QED
    BY <1>2, <2>1
<1> HIDE DEF G, n, z
<1>5. Loop(f)
  BY <1>3, <1>4 DEF IsFold
<1>6. Loop(I)
  BY <1>5
<1> USE DEF n, z
<1>7. SyncChannels(x, ko, mo) = I[1..n]
  BY <1>1 DEF SyncChannels, FoldLeft, MapThenFoldSet
<1> HIDE DEF I, n, z
<1>8. ASSUME NEW s \in SUBSET (1..n), s # {}, I[s \ {Max(s)}] \in A
      PROVE  /\ I[s] \in A /\ <<z[Max(s)], I[s]>> \in D
             /\ \A e \in S : <<e, I[s \ {Max(s)}]>> \in D => <<e, I[s]>> \in D
  <2>1. I[s] = SyncChannel(I[s \ {Max(s)}], z[Max(s)], mo)
    BY <1>6, <1>8
  <2>2. z[Max(s)] \in S
    BY <1>1, <1>8, MaxOf
  <2> HIDE DEF D
  <2> QED
    BY <1>0, <1>8, <2>1, <2>2
<1>9. I[1..n] \in A /\ \A e \in S : <<e, I[1..n]>> \in D
  <2> HIDE DEF D, S
  <2>1. n \in Nat /\ z \in [1..n -> S] /\ I[{}] \in A
    BY <1>1, <1>2, <1>6
  <2>2. \A e \in S : \E i \in 1..n : z[i] = e
    BY <1>1
  <2>3. \A s \in SUBSET (1..n) : s # {} /\ I[s \ {Max(s)}] \in A =>
           /\ I[s] \in A /\ <<z[Max(s)], I[s]>> \in D
           /\ \A e \in S : <<e, I[s \ {Max(s)}]>> \in D => <<e, I[s]>> \in D
    BY <1>8
  <2>4. Handles(n, S, z, I, A, D)
    BY <2>1, <2>2, <2>3 DEF Handles
  <2> QED
    BY <2>4, EachDone
<1> QED
  BY <1>7, <1>9 DEF A

\* A roster that is made up for, in whatever order.
LEMMA SyncRosterFine ==
    ASSUME NEW x, Fine(x), NEW ms \in SUBSET Members, NEW y \in SyncRoster(x, ms)
    PROVE  Fine(y) /\ Same(x, y)
<1>1. CASE ~Synced(x)
  BY <1>1 DEF SyncRoster, Same
<1>2. CASE Synced(x)
  <2>1. PICK ko \in SetToSeqs(Bridged(x)), mo \in SetToSeqs(Here(x, ms)) :
           y = SyncChannels(x, ko, mo)
    BY <1>2 DEF SyncRoster, Here
  <2>2. y \in Kept(x)
    BY <2>1, SyncRosterMore DEF More
  <2> QED
    BY <2>2, KeptIs
<1> QED
  BY <1>1, <1>2

\* Every one of them is in every bridged channel then, if there is room.
LEMMA SyncRosterGrows ==
    ASSUME NEW x, Fine(x), NEW ms \in SUBSET Members, NEW y \in SyncRoster(x, ms)
    PROVE  /\ Grown(x, y)
           /\ Synced(x) /\ Room(x) =>
                 \A k \in Bridged(x), m \in ms :
                    x.roster[m] # None => k \in y.chans[<<x.group[k], m>>]
<1>1. CASE ~Synced(x)
  BY <1>1, NoRound DEF SyncRoster, More
<1>2. CASE Synced(x)
  <2>1. PICK ko \in SetToSeqs(Bridged(x)), mo \in SetToSeqs(Here(x, ms)) :
           y = SyncChannels(x, ko, mo)
    BY <1>2 DEF SyncRoster, Here
  <2> QED
    BY <2>1, SyncRosterMore DEF More, Here
<1> QED
  BY <1>1, <1>2

\* A world in which somebody without a nickname may have quit.
Loose ==
    [group: [Keys -> Groups \cup {None}], reserved: [Keys -> SUBSET Nicks],
     nick: [Slots -> Nicks \cup {None}], shown: [Slots -> Displays \cup {None}],
     chans: [Slots -> SUBSET Keys], away: SUBSET Slots, link: {"none", "up"},
     quitting: SUBSET ((Nicks \cup {None}) \X SUBSET Keys),
     uplink: {"down", "linking", "burst", "synced"},
     roster: [Members -> Displays \cup {None}], absent: SUBSET Members,
     net: SUBSET Nicks, netChans: SUBSET (Nicks \X Keys), netAway: SUBSET Nicks,
     qlines: SUBSET Nicks, others: SUBSET Nicks, early: {"no", "yes"}]

\* Killed leads from such a world to one.
LEMMA KilledLoose ==
    ASSUME NEW x \in Loose, NEW s \in Slots
    PROVE  Killed(x, s) \in Loose /\ Killed(x, s).nick = [x.nick EXCEPT ![s] = None]
<1> DEFINE e == <<x.nick[s], x.chans[s]>>
           n == x.nick[s]
           y == [x EXCEPT !.nick[s] = None, !.shown[s] = None, !.chans[s] = {}]
           z == [y EXCEPT !.away = @ \ {s}, !.quitting = @ \cup {e}]
           v == [z EXCEPT !.net = @ \ {n}, !.netAway = @ \ {n}, !.netChans = {p \in @ : p[1] # n}]
<1>1. e \in (Nicks \cup {None}) \X SUBSET Keys
  BY DEF Loose
<1>2. Quit(x, s) = z
  BY DEF Quit
<1>3. Killed(x, s) = v
  BY <1>2 DEF Killed, Gone
<1> HIDE DEF e, n
<1>4. y \in Loose /\ y.nick = [x.nick EXCEPT ![s] = None]
  BY DEF Loose
<1> HIDE DEF y
<1>5. z \in Loose /\ z.nick = y.nick
  <2> DEFINE a == y.away \ {s}
             q == y.quitting \cup {e}
  <2>1. a \subseteq Slots /\ q \subseteq (Nicks \cup {None}) \X SUBSET Keys
    BY <1>1, <1>4 DEF Loose
  <2>2. z = [y EXCEPT !.away = a, !.quitting = q]
    OBVIOUS
  <2> HIDE DEF a, q, z
  <2> QED
    BY <1>4, <2>1, <2>2 DEF Loose
<1> HIDE DEF z
<1>6. v \in Loose /\ v.nick = z.nick
  BY <1>5 DEF Loose
<1> QED
  BY <1>3, <1>4, <1>5, <1>6

\* Clients that the network quits one after the other.
LEMMA KilledEach ==
    ASSUME NEW x, Fine(x), NEW S \in SUBSET Slots, \A s \in S : x.nick[s] # None
    PROVE  ForEach(x, S, Killed) \in Less(x)
<1> DEFINE n == Cardinality(S)
           z == SetToSeq(S)
           G == [p \in Loose \X S |-> Killed(p[1], p[2])]
           Loop(f) == f = [s \in SUBSET (1..n) |-> IF s = {} THEN x
                             ELSE Killed(f[s \ {Max(s)}], z[Max(s)])]
           I == CHOOSE f : Loop(f)
<1>1. /\ n \in Nat /\ z \in [1..n -> S] /\ DOMAIN z = 1..n
      /\ \A i, j \in 1..n : i # j => z[i] # z[j]
  BY SlotsFinite, FS_Subset, SetToSeqIn
<1>2. x \in World /\ x \in Loose /\ x.nick \in [Slots -> Nicks \cup {None}]
  <2>1. x \in World
    BY DEF Fine, Shape
  <2> QED
    BY <2>1, Fields DEF World, Loose
<1>3. G \in [Loose \X S -> Loose]
  BY KilledLoose
<1>4. PICK f \in [SUBSET (1..n) -> Loose] : IsFold(f, n, x, G, z)
  <2> HIDE DEF G, n, z
  <2> QED
    BY <1>1, <1>2, <1>3, FoldExists
<1>5. ASSUME NEW s \in SUBSET (1..n), s # {}
      PROVE  /\ Max(s) \in s /\ z[Max(s)] \in S
             /\ f[s] = Killed(f[s \ {Max(s)}], z[Max(s)])
  <2> HIDE DEF n, z
  <2>1. Max(s) \in 1..n /\ Max(s) \in s /\ z[Max(s)] \in S
    BY <1>1, <1>5, MaxOf
  <2>2. f[s \ {Max(s)}] \in Loose
    BY <1>1, <2>1
  <2> QED
    BY <1>4, <1>5, <2>1, <2>2 DEF IsFold
<1> HIDE DEF G, n, z
<1>6. Loop(f)
  BY <1>4, <1>5 DEF IsFold
<1>7. Loop(I)
  BY <1>6
<1> USE DEF n, z
<1>8. ForEach(x, S, Killed) = I[1..n]
  BY <1>1 DEF ForEach, FoldLeft, MapThenFoldSet
<1> HIDE DEF I, n, z
<1> DEFINE B == {p \in (SUBSET (1..n)) \X Less(x) :
                   \A i \in (1..n) \ p[1] : p[2].nick[z[i]] = x.nick[z[i]]}
           J == [s \in SUBSET (1..n) |-> <<s, I[s]>>]
<1>9. J[{}] \in B
  <2>1. I[{}] = x
    BY <1>7
  <2>2. J[{}] = <<{}, x>>
    BY <2>1
  <2>3. x \in Less(x)
    BY NoRound
  <2> QED
    BY <2>2, <2>3
<1>10. ASSUME NEW s \in SUBSET (1..n), s # {}, J[s \ {Max(s)}] \in B
       PROVE  J[s] \in B
  <2> DEFINE r == s \ {Max(s)}
             v == I[r]
             c == z[Max(s)]
  <2>1. Max(s) \in s /\ c \in S /\ c \in Slots
    BY <1>5, <1>10
  <2>2. I[s] = Killed(v, c)
    BY <1>7, <1>10
  <2>3. J[r] = <<r, v>>
    OBVIOUS
  <2>4. J[s] = <<s, Killed(v, c)>>
    BY <2>2
  <2> HIDE DEF v, J
  <2>5. v \in Less(x) /\ \A i \in (1..n) \ r : v.nick[z[i]] = x.nick[z[i]]
    BY <1>10, <2>3
  <2>6. Max(s) \in (1..n) \ r
    BY <2>1
  <2>7. v.nick[c] # None
    BY <2>1, <2>5, <2>6
  <2>8. Killed(v, c) \in Less(x)
    <3>1. Fine(v) /\ v \in World
      BY <2>5 DEF Less, Kept
    <3> QED
      BY <2>1, <2>5, <2>7, <3>1, RemoveFine, RemoveShrinks, LessThen
  <2>9. v \in Loose /\ Killed(v, c).nick = [v.nick EXCEPT ![c] = None]
    <3>1. v \in World
      BY <2>5 DEF Less, Kept
    <3>2. v \in Loose
      BY <3>1, Fields DEF World, Loose
    <3> QED
      BY <2>1, <3>2, KilledLoose
  <2>10. v.nick \in [Slots -> Nicks \cup {None}]
    BY <2>9 DEF Loose
  <2>11. ASSUME NEW i \in (1..n) \ s PROVE Killed(v, c).nick[z[i]] = x.nick[z[i]]
    <3>1. i # Max(s) /\ Max(s) \in 1..n /\ i \in (1..n) \ r
      BY <2>1
    <3>2. z[i] # c /\ z[i] \in Slots
      BY <1>1, <3>1
    <3>3. v.nick[z[i]] = x.nick[z[i]]
      BY <2>5, <3>1
    <3> HIDE DEF c
    <3> QED
      BY <2>9, <2>10, <3>2, <3>3
  <2> DEFINE u == Killed(v, c)
  <2> HIDE DEF u, c, r
  <2>12. u \in Less(x) /\ \A i \in (1..n) \ s : u.nick[z[i]] = x.nick[z[i]]
    BY <2>8, <2>11 DEF u
  <2>13. <<s, u>> \in B
    BY <2>12
  <2> QED
    BY <2>4, <2>13 DEF u
<1>11. J[1..n] \in B
  <2> HIDE DEF B, J
  <2> QED
    BY <1>1, <1>9, <1>10, LastStage
<1>12. J[1..n] = <<1..n, I[1..n]>>
  BY <1>1
<1> HIDE DEF J
<1> QED
  BY <1>8, <1>11, <1>12

-----------------------------------------------------------------------------
(* The actions.                                                            *)

\* What a bridge belongs to and who is in the space matter to a client that is
\* wanted, not to those there are.
LEMMA MovedFine ==
    ASSUME NEW x, Fine(x), NEW y \in World,
           y.nick = x.nick, y.chans = x.chans, y.others = x.others,
           y.reserved = x.reserved, y.qlines = x.qlines, y.net = x.net,
           y.netChans = x.netChans, y.uplink = x.uplink,
           \A k \in Keys : y.group[k] = None => x.group[k] = None
    PROVE  Fine(y)
<1>1. Shape(y) /\ Unique(y) /\ Known(y)
  BY DEF Fine, Shape, Unique, Known
<1>2. Bans(y)
  BY DEF Fine, Bans, Synced
<1>3. "burst" \notin Env /\ Synced(y) => Shown(y)
  BY DEF Fine, Shown, Synced
<1> QED
  BY <1>1, <1>2, <1>3 DEF Fine

\* A bridge that is grouped otherwise.
LEMMA GroupFine ==
    ASSUME NEW x, Fine(x), NEW k \in Keys, NEW g \in Groups
    PROVE  Fine([x EXCEPT !.group[k] = g]) /\ [x EXCEPT !.group[k] = g].uplink = x.uplink
<1> DEFINE y == [x EXCEPT !.group[k] = g]
<1>1. x \in World
  BY DEF Fine, Shape
<1>2. /\ y \in World /\ y.nick = x.nick /\ y.chans = x.chans /\ y.others = x.others
      /\ y.reserved = x.reserved /\ y.qlines = x.qlines /\ y.net = x.net
      /\ y.netChans = x.netChans /\ y.uplink = x.uplink /\ y.group = [x.group EXCEPT ![k] = g]
  BY <1>1 DEF World
<1> HIDE DEF y
<1>3. \A j \in Keys : y.group[j] = None => x.group[j] = None
  BY <1>1, <1>2, NoneAssumption, Fields
<1>4. Fine(y)
  BY <1>2, <1>3, MovedFine
<1> QED
  BY <1>2, <1>4 DEF y

\* A member whose display name changes, or who leaves.
LEMMA RosterFine ==
    ASSUME NEW x, Fine(x), NEW m \in Members, NEW d \in Displays \cup {None}
    PROVE  Fine([x EXCEPT !.roster[m] = d]) /\ [x EXCEPT !.roster[m] = d].uplink = x.uplink
<1> DEFINE y == [x EXCEPT !.roster[m] = d]
<1>1. x \in World
  BY DEF Fine, Shape
<1>2. /\ y \in World /\ y.nick = x.nick /\ y.chans = x.chans /\ y.others = x.others
      /\ y.reserved = x.reserved /\ y.qlines = x.qlines /\ y.net = x.net
      /\ y.netChans = x.netChans /\ y.uplink = x.uplink /\ y.group = x.group
  BY <1>1 DEF World
<1> HIDE DEF y
<1>3. Fine(y)
  BY <1>2, MovedFine
<1> QED
  BY <1>2, <1>3 DEF y

\* The link is taken down with its clients.
LEMMA NoLinkFine ==
    ASSUME NEW x, Fine(x)
    PROVE  Fine([x EXCEPT !.link = "none"]) /\ Same(x, [x EXCEPT !.link = "none"])
<1> DEFINE y == [x EXCEPT !.link = "none"]
<1>1. x \in World
  BY DEF Fine, Shape
<1>2. y \in World /\ Alike(x, y)
  BY <1>1 DEF World, Alike, Same
<1> QED
  BY <1>2, AlikeFine DEF Alike

\* What was Fine is Fine when the line is done with.
LEMMA LineKeeps ==
    ASSUME NEW x, Fine(x), "burst" \notin Env /\ x.uplink = "burst" => Shown(x),
           w' = QuitUsers(x)
    PROVE  IInv'
<1> DEFINE y == [x EXCEPT !.quitting = {}]
<1>1. x \in World
  BY DEF Fine, Shape
<1>2. y \in World /\ Alike(x, y) /\ y.quitting = {}
  BY <1>1 DEF World, Alike, Same
<1>3. w' = y
  BY DEF QuitUsers
<1> HIDE DEF y
<1>4. Fine(y)
  BY <1>2, AlikeFine
<1>5. "burst" \notin Env /\ y.uplink = "burst" => Shown(y)
  BY <1>2 DEF Alike, Same, Shown
<1> QED
  BY <1>2, <1>3, <1>4, <1>5 DEF IInv

\* A job or a timer that is let in.
LEMMA QuietKeeps ==
    ASSUME Quiet, Fine(w'), w'.uplink = w.uplink
    PROVE  IInv'
BY DEF Quiet, IInv

\* A bridge is added, or moved to another space.
LEMMA AddStep ==
    ASSUME IInv, NEW k \in Keys, NEW g \in Groups, Add(k, g) \/ Set(k, g)
    PROVE  IInv'
<1> DEFINE x == [w EXCEPT !.group[k] = g]
           y == RetireClients(x, k)
<1>1. Synced(w) /\ Fine(w)
  BY DEF Add, Set, IInv
<1>2. Fine(x) /\ x.uplink = w.uplink
  BY <1>1, GroupFine
<1> HIDE DEF x
<1>3. Fine(y) /\ Same(x, y)
  <2>1. y \in Kept(x)
    BY <1>2, RetireLess DEF Less
  <2> QED
    BY <2>1, KeptIs
<1> HIDE DEF y
<1>4. PICK v \in RefreshRoster(x) \cup RefreshRoster(y) : w' = QuitUsers(v)
  BY DEF Add, Set, Line, x, y
<1>5. Fine(v) /\ v.uplink = w.uplink
  BY <1>2, <1>3, <1>4, SyncRosterFine DEF RefreshRoster, Same
<1> QED
  BY <1>1, <1>4, <1>5, LineKeeps DEF Synced

\* A bridge is deleted: what no other bridge reserves is released.
LEMMA DeletedFine ==
    ASSUME IInv, Synced(w), NEW k \in Keys
    PROVE  LET x == [ReleaseNicks(w, k) EXCEPT !.group[k] = None, !.reserved[k] = {}] IN
           /\ Fine(x) /\ x.nick = w.nick /\ x.chans = w.chans /\ x.others = w.others
           /\ x.quitting = w.quitting /\ x.uplink = w.uplink /\ x.roster = w.roster
           /\ x.group = [w.group EXCEPT ![k] = None]
<1> DEFINE q == {n \in w.qlines : n \notin w.reserved[k]
                                   \/ \E o \in Bridged(w) \ {k} : n \in w.reserved[o]}
           x == [w EXCEPT !.qlines = q, !.group[k] = None, !.reserved[k] = {}]
<1>1. Synced(w) /\ Fine(w) /\ w \in World
  BY DEF IInv, Fine, Shape
<1>2. q \subseteq w.qlines
  OBVIOUS
<1>3. [ReleaseNicks(w, k) EXCEPT !.group[k] = None, !.reserved[k] = {}] = x
  BY <1>1 DEF ReleaseNicks, World
<1>4. \A n \in w.qlines : n \in q <=> n \notin w.reserved[k] \/ \E o \in Bridged(w) \ {k} : n \in w.reserved[o]
  OBVIOUS
<1> HIDE DEF q
<1>5. /\ x \in World /\ x.nick = w.nick /\ x.chans = w.chans /\ x.others = w.others
      /\ x.reserved = [w.reserved EXCEPT ![k] = {}] /\ x.qlines = q /\ x.net = w.net
      /\ x.netChans = w.netChans /\ x.uplink = w.uplink /\ x.group = [w.group EXCEPT ![k] = None]
      /\ x.quitting = w.quitting /\ x.roster = w.roster
  BY <1>1, <1>2 DEF World
<1> HIDE DEF x
<1>7. Bans(x)
  <2>0. w.reserved \in [Keys -> SUBSET Nicks] /\ w.group \in [Keys -> Groups \cup {None}]
        /\ w.qlines \subseteq Nicks
    BY <1>1, Fields
  <2>1. ASSUME NEW n \in x.qlines PROVE \E j \in Keys : n \in x.reserved[j]
    <3>1. n \in w.qlines /\ (n \notin w.reserved[k] \/ \E o \in Bridged(w) \ {k} : n \in w.reserved[o])
      BY <1>2, <1>4, <1>5, <2>1
    <3>2. PICK j \in Keys : n \in w.reserved[j]
      BY <1>1, <3>1 DEF Fine, Bans
    <3> QED
      BY <1>5, <2>0, <3>1, <3>2 DEF Bridged
  <2>2. ASSUME NEW j \in Keys, NEW n \in x.reserved[j] PROVE n \in x.qlines
    <3>1. j # k /\ n \in w.reserved[j]
      BY <1>5, <2>0, <2>2
    <3>2. n \in w.qlines /\ w.group[j] # None
      BY <1>1, <3>1 DEF Fine, Bans
    <3> QED
      BY <1>4, <1>5, <3>1, <3>2 DEF Bridged
  <2>3. ASSUME NEW j \in Keys, x.group[j] = None PROVE x.reserved[j] = {}
    BY <1>1, <1>5, <2>0, <2>3 DEF Fine, Bans
  <2> QED
    BY <2>1, <2>2, <2>3 DEF Bans
<1>8. Shape(x) /\ Unique(x) /\ Known(x)
  BY <1>1, <1>5 DEF Fine, Shape, Unique, Known
<1>9. "burst" \notin Env /\ Synced(x) => Shown(x)
  BY <1>1, <1>5 DEF Fine, Shown
<1>10. Fine(x)
  BY <1>7, <1>8, <1>9 DEF Fine
<1> QED
  BY <1>3, <1>5, <1>10 DEF x

\* What is made of it when the roster was made up for.
LEMMA DelStep ==
    ASSUME IInv, NEW k \in Keys, Del(k)
    PROVE  IInv'
<1> DEFINE x == [ReleaseNicks(w, k) EXCEPT !.group[k] = None, !.reserved[k] = {}]
<1>1. Synced(w) /\ Fine(w)
  BY DEF Del, IInv
<1>2. Fine(x) /\ x.uplink = w.uplink
  BY <1>1, DeletedFine
<1>3. PICK y \in RefreshRoster(x) : w' = QuitUsers(PruneChannels(y))
  BY DEF Del, Line
<1> HIDE DEF x
<1>4. Fine(y) /\ y.uplink = w.uplink
  BY <1>2, <1>3, SyncRosterFine DEF RefreshRoster, Same
<1>5. Fine(PruneChannels(y)) /\ PruneChannels(y).uplink = w.uplink
  <2>1. PruneChannels(y) \in Kept(y)
    BY <1>4, PruneLess DEF Less
  <2> QED
    BY <1>4, <2>1, KeptIs DEF Same
<1> QED
  BY <1>1, <1>3, <1>5, LineKeeps DEF Synced

\* Clients that the network kills, or splits off.
LEMMA KillStep ==
    ASSUME IInv, (\E s \in Slots : Kill(s)) \/ LinkSquit
    PROVE  IInv'
<1>1. Synced(w) /\ Fine(w)
  BY DEF Kill, LinkSquit, IInv
<1>2. ASSUME NEW s \in Slots, Kill(s) PROVE IInv'
  <2>1. w' = QuitUsers(Killed(w, s)) /\ w.nick[s] # None
    BY <1>2 DEF Kill, Line
  <2>2. Fine(Killed(w, s)) /\ Same(w, Killed(w, s))
    BY <1>1, <2>1, RemoveFine
  <2> QED
    BY <1>1, <2>1, <2>2, LineKeeps DEF Synced, Same
<1>3. ASSUME LinkSquit PROVE IInv'
  <2> DEFINE S == {s \in Slots : w.nick[s] # None}
             y == ForEach(w, S, Killed)
             v == [y EXCEPT !.link = "none"]
  <2>1. w' = QuitUsers(v)
    BY <1>3 DEF LinkSquit, Line
  <2>2. Fine(y) /\ Same(w, y)
    <3>1. y \in Kept(w)
      BY <1>1, KilledEach DEF Less
    <3> QED
      BY <3>1, KeptIs
  <2> HIDE DEF y
  <2>3. Fine(v) /\ Same(y, v)
    BY <2>2, NoLinkFine
  <2> HIDE DEF v
  <2> QED
    BY <1>1, <2>1, <2>2, <2>3, LineKeeps DEF Synced, Same
<1> QED
  BY <1>2, <1>3

\* Somebody takes a nickname the network lets him take, or gives it up.
LEMMA StrangerStep ==
    ASSUME IInv, (\E n \in Nicks : StrangerTakes(n)) \/ StrangerLeaves
    PROVE  IInv'
<1>1. PICK o \in SUBSET Nicks :
         /\ Synced(w) /\ o \cap w.net = {}
         /\ w' = QuitUsers([w EXCEPT !.others = o])
  BY DEF StrangerTakes, StrangerLeaves, Line
<1> DEFINE x == [w EXCEPT !.others = o]
<1>2. Fine(w) /\ w \in World
  BY DEF IInv, Fine, Shape
<1>3. /\ x \in World /\ Same(w, x) /\ x.nick = w.nick /\ x.chans = w.chans /\ x.others = o
      /\ x.reserved = w.reserved /\ x.qlines = w.qlines /\ x.net = w.net
      /\ x.netChans = w.netChans
  BY <1>2 DEF World, Same
<1> HIDE DEF x
<1>4. Shape(x) /\ Known(x) /\ Bans(x)
  BY <1>2, <1>3 DEF Fine, Shape, Known, Bans, Synced, Same
<1>5. Unique(x)
  BY <1>1, <1>2, <1>3 DEF Fine, Unique, Known, Synced
<1>6. "burst" \notin Env => Shown(x)
  BY <1>1, <1>2, <1>3 DEF Fine, Shown
<1>7. Fine(x)
  BY <1>4, <1>5, <1>6 DEF Fine
<1> QED
  BY <1>1, <1>3, <1>7, LineKeeps DEF Synced, Same, x

\* Lines that tell of nothing, and the start of a link.
LEMMA LinkingStep ==
    ASSUME IInv, OtherLine \/ UplinkConnects
    PROVE  IInv'
<1>1. Fine(w) /\ w \in World
  BY DEF IInv, Fine, Shape
<1>2. CASE OtherLine
  BY <1>1, <1>2, LineKeeps DEF OtherLine, Line, IInv
<1>3. CASE UplinkConnects
  <2> DEFINE x == [w EXCEPT !.uplink = "linking"]
  <2>1. w' = QuitUsers(x)
    BY <1>3 DEF UplinkConnects, Line
  <2>2. /\ x \in World /\ x.nick = w.nick /\ x.chans = w.chans /\ x.others = w.others
        /\ x.reserved = w.reserved /\ x.qlines = w.qlines /\ x.net = w.net
        /\ x.netChans = w.netChans /\ x.uplink = "linking" /\ x.group = w.group
    BY <1>1 DEF World
  <2> HIDE DEF x
  <2>3. Fine(x)
    BY <1>1, <2>2 DEF Fine, Shape, Unique, Known, Bans, Synced
  <2> QED
    BY <2>1, <2>2, <2>3, LineKeeps
<1> QED
  BY <1>2, <1>3

\* The burst introduces every user in services' list, also those who have quit.
LEMMA BurstStep ==
    ASSUME IInv, UplinkBurst
    PROVE  IInv'
<1> DEFINE live == {<<w.nick[s], w.chans[s]>> : s \in {t \in Slots : w.nick[t] # None}}
           ours == live \cup w.quitting
           N == {p[1] : p \in ours}
           C == UNION {{p[1]} \X p[2] : p \in ours}
           x == [w EXCEPT !.uplink = "burst", !.net = N, !.netChans = C]
<1>1. w' = QuitUsers(x) /\ w.uplink = "linking"
  BY DEF UplinkBurst, Line
<1>2. /\ Fine(w) /\ w \in World /\ w.nick \in [Slots -> Nicks \cup {None}]
      /\ w.chans \in [Slots -> SUBSET Keys] /\ w.quitting \subseteq Nicks \X SUBSET Keys
  BY Fields DEF IInv, Fine, Shape
<1>3. live \subseteq Nicks \X SUBSET Keys
  BY <1>2
<1>4. ours \subseteq Nicks \X SUBSET Keys
  BY <1>2, <1>3
<1>5. \A s \in Slots : w.nick[s] # None => <<w.nick[s], w.chans[s]>> \in ours
  OBVIOUS
<1>6. \A p \in ours \ w.quitting :
         \E s \in Slots : w.nick[s] # None /\ p = <<w.nick[s], w.chans[s]>>
  OBVIOUS
<1> HIDE DEF ours
<1>7. N \subseteq Nicks /\ C \subseteq Nicks \X Keys
  <2>1. N \subseteq Nicks
    BY <1>4
  <2>2. ASSUME NEW p \in ours PROVE {p[1]} \X p[2] \subseteq Nicks \X Keys
    BY <1>4, <2>2
  <2> QED
    BY <2>1, <2>2
<1>8. ASSUME NEW s \in Slots, w.nick[s] # None PROVE w.nick[s] \in N
  <2>1. <<w.nick[s], w.chans[s]>>[1] = w.nick[s]
    OBVIOUS
  <2> QED
    BY <1>5, <1>8, <2>1
<1>9. \A n, k : <<n, k>> \in C <=> \E p \in ours : n = p[1] /\ k \in p[2]
  OBVIOUS
<1>10. \A n : n \in N <=> \E p \in ours : n = p[1]
  OBVIOUS
<1> HIDE DEF N, C
<1>11. /\ x \in World /\ x.nick = w.nick /\ x.chans = w.chans /\ x.others = w.others
       /\ x.reserved = w.reserved /\ x.qlines = w.qlines /\ x.net = N
       /\ x.netChans = C /\ x.uplink = "burst" /\ x.group = w.group
  BY <1>2, <1>7 DEF World
<1> HIDE DEF x
<1>12. Fine(x)
  BY <1>2, <1>8, <1>11 DEF Fine, Shape, Unique, Known, Bans, Synced
<1>13. ASSUME "burst" \notin Env PROVE Shown(x)
  <2>1. w.quitting = {}
    BY <1>1, <1>13 DEF IInv
  <2>2. ASSUME NEW n \in Nicks
        PROVE  n \in x.net <=> n # None /\ \E s \in Slots : x.nick[s] = n
    <3>1. ASSUME n \in x.net PROVE n # None /\ \E s \in Slots : x.nick[s] = n
      <4>1. PICK p \in ours : n = p[1]
        BY <1>10, <1>11, <3>1
      <4>2. PICK s \in Slots : w.nick[s] # None /\ p = <<w.nick[s], w.chans[s]>>
        BY <1>6, <2>1, <4>1
      <4> QED
        BY <1>11, <4>1, <4>2
    <3>2. ASSUME n # None, NEW s \in Slots, x.nick[s] = n PROVE n \in x.net
      BY <1>8, <1>11, <3>2
    <3> QED
      BY <3>1, <3>2
  <2>3. ASSUME NEW n \in Nicks, NEW k \in Keys
        PROVE  <<n, k>> \in x.netChans
                 <=> n # None /\ \E s \in Slots : x.nick[s] = n /\ k \in x.chans[s]
    <3>1. ASSUME <<n, k>> \in x.netChans
          PROVE  n # None /\ \E s \in Slots : x.nick[s] = n /\ k \in x.chans[s]
      <4>1. PICK p \in ours : n = p[1] /\ k \in p[2]
        BY <1>9, <1>11, <3>1
      <4>2. PICK s \in Slots : w.nick[s] # None /\ p = <<w.nick[s], w.chans[s]>>
        BY <1>6, <2>1, <4>1
      <4> QED
        BY <1>11, <4>1, <4>2
    <3>2. ASSUME n # None, NEW s \in Slots, x.nick[s] = n, k \in x.chans[s]
          PROVE  <<n, k>> \in x.netChans
      <4>1. <<w.nick[s], w.chans[s]>> \in ours
        BY <1>5, <1>11, <3>2
      <4>2. n = <<w.nick[s], w.chans[s]>>[1] /\ k \in <<w.nick[s], w.chans[s]>>[2]
        BY <1>11, <3>2
      <4> QED
        BY <1>9, <1>11, <4>1, <4>2
    <3> QED
      BY <3>1, <3>2
  <2> QED
    BY <2>2, <2>3 DEF Shown
<1> QED
  BY <1>1, <1>12, <1>13, LineKeeps

\* The end of the burst: reservations and rosters are made up for.
LEMMA EndedFine ==
    ASSUME IInv, w.uplink = "burst"
    PROVE  LET x == [w EXCEPT !.uplink = "synced",
                              !.qlines = @ \cup UNION {w.reserved[k] : k \in Bridged(w)}] IN
           /\ Fine(x) /\ x.uplink = "synced" /\ x.chans = w.chans /\ x.group = w.group
           /\ x.others = w.others /\ x.quitting = w.quitting
<1> DEFINE q == w.qlines \cup UNION {w.reserved[k] : k \in Bridged(w)}
           x == [w EXCEPT !.uplink = "synced", !.qlines = q]
<1>1. w.uplink = "burst" /\ Fine(w) /\ w \in World
  BY DEF IInv, Fine, Shape
<1>2. w.reserved \in [Keys -> SUBSET Nicks] /\ w.qlines \subseteq Nicks /\ Bridged(w) \subseteq Keys
  BY <1>1, Fields DEF Bridged
<1>3. q \subseteq Nicks
  BY <1>2
<1>4. [w EXCEPT !.uplink = "synced",
                !.qlines = @ \cup UNION {w.reserved[k] : k \in Bridged(w)}] = x
  BY <1>1 DEF World
<1>5. \A n : n \in q <=> n \in w.qlines \/ \E k \in Bridged(w) : n \in w.reserved[k]
  OBVIOUS
<1> HIDE DEF q
<1>6. /\ x \in World /\ x.nick = w.nick /\ x.chans = w.chans /\ x.others = w.others
      /\ x.reserved = w.reserved /\ x.qlines = q /\ x.net = w.net
      /\ x.netChans = w.netChans /\ x.uplink = "synced" /\ x.group = w.group
      /\ x.quitting = w.quitting
  BY <1>1, <1>3 DEF World
<1> HIDE DEF x
<1>8. Shape(x) /\ Unique(x) /\ Known(x)
  BY <1>1, <1>6 DEF Fine, Shape, Unique, Known
<1>9. Bans(x)
  BY <1>1, <1>2, <1>5, <1>6 DEF Fine, Bans, Bridged
<1>10. "burst" \notin Env => Shown(x)
  BY <1>1, <1>6 DEF IInv, Shown
<1>11. Fine(x)
  BY <1>8, <1>9, <1>10 DEF Fine
<1> QED
  BY <1>4, <1>6, <1>11 DEF x

\* And every bridge's roster is sent.
LEMMA EndBurstStep ==
    ASSUME IInv, EndBurst
    PROVE  IInv'
<1> DEFINE x == [w EXCEPT !.uplink = "synced",
                          !.qlines = @ \cup UNION {w.reserved[k] : k \in Bridged(w)}]
<1>1. Fine(x) /\ x.uplink = "synced"
  BY EndedFine DEF EndBurst
<1>2. PICK y \in RefreshRoster(x) : w' = QuitUsers(y)
  BY DEF EndBurst, OnUplinkSync, Line
<1> HIDE DEF x
<1>3. Fine(y) /\ y.uplink = "synced"
  BY <1>1, <1>2, SyncRosterFine DEF RefreshRoster, Same
<1> QED
  BY <1>2, <1>3, LineKeeps

\* The uplink is lost, and what it told of with it.
LEMMA LostStep ==
    ASSUME IInv, UplinkLost
    PROVE  IInv'
<1>1. PICK q \in {w.qlines, {}} :
         w' = [w EXCEPT !.uplink = "down", !.net = {}, !.netChans = {}, !.netAway = {},
                        !.qlines = q, !.others = {},
                        !.quitting = @ \cup {<<n, {}>> : n \in w.others}]
  BY DEF UplinkLost
<1> DEFINE Q == {<<n, {}>> : n \in w.others}
<1>2. Fine(w) /\ w \in World /\ w.others \subseteq Nicks /\ w.qlines \subseteq Nicks
  BY Fields DEF IInv, Fine, Shape
<1>3. Q \subseteq Nicks \X SUBSET Keys
  BY <1>2
<1>4. q \subseteq w.qlines
  OBVIOUS
<1> HIDE DEF Q
<1>5. /\ w' \in World /\ w'.nick = w.nick /\ w'.chans = w.chans /\ w'.others = {}
      /\ w'.reserved = w.reserved /\ w'.qlines = q /\ w'.uplink = "down" /\ w'.group = w.group
  <2> DEFINE y == [w EXCEPT !.uplink = "down", !.net = {}, !.netChans = {}, !.netAway = {},
                            !.qlines = q, !.others = {}, !.quitting = @ \cup Q]
  <2>1. w' = y
    BY <1>1 DEF Q
  <2>2. /\ y \in World /\ y.nick = w.nick /\ y.chans = w.chans /\ y.others = {}
        /\ y.reserved = w.reserved /\ y.qlines = q /\ y.uplink = "down" /\ y.group = w.group
    BY <1>2, <1>3, <1>4 DEF World
  <2> QED
    BY <2>1, <2>2
<1>6. Fine(w')
  BY <1>2, <1>4, <1>5 DEF Fine, Shape, Unique, Known, Bans, Synced
<1> QED
  BY <1>5, <1>6 DEF IInv

\* What the mailbox and the timers do.
LEMMA JobStep ==
    ASSUME IInv,
           \/ \E m \in Members, d \in Displays : MemberIs(m, d)
           \/ \E m \in Members : MemberLeaves(m) \/ Presence(m)
           \/ \E k \in Keys, m \in Members, d \in Displays : Speak(k, m, d)
           \/ \E idle \in SUBSET Slots : ReapIdleUsers(idle)
           \/ DomainChanged
    PROVE  IInv'
<1>0. Fine(w) /\ w \in World /\ w.group \in [Keys -> Groups \cup {None}]
  BY Fields DEF IInv, Fine, Shape
<1>1. ASSUME NEW m \in Members, NEW d \in Displays, MemberIs(m, d) PROVE IInv'
  <2> DEFINE x == [w EXCEPT !.roster[m] = d]
  <2>1. Fine(x) /\ x.uplink = w.uplink
    BY <1>0, RosterFine
  <2>2. w' \in SyncRoster(x, {m}) /\ Quiet
    BY <1>1 DEF MemberIs
  <2> HIDE DEF x
  <2>3. Fine(w') /\ Same(x, w')
    BY <2>1, <2>2, SyncRosterFine
  <2> QED
    BY <2>1, <2>2, <2>3, QuietKeeps DEF Same
<1>2. ASSUME NEW m \in Members, MemberLeaves(m) PROVE IInv'
  <2> DEFINE x == [w EXCEPT !.roster[m] = None]
             S == {<<x.group[k], m>> : k \in Bridged(x)}
  <2>1. Fine(x) /\ x.uplink = w.uplink
    BY <1>0, RosterFine
  <2>2. w' = RemoveMember(x, m) /\ Quiet
    BY <1>2 DEF MemberLeaves
  <2> HIDE DEF x
  <2>3. S \subseteq Slots
    <3>1. x.group \in [Keys -> Groups \cup {None}]
      BY <2>1, Fields DEF Fine, Shape
    <3> QED
      BY <3>1 DEF Bridged, Slots
  <2>4. w' = ForEach(x, S, RemoveClient)
    BY <2>2 DEF RemoveMember
  <2> HIDE DEF S
  <2>5. w' \in Kept(x)
    BY <2>1, <2>3, <2>4, RemoveEach DEF Cut, Less
  <2> QED
    BY <2>1, <2>2, <2>5, QuietKeeps, KeptIs DEF Same
<1>3. ASSUME NEW m \in Members, Presence(m) PROVE IInv'
  <2> DEFINE a == m \notin w.absent
             B == IF a THEN w.absent \cup {m} ELSE w.absent \ {m}
             x == [w EXCEPT !.absent = B]
             S == {<<x.group[k], m>> : k \in Bridged(x)}
  <2>1. B \subseteq Members
    BY <1>0, Fields
  <2>2. a \in BOOLEAN
    OBVIOUS
  <2>3. Quiet /\ w' = SetPresence(x, m, a)
    BY <1>0, <1>3 DEF Presence
  <2> HIDE DEF B, a
  <2>4. x \in World /\ Alike(w, x)
    BY <1>0, <2>1 DEF World, Alike, Same
  <2> HIDE DEF x
  <2>5. Fine(x) /\ x.uplink = w.uplink
    BY <1>0, <2>4, AlikeFine DEF Alike, Same
  <2>6. S \subseteq Slots
    <3>1. x.group \in [Keys -> Groups \cup {None}]
      BY <2>4, Fields
    <3> QED
      BY <3>1 DEF Bridged, Slots
  <2>7. w' = ForEach(x, S, LAMBDA y, s : SetClientAway(y, s, a))
    BY <2>3 DEF SetPresence
  <2> HIDE DEF S
  <2>8. w' \in Kept(x)
    BY <2>2, <2>5, <2>6, <2>7, AwayEach DEF Calm
  <2> QED
    BY <2>3, <2>5, <2>8, QuietKeeps, KeptIs DEF Same
<1>4. ASSUME NEW k \in Keys, NEW m \in Members, NEW d \in Displays, Speak(k, m, d) PROVE IInv'
  <2> DEFINE s == <<w.group[k], m>>
             x == EnsureClient(w, k, m, d)
  <2>1. Quiet /\ w.group[k] # None /\ w' = EnsureJoin(x, s, k)
    BY <1>4 DEF Speak
  <2>2. s \in Slots
    BY <1>0, <2>1 DEF Slots
  <2> HIDE DEF s
  <2>3. Fine(x) /\ Same(w, x)
    BY <1>0, <2>1, EnsureFine
  <2> HIDE DEF x
  <2>4. Fine(w') /\ Same(x, w')
    BY <2>1, <2>2, <2>3, JoinFine
  <2> QED
    BY <2>1, <2>3, <2>4, QuietKeeps DEF Same
<1>5. ASSUME NEW idle \in SUBSET Slots, ReapIdleUsers(idle) PROVE IInv'
  <2>1. Quiet /\ w' = ForEach(w, idle, RemoveClient)
    BY <1>5 DEF ReapIdleUsers
  <2>2. w' \in Kept(w)
    BY <1>0, <2>1, RemoveEach DEF Cut, Less
  <2> QED
    BY <2>1, <2>2, QuietKeeps, KeptIs DEF Same
<1>6. ASSUME DomainChanged PROVE IInv'
  <2> DEFINE S == {s \in Slots : w.nick[s] # None}
             y == ForEach(w, S, RemoveClient)
             x == [y EXCEPT !.link = "none"]
  <2>1. Quiet /\ w' \in RefreshRoster(x)
    BY <1>6 DEF DomainChanged, RemoveAllClients
  <2>2. Fine(y) /\ Same(w, y)
    <3>1. y \in Kept(w)
      BY <1>0, RemoveEach DEF Cut, Less
    <3> QED
      BY <3>1, KeptIs
  <2> HIDE DEF y
  <2>3. Fine(x) /\ Same(y, x)
    BY <2>2, NoLinkFine
  <2> HIDE DEF x
  <2>4. Fine(w') /\ Same(x, w')
    BY <2>1, <2>3, SyncRosterFine DEF RefreshRoster
  <2> QED
    BY <2>1, <2>2, <2>3, <2>4, QuietKeeps DEF Same
<1> QED
  BY <1>1, <1>2, <1>3, <1>4, <1>5, <1>6

-----------------------------------------------------------------------------
(* Who is in what channel.                                                 *)

\* A client is only in channels that are bridged under its own suffix.
Own(x) == \A s \in Slots : \A k \in x.chans[s] : x.group[k] = s[1]

\* Every member of the space is in every bridged channel.
Full(x) ==
    Synced(x) => \A k \in Bridged(x), m \in Members :
                    x.roster[m] # None => k \in x.chans[<<x.group[k], m>>]

\* Few nicknames linger: those of the clients there were since the last line,
\* and of one stranger.
Few(x) ==
    /\ IsFiniteSet(x.quitting) /\ \E n : x.others \subseteq {n}
    /\ Cardinality(Out(x)) <= Cardinality(Slots) + MaxQuits + 1

\* Nobody takes a client away, and nicknames do not run out: one display name
\* may be that of all clients, of all that were retired since the last line, by
\* a handler that has all of them retired once more, and of a stranger.
Roomy ==
    /\ Env \cap {"kill", "squit", "reap"} = {}
    /\ MaxTag > 3 * Cardinality(Slots) + MaxQuits

PInv == Own(w) /\ Few(w) /\ (Roomy => Full(w))

\* Out has one nickname of everyone who has quit, and the stranger's.
LEMMA OutBound ==
    ASSUME NEW x, IsFiniteSet(x.quitting), NEW n, x.others \subseteq {n}
    PROVE  /\ IsFiniteSet(Out(x)) /\ Cardinality(Out(x)) \in Nat
           /\ Cardinality(Out(x)) <= Cardinality(x.quitting) + 1
<1> DEFINE Q == {q[1] : q \in x.quitting}
           f == [q \in x.quitting |-> q[1]]
<1>1. f \in Surjection(x.quitting, Q)
  <2>1. f \in [x.quitting -> Q]
    OBVIOUS
  <2>2. ASSUME NEW h \in Q PROVE \E q \in x.quitting : f[q] = h
    BY <2>2
  <2> HIDE DEF f, Q
  <2> QED
    BY <2>1, <2>2 DEF Surjection
<1> HIDE DEF f
<1>2. IsFiniteSet(Q) /\ Cardinality(Q) <= Cardinality(x.quitting)
  <2> HIDE DEF Q
  <2> QED
    BY <1>1, FS_Surjection
<1>3. Out(x) \subseteq Q \cup {n}
  BY DEF Out
<1> HIDE DEF Q
<1>4. IsFiniteSet(Q \cup {n}) /\ Cardinality(Q \cup {n}) <= Cardinality(Q) + 1
  <2>1. Cardinality(Q) \in Nat
    BY <1>2, FS_CardinalityType
  <2>2. /\ IsFiniteSet(Q \cup {n})
        /\ Cardinality(Q \cup {n}) = Cardinality(Q) \/ Cardinality(Q \cup {n}) = Cardinality(Q) + 1
    BY <1>2, FS_AddElement
  <2> QED
    BY <2>1, <2>2
<1>5. IsFiniteSet(Out(x)) /\ Cardinality(Out(x)) <= Cardinality(Q \cup {n})
  BY <1>3, <1>4, FS_Subset
<1>6. /\ Cardinality(Q) \in Nat /\ Cardinality(x.quitting) \in Nat
      /\ Cardinality(Q \cup {n}) \in Nat /\ Cardinality(Out(x)) \in Nat
  BY <1>2, <1>4, <1>5, FS_CardinalityType
<1> QED
  BY <1>2, <1>4, <1>5, <1>6

\* They are the lingering ones of all that are held.
LEMMA OutShrunk ==
    ASSUME NEW x \in World, Few(x), NEW y, Shrunk(x, y)
    PROVE  /\ IsFiniteSet(y.quitting) /\ (\E n : y.others \subseteq {n})
           /\ IsFiniteSet(Out(x)) /\ Cardinality(Out(x)) \in Nat
           /\ IsFiniteSet(Out(y)) /\ Cardinality(Out(y)) \in Nat
           /\ Cardinality(Out(y)) <= Cardinality(Slots) + Cardinality(Out(x))
<1>1. IsFiniteSet(y.quitting) /\ \E n : y.others \subseteq {n}
  BY DEF Few, Shrunk
<1>2. IsFiniteSet(Out(x)) /\ Cardinality(Out(x)) \in Nat /\ IsFiniteSet(Out(y)) /\ Cardinality(Out(y)) \in Nat
  BY <1>1, OutBound DEF Few
<1>3. Out(y) \subseteq Held(x)
  BY DEF Out, Held, Shrunk
<1>4. /\ IsFiniteSet(Held(x)) /\ Cardinality(Held(x)) \in Nat
      /\ Cardinality(Held(x)) <= Cardinality(Slots) + Cardinality(Out(x))
  BY <1>2, HeldBound
<1>5. Cardinality(Out(y)) <= Cardinality(Held(x))
  BY <1>3, <1>4, FS_Subset
<1>6. Cardinality(Slots) \in Nat
  BY SlotsFinite, FS_CardinalityType
<1> QED
  BY <1>1, <1>2, <1>4, <1>5, <1>6

\* Where they may be few before, they are few after.
LEMMA ShrunkFew ==
    ASSUME NEW x \in World, Few(x), Cardinality(x.quitting) < MaxQuits, NEW y, Shrunk(x, y)
    PROVE  Few(y)
<1>1. PICK n : x.others \subseteq {n}
  BY DEF Few
<1>2. Cardinality(Out(x)) <= Cardinality(x.quitting) + 1
  BY <1>1, OutBound DEF Few
<1>3. Cardinality(Slots) \in Nat /\ Cardinality(x.quitting) \in Nat /\ MaxQuits \in Nat
  BY SlotsFinite, FS_CardinalityType, TagAssumption DEF Few
<1>4. /\ IsFiniteSet(y.quitting) /\ (\E h : y.others \subseteq {h})
      /\ Cardinality(Out(x)) \in Nat /\ Cardinality(Out(y)) \in Nat
      /\ Cardinality(Out(y)) <= Cardinality(Slots) + Cardinality(Out(x))
  BY OutShrunk
<1>5. Cardinality(Out(y)) <= Cardinality(Slots) + MaxQuits + 1
  BY <1>2, <1>3, <1>4
<1> QED
  BY <1>4, <1>5 DEF Few

\* There is room for every client once more, also when all were retired.
LEMMA ShrunkRoom ==
    ASSUME NEW x \in World, Few(x), Roomy, NEW y, Shrunk(x, y)
    PROVE  Room(y)
<1>1. Cardinality(Slots) \in Nat /\ MaxQuits \in Nat /\ MaxTag \in Nat
  BY SlotsFinite, FS_CardinalityType, TagAssumption
<1>2. /\ IsFiniteSet(Out(y)) /\ Cardinality(Out(x)) \in Nat /\ Cardinality(Out(y)) \in Nat
      /\ Cardinality(Out(y)) <= Cardinality(Slots) + Cardinality(Out(x))
  BY OutShrunk
<1>3. Cardinality(Out(x)) <= Cardinality(Slots) + MaxQuits + 1
  BY DEF Few
<1>4. MaxTag > 3 * Cardinality(Slots) + MaxQuits
  BY DEF Roomy
<1>5. Cardinality(Out(y)) + Cardinality(Slots) <= MaxTag
  BY <1>1, <1>2, <1>3, <1>4
<1> QED
  BY <1>2, <1>5 DEF Room

\* What is Few depends on who lingers.
LEMMA SameFew ==
    ASSUME NEW x, Few(x), NEW y, y.quitting = x.quitting, y.others = x.others
    PROVE  Few(y)
BY DEF Few, Out

\* There is room where few linger.
LEMMA FewRoom ==
    ASSUME NEW x \in World, Few(x), Roomy, NEW y, y.quitting = x.quitting, y.others = x.others
    PROVE  Room(y)
<1>1. Shrunk(x, x)
  BY DEF Shrunk
<1>2. Room(x)
  BY <1>1, ShrunkRoom
<1> QED
  BY <1>2 DEF Room, Out

\* Clients that leave channels are in the right ones.
LEMMA ShrunkOwn ==
    ASSUME NEW x, Own(x), NEW y, Shrunk(x, y), y.group = x.group
    PROVE  Own(y)
BY DEF Own, Shrunk

\* So are those that join.
LEMMA GrownOwn ==
    ASSUME NEW x, Own(x), NEW y, Grown(x, y), Same(x, y)
    PROVE  Own(y)
BY DEF Own, Grown, Same

\* Full is not lost by clients that join.
LEMMA GrownFull ==
    ASSUME NEW x \in World, Full(x), NEW y, Grown(x, y), Same(x, y)
    PROVE  Full(y)
<1> SUFFICES ASSUME Synced(y), NEW k \in Bridged(y), NEW m \in Members, y.roster[m] # None
             PROVE  k \in y.chans[<<y.group[k], m>>]
  BY DEF Full
<1>1. Synced(x) /\ k \in Bridged(x) /\ x.roster[m] # None /\ y.group = x.group
  BY DEF Same, Synced, Bridged
<1>2. <<x.group[k], m>> \in Slots
  BY <1>1, Fields DEF Slots, Bridged
<1>3. k \in x.chans[<<x.group[k], m>>]
  BY <1>1 DEF Full
<1> QED
  BY <1>1, <1>2, <1>3 DEF Grown

\* The roster that was just made up for is full.
LEMMA RefreshFull ==
    ASSUME NEW x, Fine(x), Room(x), NEW y \in RefreshRoster(x)
    PROVE  Full(y)
<1>1. Same(x, y)
  BY SyncRosterFine DEF RefreshRoster
<1>2. Synced(x) => \A k \in Bridged(x), m \in Members :
         x.roster[m] # None => k \in y.chans[<<x.group[k], m>>]
  BY SyncRosterGrows DEF RefreshRoster
<1> QED
  BY <1>1, <1>2 DEF Full, Same, Synced, Bridged

\* Nobody lingers but a stranger when a line is done with.
LEMMA CleanFew ==
    ASSUME NEW x, x.quitting = {}, NEW n, x.others \subseteq {n}
    PROVE  Few(x)
<1>1. IsFiniteSet(x.quitting) /\ Cardinality(x.quitting) = 0
  BY FS_EmptySet
<1>2. Cardinality(Out(x)) \in Nat /\ Cardinality(Out(x)) <= Cardinality(x.quitting) + 1
  BY <1>1, OutBound
<1>3. Cardinality(Slots) \in Nat /\ MaxQuits \in Nat
  BY SlotsFinite, FS_CardinalityType, TagAssumption
<1>4. Cardinality(Out(x)) <= Cardinality(Slots) + MaxQuits + 1
  BY <1>1, <1>2, <1>3
<1> QED
  BY <1>1, <1>4 DEF Few

\* A job or a timer.
LEMMA JobPInv ==
    ASSUME Own(w'), Few(w'), Roomy => Full(w')
    PROVE  PInv'
BY DEF PInv, Own, Few, Full, Out, Synced, Bridged

\* What holds before the line is done with, holds after.
LEMMA LinePInv ==
    ASSUME NEW x \in World, Own(x), NEW n, x.others \subseteq {n}, Roomy => Full(x),
           w' = QuitUsers(x)
    PROVE  PInv'
<1> DEFINE y == [x EXCEPT !.quitting = {}]
<1>1. /\ y.quitting = {} /\ y.group = x.group /\ y.chans = x.chans /\ y.others = x.others
      /\ y.roster = x.roster /\ y.uplink = x.uplink
  BY DEF World
<1>2. w' = y
  BY DEF QuitUsers
<1> HIDE DEF y
<1>3. Own(y)
  BY <1>1 DEF Own
<1>4. Roomy => Full(y)
  BY <1>1 DEF Full, Synced, Bridged
<1>5. Few(y)
  BY <1>1, CleanFew
<1>6. Own(w') /\ Few(w') /\ (Roomy => Full(w'))
  BY <1>2, <1>3, <1>4, <1>5
<1> QED
  BY <1>6, JobPInv

\* Bridges that are added or moved.
LEMMA AddOwn ==
    ASSUME IInv, PInv, NEW k \in Keys, NEW g \in Groups, Add(k, g) \/ Set(k, g)
    PROVE  PInv'
<1> DEFINE x == [w EXCEPT !.group[k] = g]
           y == RetireClients(x, k)
<1>1. /\ Synced(w) /\ Fine(w) /\ w \in World /\ Own(w) /\ Few(w)
      /\ w.group \in [Keys -> Groups \cup {None}] /\ w.chans \in [Slots -> SUBSET Keys]
  BY Fields DEF Add, Set, IInv, PInv, Fine, Shape
<1>2. Fine(x)
  BY <1>1, GroupFine
<1>3. /\ x \in World /\ x.quitting = w.quitting /\ x.others = w.others /\ x.chans = w.chans
      /\ x.group = [w.group EXCEPT ![k] = g] /\ x.nick = w.nick
  BY <1>1 DEF World
<1>4. PICK n : w.others \subseteq {n}
  BY <1>1 DEF Few
<1>5. ASSUME NEW z, Fine(z), Own(z), z.others = w.others, Roomy => Room(z),
             NEW v \in RefreshRoster(z), w' = QuitUsers(v)
      PROVE  PInv'
  <2>1. Fine(v) /\ v \in World /\ Same(z, v) /\ Grown(z, v)
    BY <1>5, SyncRosterFine, SyncRosterGrows DEF RefreshRoster, Fine, Shape
  <2>2. Own(v) /\ v.others \subseteq {n}
    BY <1>4, <1>5, <2>1, GrownOwn DEF Grown
  <2>3. Roomy => Full(v)
    BY <1>5, RefreshFull
  <2> QED
    BY <1>5, <2>1, <2>2, <2>3, LinePInv
<1> HIDE DEF x
<1>6. CASE Add(k, g)
  <2>1. PICK v \in RefreshRoster(x) : w' = QuitUsers(v)
    BY <1>6 DEF Add, Line, x
  <2>2. w.group[k] = None
    BY <1>6 DEF Add
  <2>3. Own(x)
    <3>1. ASSUME NEW s \in Slots, NEW j \in x.chans[s] PROVE x.group[j] = s[1]
      <4>1. j \in Keys /\ w.group[j] = s[1] /\ s[1] \in Groups
        BY <1>1, <1>3, <3>1 DEF Own, Slots
      <4> QED
        BY <1>1, <1>3, <2>2, <4>1, NoneAssumption
    <3> QED
      BY <3>1 DEF Own
  <2>4. Roomy => Room(x)
    BY <1>1, <1>3, FewRoom
  <2> QED
    BY <1>2, <1>3, <1>5, <2>1, <2>3, <2>4
<1>7. CASE Set(k, g)
  <2>1. PICK v \in RefreshRoster(y) : w' = QuitUsers(v)
    BY <1>7 DEF Set, Line, x
  <2>2. y \in Less(x) /\ \A c \in Slots : k \notin y.chans[c]
    BY <1>2, RetireLess
  <2> HIDE DEF y
  <2>3. Fine(y) /\ Same(x, y) /\ Shrunk(x, y)
    BY <2>2 DEF Less, Kept
  <2>4. Own(y)
    <3>1. ASSUME NEW s \in Slots, NEW j \in y.chans[s] PROVE y.group[j] = s[1]
      <4>1. j # k /\ j \in w.chans[s]
        BY <1>3, <2>2, <2>3, <3>1 DEF Shrunk
      <4>2. j \in Keys /\ w.group[j] = s[1]
        BY <1>1, <4>1 DEF Own
      <4>3. y.group = [w.group EXCEPT ![k] = g]
        BY <1>3, <2>3 DEF Same
      <4> QED
        BY <1>1, <4>1, <4>2, <4>3
    <3> QED
      BY <3>1 DEF Own
  <2>5. Few(x)
    BY <1>1, <1>3, SameFew
  <2>6. Roomy => Room(y)
    BY <1>3, <2>3, <2>5, ShrunkRoom
  <2>7. y.others = w.others
    BY <1>3, <2>3 DEF Shrunk
  <2> QED
    BY <1>5, <2>1, <2>3, <2>4, <2>6, <2>7
<1> QED
  BY <1>6, <1>7

\* A bridge is deleted: its channel is left.
LEMMA DelOwn ==
    ASSUME IInv, PInv, NEW k \in Keys, Del(k)
    PROVE  PInv'
<1> DEFINE x == [ReleaseNicks(w, k) EXCEPT !.group[k] = None, !.reserved[k] = {}]
<1>1. /\ Synced(w) /\ Fine(w) /\ w \in World /\ Own(w) /\ Few(w)
      /\ w.group \in [Keys -> Groups \cup {None}] /\ w.chans \in [Slots -> SUBSET Keys]
  BY Fields DEF Del, IInv, PInv, Fine, Shape
<1>2. /\ Fine(x) /\ x.chans = w.chans /\ x.others = w.others
      /\ x.quitting = w.quitting /\ x.group = [w.group EXCEPT ![k] = None]
  BY <1>1, DeletedFine
<1>3. PICK y \in RefreshRoster(x) : w' = QuitUsers(PruneChannels(y))
  BY DEF Del, Line
<1> HIDE DEF x
<1>4. Fine(y) /\ y \in World /\ Same(x, y) /\ Grown(x, y)
  BY <1>2, <1>3, SyncRosterFine, SyncRosterGrows DEF RefreshRoster, Fine, Shape
<1>5. Roomy => Full(y)
  <2>1. Roomy => Room(x)
    BY <1>1, <1>2, FewRoom
  <2> QED
    BY <1>2, <1>3, <2>1, RefreshFull
<1> DEFINE z == PruneChannels(y)
<1>6. /\ z \in Less(y) /\ \A c \in Slots : z.chans[c] = y.chans[c] \cap Bridged(y)
  BY <1>4, PruneLess
<1> HIDE DEF z
<1>7. Fine(z) /\ z \in World /\ Same(y, z) /\ z.others = y.others
  BY <1>6 DEF Less, Kept, Shrunk
<1>8. Own(z)
  <2>1. ASSUME NEW s \in Slots, NEW j \in z.chans[s] PROVE z.group[j] = s[1]
    <3>1. j \in y.chans[s] /\ j \in Keys /\ y.group[j] # None /\ z.group = y.group /\ y.group = x.group
      BY <1>4, <1>6, <1>7, <2>1 DEF Same, Bridged
    <3>2. CASE j \in x.chans[s]
      BY <1>1, <1>2, <3>1, <3>2 DEF Own
    <3>3. CASE j \notin x.chans[s]
      BY <1>4, <3>1, <3>3 DEF Grown
    <3> QED
      BY <3>2, <3>3
  <2> QED
    BY <2>1 DEF Own
<1>9. Roomy => Full(z)
  <2> SUFFICES ASSUME Roomy, Synced(z), NEW j \in Bridged(z), NEW m \in Members, z.roster[m] # None
               PROVE  j \in z.chans[<<z.group[j], m>>]
    BY DEF Full
  <2>1. Synced(y) /\ j \in Bridged(y) /\ y.roster[m] # None /\ z.group = y.group
    BY <1>7 DEF Same, Synced, Bridged
  <2>2. <<y.group[j], m>> \in Slots
    BY <1>4, <2>1, Fields DEF Slots, Bridged
  <2>3. j \in y.chans[<<y.group[j], m>>]
    BY <1>5, <2>1 DEF Full
  <2> QED
    BY <1>6, <2>1, <2>2, <2>3
<1>10. \E n : z.others \subseteq {n}
  BY <1>1, <1>2, <1>4, <1>7 DEF Few, Grown
<1> QED
  BY <1>3, <1>7, <1>8, <1>9, <1>10, LinePInv DEF z

\* Clients that the network kills, or splits off.
LEMMA KillOwn ==
    ASSUME IInv, PInv, (\E s \in Slots : Kill(s)) \/ LinkSquit
    PROVE  PInv'
<1>1. Fine(w) /\ w \in World /\ Own(w) /\ Few(w) /\ ~Roomy
  BY DEF Kill, LinkSquit, IInv, PInv, Fine, Shape, Roomy
<1>2. ASSUME NEW y \in World, Shrunk(w, y), y.group = w.group, w' = QuitUsers(y) PROVE PInv'
  <2>1. Own(y)
    BY <1>1, <1>2, ShrunkOwn
  <2>2. PICK n : y.others \subseteq {n}
    BY <1>1, <1>2 DEF Few, Shrunk
  <2> QED
    BY <1>1, <1>2, <2>1, <2>2, LinePInv
<1>3. ASSUME NEW s \in Slots, Kill(s) PROVE PInv'
  <2>1. w' = QuitUsers(Killed(w, s)) /\ w.nick[s] # None
    BY <1>3 DEF Kill, Line
  <2>2. Fine(Killed(w, s)) /\ Same(w, Killed(w, s)) /\ Shrunk(w, Killed(w, s))
    BY <1>1, <2>1, RemoveFine, RemoveShrinks
  <2> QED
    BY <1>2, <2>1, <2>2 DEF Same, Fine, Shape
<1>4. ASSUME LinkSquit PROVE PInv'
  <2> DEFINE S == {s \in Slots : w.nick[s] # None}
             y == ForEach(w, S, Killed)
             v == [y EXCEPT !.link = "none"]
  <2>1. w' = QuitUsers(v)
    BY <1>4 DEF LinkSquit, Line
  <2>2. y \in Less(w)
    BY <1>1, KilledEach
  <2> HIDE DEF y
  <2>3. y \in World /\ Shrunk(w, y) /\ Same(w, y)
    BY <2>2 DEF Less, Kept
  <2>4. v \in World /\ v.chans = y.chans /\ v.group = y.group /\ v.others = y.others
        /\ v.quitting = y.quitting /\ v.nick = y.nick
    BY <2>3 DEF World
  <2> HIDE DEF v
  <2>5. Held(v) = Held(y)
    BY <2>4 DEF Held
  <2>6. Shrunk(w, v) /\ v.group = w.group
    BY <2>3, <2>4, <2>5 DEF Shrunk, Same
  <2> QED
    BY <1>2, <2>1, <2>4, <2>6
<1> QED
  BY <1>3, <1>4

\* Lines that change no bridge, no member of the space and no client.
LEMMA OtherOwn ==
    ASSUME IInv, PInv,
           \/ (\E n \in Nicks : StrangerTakes(n)) \/ StrangerLeaves
           \/ OtherLine \/ UplinkConnects \/ UplinkBurst
    PROVE  PInv'
<1>1. Fine(w) /\ w \in World /\ Own(w) /\ Few(w) /\ (Roomy => Full(w))
  BY DEF IInv, PInv, Fine, Shape
<1>2. ASSUME NEW y \in World, y.chans = w.chans, y.group = w.group, y.roster = w.roster,
             Synced(y) => Synced(w), NEW n, y.others \subseteq {n}, w' = QuitUsers(y)
      PROVE  PInv'
  <2>1. Own(y)
    BY <1>1, <1>2 DEF Own
  <2>2. Roomy => Full(y)
    BY <1>1, <1>2 DEF Full, Bridged
  <2> QED
    BY <1>2, <2>1, <2>2, LinePInv
<1>3. PICK n : w.others \subseteq {n}
  BY <1>1 DEF Few
<1>4. CASE (\E m \in Nicks : StrangerTakes(m)) \/ StrangerLeaves
  <2>1. PICK o \in SUBSET Nicks :
           /\ Synced(w) /\ \E h : o \subseteq {h}
           /\ w' = QuitUsers([w EXCEPT !.others = o])
    <3>1. ASSUME NEW m \in Nicks, StrangerTakes(m)
          PROVE  /\ {m} \in SUBSET Nicks /\ Synced(w) /\ \E h : {m} \subseteq {h}
                 /\ w' = QuitUsers([w EXCEPT !.others = {m}])
      BY <3>1 DEF StrangerTakes, Line
    <3>2. ASSUME StrangerLeaves
          PROVE  /\ {} \in SUBSET Nicks /\ Synced(w) /\ \E h : {} \subseteq {h}
                 /\ w' = QuitUsers([w EXCEPT !.others = {}])
      BY <3>2 DEF StrangerLeaves, Line
    <3> QED
      BY <1>4, <3>1, <3>2
  <2>2. PICK h : o \subseteq {h}
    BY <2>1
  <2> DEFINE y == [w EXCEPT !.others = o]
  <2>3. /\ y \in World /\ y.chans = w.chans /\ y.group = w.group /\ y.roster = w.roster
        /\ y.others = o
    BY <1>1 DEF World
  <2> QED
    BY <1>2, <2>1, <2>2, <2>3
<1>5. CASE OtherLine
  BY <1>1, <1>2, <1>3, <1>5 DEF OtherLine, Line
<1>6. CASE UplinkConnects
  <2> DEFINE y == [w EXCEPT !.uplink = "linking"]
  <2>1. /\ y \in World /\ y.chans = w.chans /\ y.group = w.group /\ y.roster = w.roster
        /\ y.others = w.others /\ ~Synced(y)
    BY <1>1 DEF World, Synced
  <2>2. w' = QuitUsers(y)
    BY <1>6 DEF UplinkConnects, Line
  <2> HIDE DEF y
  <2> QED
    BY <1>2, <1>3, <2>1, <2>2
<1>7. CASE UplinkBurst
  <2> DEFINE ours == {<<w.nick[s], w.chans[s]>> : s \in {t \in Slots : w.nick[t] # None}}
                     \cup w.quitting
             N == {p[1] : p \in ours}
             C == UNION {{p[1]} \X p[2] : p \in ours}
             x == [w EXCEPT !.uplink = "burst", !.net = N, !.netChans = C]
             y == [x EXCEPT !.quitting = {}]
  <2>1. w' = y
    BY <1>7 DEF UplinkBurst, Line, QuitUsers
  <2> HIDE DEF N, C
  <2>2. /\ y.chans = w.chans /\ y.group = w.group /\ y.others = w.others
        /\ y.quitting = {} /\ y.uplink = "burst"
    BY <1>1 DEF World
  <2> HIDE DEF y
  <2>3. Own(y) /\ Few(y) /\ Full(y)
    BY <1>1, <1>3, <2>2, CleanFew DEF Own, Full, Synced
  <2> QED
    BY <2>1, <2>3, JobPInv
<1> QED
  BY <1>4, <1>5, <1>6, <1>7

\* The end of the burst makes up for every roster that was not sent.
LEMMA EndBurstOwn ==
    ASSUME IInv, PInv, EndBurst
    PROVE  PInv'
<1> DEFINE x == [w EXCEPT !.uplink = "synced",
                          !.qlines = @ \cup UNION {w.reserved[k] : k \in Bridged(w)}]
<1>1. w \in World /\ Own(w) /\ Few(w)
  BY DEF IInv, PInv, Fine, Shape
<1>2. /\ Fine(x) /\ x.chans = w.chans /\ x.group = w.group
      /\ x.others = w.others /\ x.quitting = w.quitting
  BY EndedFine DEF EndBurst
<1>3. PICK y \in RefreshRoster(x) : w' = QuitUsers(y)
  BY DEF EndBurst, OnUplinkSync, Line
<1> HIDE DEF x
<1>4. Fine(y) /\ y \in World /\ Same(x, y) /\ Grown(x, y)
  BY <1>2, <1>3, SyncRosterFine, SyncRosterGrows DEF RefreshRoster, Fine, Shape
<1>5. Own(x)
  BY <1>1, <1>2 DEF Own
<1>6. Own(y)
  BY <1>4, <1>5, GrownOwn
<1>7. Roomy => Full(y)
  <2>1. Roomy => Room(x)
    BY <1>1, <1>2, FewRoom
  <2> QED
    BY <1>2, <1>3, <2>1, RefreshFull
<1>8. \E n : y.others \subseteq {n}
  BY <1>1, <1>2, <1>4 DEF Few, Grown
<1> QED
  BY <1>3, <1>4, <1>6, <1>7, <1>8, LinePInv

\* The uplink is lost: the stranger lingers with everyone else.
LEMMA LostOwn ==
    ASSUME IInv, PInv, UplinkLost
    PROVE  PInv'
<1>1. w \in World /\ Own(w) /\ Few(w)
  BY DEF IInv, PInv, Fine, Shape
<1>2. PICK q \in {w.qlines, {}} :
         w' = [w EXCEPT !.uplink = "down", !.net = {}, !.netChans = {}, !.netAway = {},
                        !.qlines = q, !.others = {},
                        !.quitting = @ \cup {<<n, {}>> : n \in w.others}]
  BY DEF UplinkLost
<1> DEFINE Q == {<<n, {}>> : n \in w.others}
           y == [w EXCEPT !.uplink = "down", !.net = {}, !.netChans = {}, !.netAway = {},
                          !.qlines = q, !.others = {}, !.quitting = @ \cup Q]
<1>3. w' = y
  BY <1>2
<1>4. {p[1] : p \in Q} = w.others
  <2>1. ASSUME NEW n \in w.others PROVE n \in {p[1] : p \in Q}
    <3>1. <<n, {}>> \in Q /\ n = <<n, {}>>[1]
      OBVIOUS
    <3> HIDE DEF Q
    <3> QED
      BY <3>1
  <2> QED
    BY <2>1
<1>5. IsFiniteSet(Q)
  <2>1. PICK n : w.others \subseteq {n}
    BY <1>1 DEF Few
  <2>2. Q \subseteq {<<n, {}>>}
    BY <2>1
  <2> HIDE DEF Q
  <2> QED
    BY <2>2, FS_Singleton, FS_Subset
<1> HIDE DEF Q
<1>6. /\ y.chans = w.chans /\ y.group = w.group /\ y.others = {}
      /\ y.quitting = w.quitting \cup Q /\ y.uplink = "down"
  BY <1>1 DEF World
<1> HIDE DEF y
<1>7. Out(y) = Out(w)
  BY <1>4, <1>6 DEF Out
<1>8. IsFiniteSet(w.quitting \cup Q)
  BY <1>1, <1>5, FS_Union DEF Few
<1>9. Few(y)
  BY <1>1, <1>6, <1>7, <1>8 DEF Few
<1>10. Own(y) /\ Full(y)
  BY <1>1, <1>6 DEF Own, Full, Synced
<1> QED
  BY <1>3, <1>9, <1>10, JobPInv

\* A member is in every channel as soon as the space tells of it.
LEMMA MemberOwn ==
    ASSUME IInv, PInv, NEW m \in Members, NEW d \in Displays, MemberIs(m, d)
    PROVE  PInv'
<1> DEFINE x == [w EXCEPT !.roster[m] = d]
<1>1. Fine(w) /\ w \in World /\ Own(w) /\ Few(w) /\ (Roomy => Full(w))
  BY DEF IInv, PInv, Fine, Shape
<1>2. /\ Fine(x) /\ x.group = w.group /\ x.chans = w.chans /\ x.others = w.others
      /\ x.quitting = w.quitting /\ x.uplink = w.uplink
      /\ \A o \in Members : o # m => x.roster[o] = w.roster[o]
  BY <1>1, RosterFine DEF World
<1>3. w' \in SyncRoster(x, {m})
  BY DEF MemberIs
<1> DEFINE y == w'
<1> HIDE DEF x
<1>4. Fine(y) /\ Same(x, y) /\ Grown(x, y)
  BY <1>2, <1>3, SyncRosterFine, SyncRosterGrows
<1>5. Own(y)
  <2>1. Own(x)
    BY <1>1, <1>2 DEF Own
  <2> HIDE DEF y
  <2> QED
    BY <1>4, <2>1, GrownOwn
<1>6. Few(y)
  <2> HIDE DEF y
  <2> QED
    BY <1>1, <1>2, <1>4, SameFew DEF Grown
<1>7. ASSUME Roomy PROVE Full(y)
  <2>1. Room(x)
    BY <1>1, <1>2, <1>7, FewRoom
  <2>2. Synced(x) => \A k \in Bridged(x) : x.roster[m] # None => k \in y.chans[<<x.group[k], m>>]
    BY <1>2, <1>3, <2>1, SyncRosterGrows
  <2> HIDE DEF y
  <2> SUFFICES ASSUME Synced(y), NEW k \in Bridged(y), NEW o \in Members, y.roster[o] # None
               PROVE  k \in y.chans[<<y.group[k], o>>]
    BY DEF Full
  <2>3. /\ y.group = x.group /\ y.roster = x.roster /\ Synced(x) /\ Synced(w)
        /\ k \in Bridged(x) /\ k \in Bridged(w)
    BY <1>2, <1>4 DEF Same, Synced, Bridged
  <2>4. CASE o = m
    BY <2>2, <2>3, <2>4
  <2>5. CASE o # m
    <3>1. w.roster[o] # None /\ <<w.group[k], o>> \in Slots
      BY <1>1, <1>2, <2>3, <2>5, Fields DEF Slots, Bridged
    <3>2. k \in w.chans[<<w.group[k], o>>]
      BY <1>1, <1>7, <2>3, <3>1 DEF Full
    <3> QED
      BY <1>2, <1>4, <2>3, <3>1, <3>2 DEF Grown
  <2> QED
    BY <2>4, <2>5
<1> QED
  BY <1>5, <1>6, <1>7, JobPInv

\* A member who leaves takes no one else along.
LEMMA LeaveOwn ==
    ASSUME IInv, PInv, NEW m \in Members, MemberLeaves(m)
    PROVE  PInv'
<1> DEFINE x == [w EXCEPT !.roster[m] = None]
           S == {<<x.group[k], m>> : k \in Bridged(x)}
<1>1. /\ Fine(w) /\ w \in World /\ Own(w) /\ Few(w) /\ (Roomy => Full(w))
      /\ Cardinality(w.quitting) < MaxQuits
  BY DEF IInv, PInv, Fine, Shape, MemberLeaves, MayQuit
<1>2. /\ Fine(x) /\ x \in World /\ x.group = w.group /\ x.chans = w.chans /\ x.others = w.others
      /\ x.quitting = w.quitting /\ x.uplink = w.uplink
      /\ x.roster = [w.roster EXCEPT ![m] = None]
  <2>1. Fine(x)
    BY <1>1, RosterFine
  <2>2. /\ x.group = w.group /\ x.chans = w.chans /\ x.others = w.others
        /\ x.quitting = w.quitting /\ x.uplink = w.uplink
        /\ x.roster = [w.roster EXCEPT ![m] = None]
    BY <1>1 DEF World
  <2> HIDE DEF x
  <2> QED
    BY <2>1, <2>2 DEF Fine, Shape
<1>3. w' = ForEach(x, S, RemoveClient)
  BY DEF MemberLeaves, RemoveMember
<1> HIDE DEF x
<1>4. S \subseteq Slots
  BY <1>2, Fields DEF Bridged, Slots
<1>5. \A s \in S : s[2] = m
  OBVIOUS
<1> HIDE DEF S
<1> DEFINE y == ForEach(x, S, RemoveClient)
<1>6. y \in Cut(x, S)
  BY <1>2, <1>4, RemoveEach
<1> HIDE DEF y
<1>7. /\ Same(x, y) /\ Shrunk(x, y)
      /\ \A t \in Slots \ S : y.chans[t] = x.chans[t]
  BY <1>6 DEF Cut, Less, Kept
<1>8. Own(y)
  BY <1>1, <1>2, <1>7 DEF Own, Shrunk, Same
<1>9. Few(y)
  <2>1. Few(x)
    BY <1>1, <1>2, SameFew
  <2> QED
    BY <1>1, <1>2, <1>7, <2>1, ShrunkFew
<1>10. ASSUME Roomy PROVE Full(y)
  <2> SUFFICES ASSUME Synced(y), NEW k \in Bridged(y), NEW o \in Members, y.roster[o] # None
               PROVE  k \in y.chans[<<y.group[k], o>>]
    BY DEF Full
  <2>1. w.roster \in [Members -> Displays \cup {None}] /\ w.group \in [Keys -> Groups \cup {None}]
    BY <1>1, Fields
  <2>2. y.group = w.group /\ Synced(w) /\ k \in Bridged(w) /\ o # m /\ w.roster[o] # None
    BY <1>2, <1>7, <2>1 DEF Same, Synced, Bridged
  <2>3. <<w.group[k], o>> \in Slots \ S
    BY <1>5, <2>1, <2>2 DEF Slots, Bridged
  <2>4. k \in w.chans[<<w.group[k], o>>]
    BY <1>1, <1>10, <2>2 DEF Full
  <2> QED
    BY <1>2, <1>7, <2>2, <2>3, <2>4
<1> QED
  BY <1>3, <1>8, <1>9, <1>10, JobPInv DEF y

\* What changes no bridge, no member of the space and no channel of a client.
LEMMA CalmOwn ==
    ASSUME PInv, NEW y, Same(w, y), y.chans = w.chans, y.others = w.others,
           y.quitting = w.quitting
    PROVE  Own(y) /\ Few(y) /\ (Roomy => Full(y))
BY DEF PInv, Own, Few, Out, Full, Same, Synced, Bridged

\* Presence is about away marks only.
LEMMA PresenceOwn ==
    ASSUME IInv, PInv, NEW m \in Members, Presence(m)
    PROVE  PInv'
<1> DEFINE a == m \notin w.absent
           B == IF a THEN w.absent \cup {m} ELSE w.absent \ {m}
           x == [w EXCEPT !.absent = B]
           S == {<<x.group[k], m>> : k \in Bridged(x)}
<1>0. Fine(w) /\ w \in World
  BY DEF IInv, Fine, Shape
<1>1. B \subseteq Members
  BY <1>0, Fields
<1>2. a \in BOOLEAN
  OBVIOUS
<1>3. w' = SetPresence(x, m, a)
  BY <1>0 DEF Presence
<1> HIDE DEF B, a
<1>4. x \in World /\ Alike(w, x) /\ x.quitting = w.quitting
  BY <1>0, <1>1 DEF World, Alike, Same
<1> HIDE DEF x
<1>5. Fine(x)
  BY <1>0, <1>4, AlikeFine
<1>6. S \subseteq Slots
  BY <1>4, Fields DEF Bridged, Slots
<1> DEFINE y == ForEach(x, S, LAMBDA v, s : SetClientAway(v, s, a))
<1>7. w' = y
  BY <1>3 DEF SetPresence
<1> HIDE DEF S
<1>8. y \in Calm(x)
  BY <1>2, <1>5, <1>6, AwayEach
<1> HIDE DEF y
<1>9. Same(w, y) /\ y.chans = w.chans /\ y.others = w.others /\ y.quitting = w.quitting
  BY <1>4, <1>8 DEF Calm, Kept, Alike, Same
<1> QED
  BY <1>7, <1>9, CalmOwn, JobPInv

\* Somebody who speaks joins the channel spoken in.
LEMMA SpeakOwn ==
    ASSUME IInv, PInv, NEW k \in Keys, NEW m \in Members, NEW d \in Displays, Speak(k, m, d)
    PROVE  PInv'
<1> DEFINE s == <<w.group[k], m>>
           x == EnsureClient(w, k, m, d)
           y == EnsureJoin(x, s, k)
<1>0. /\ Fine(w) /\ w \in World /\ Own(w) /\ Few(w) /\ (Roomy => Full(w))
      /\ w.group \in [Keys -> Groups \cup {None}] /\ w.chans \in [Slots -> SUBSET Keys]
  BY Fields DEF IInv, PInv, Fine, Shape
<1>1. w.group[k] # None /\ w' = y
  BY DEF Speak
<1>2. s \in Slots /\ s[1] = w.group[k]
  BY <1>0, <1>1 DEF Slots
<1>3. /\ Fine(x) /\ x \in World /\ Same(w, x)
      /\ x.others = w.others /\ x.quitting = w.quitting /\ x.chans = w.chans
  BY <1>0, <1>1, EnsureFine, EnsureChans DEF Fine, Shape
<1> HIDE DEF s, x
<1>4. /\ Same(x, y) /\ y.others = x.others /\ y.quitting = x.quitting
      /\ y.chans = IF x.nick[s] = None THEN x.chans ELSE [x.chans EXCEPT ![s] = @ \cup {k}]
  BY <1>2, <1>3, JoinFine, JoinChans
<1> HIDE DEF y
<1>5. Same(w, y)
  BY <1>3, <1>4 DEF Same
<1>6. Grown(w, y)
  BY <1>0, <1>2, <1>3, <1>4 DEF Grown
<1>7. Own(y) /\ Few(y) /\ (Roomy => Full(y))
  BY <1>0, <1>3, <1>4, <1>5, <1>6, GrownOwn, SameFew, GrownFull
<1> QED
  BY <1>1, <1>7, JobPInv

\* Clients that nobody has heard of for a while.
LEMMA ReapOwn ==
    ASSUME IInv, PInv, NEW idle \in SUBSET Slots, ReapIdleUsers(idle)
    PROVE  PInv'
<1> DEFINE y == ForEach(w, idle, RemoveClient)
<1>1. /\ Fine(w) /\ w \in World /\ Own(w) /\ Few(w) /\ ~Roomy
      /\ Cardinality(w.quitting) < MaxQuits /\ w' = y
  BY DEF IInv, PInv, Fine, Shape, ReapIdleUsers, MayQuit, Roomy
<1>2. y \in Cut(w, idle)
  BY <1>1, RemoveEach
<1> HIDE DEF y
<1>3. Same(w, y) /\ Shrunk(w, y)
  BY <1>2 DEF Cut, Less, Kept
<1>4. Own(y) /\ Few(y)
  BY <1>1, <1>3, ShrunkOwn, ShrunkFew DEF Same
<1> QED
  BY <1>1, <1>4, JobPInv

\* All clients are retired, and introduced behind the new domain.
LEMMA DomainOwn ==
    ASSUME IInv, PInv, DomainChanged
    PROVE  PInv'
<1> DEFINE S == {s \in Slots : w.nick[s] # None}
           v == ForEach(w, S, RemoveClient)
           x == [v EXCEPT !.link = "none"]
           y == w'
<1>1. /\ Fine(w) /\ w \in World /\ Own(w) /\ Few(w)
      /\ Cardinality(w.quitting) < MaxQuits
  BY DEF IInv, PInv, Fine, Shape, DomainChanged, MayQuit
<1>2. w' \in RefreshRoster(x)
  BY DEF DomainChanged, RemoveAllClients
<1>3. v \in Cut(w, S)
  BY <1>1, RemoveEach
<1> HIDE DEF v
<1>4. Fine(v) /\ v \in World /\ Same(w, v) /\ Shrunk(w, v)
  BY <1>3 DEF Cut, Less, Kept
<1>5. Own(v) /\ Few(v) /\ (Roomy => Room(v))
  BY <1>1, <1>4, ShrunkOwn, ShrunkFew, ShrunkRoom DEF Same
<1>6. /\ Fine(x) /\ x \in World /\ x.chans = v.chans /\ x.group = v.group
      /\ x.others = v.others /\ x.quitting = v.quitting
  <2>1. Fine(x)
    BY <1>4, NoLinkFine
  <2>2. x \in World
    BY <2>1 DEF Fine, Shape
  <2>3. x.chans = v.chans /\ x.group = v.group /\ x.others = v.others /\ x.quitting = v.quitting
    BY <1>4 DEF World
  <2> QED
    BY <2>1, <2>2, <2>3
<1> HIDE DEF x
<1>7. Own(x) /\ Few(x) /\ (Roomy => Room(x))
  BY <1>5, <1>6, SameFew DEF Own, Room, Out
<1>8. Same(x, y) /\ Grown(x, y)
  BY <1>2, <1>6, SyncRosterFine, SyncRosterGrows DEF RefreshRoster
<1>9. Roomy => Full(y)
  BY <1>2, <1>6, <1>7, RefreshFull
<1> HIDE DEF y
<1>10. Own(y) /\ Few(y)
  BY <1>7, <1>8, GrownOwn, SameFew DEF Grown
<1> QED
  BY <1>9, <1>10, JobPInv DEF y

-----------------------------------------------------------------------------
(* The theorems.                                                           *)

\* No client, no ban, and the uplink synced.
LEMMA InitIInv == Init => IInv
<1> SUFFICES ASSUME Init PROVE IInv
  OBVIOUS
<1>1. w \in World
  BY DEF Init, World
<1>2. /\ w.nick = [s \in Slots |-> None] /\ w.chans = [s \in Slots |-> {}]
      /\ w.reserved = [k \in Keys |-> {}] /\ w.qlines = {} /\ w.uplink = "synced"
      /\ w.net = {} /\ w.netChans = {}
  BY DEF Init
<1>3. Shape(w) /\ Unique(w) /\ Known(w) /\ Bans(w) /\ Shown(w)
  BY <1>1, <1>2 DEF Shape, Unique, Known, Bans, Shown
<1> QED
  BY <1>2, <1>3 DEF IInv, Fine

\* Every step keeps the invariant.
LEMMA NextIInv == IInv /\ [Next]_w => IInv'
<1> SUFFICES ASSUME IInv, [Next]_w PROVE IInv'
  OBVIOUS
<1>1. CASE \E k \in Keys, g \in Groups : Add(k, g) \/ Set(k, g)
  BY <1>1, AddStep
<1>2. CASE \E k \in Keys : Del(k)
  BY <1>2, DelStep
<1>3. CASE (\E s \in Slots : Kill(s)) \/ LinkSquit
  BY <1>3, KillStep
<1>4. CASE (\E n \in Nicks : StrangerTakes(n)) \/ StrangerLeaves
  BY <1>4, StrangerStep
<1>5. CASE OtherLine \/ UplinkConnects
  BY <1>5, LinkingStep
<1>6. CASE UplinkBurst
  BY <1>6, BurstStep
<1>7. CASE EndBurst
  BY <1>7, EndBurstStep
<1>8. CASE UplinkLost
  BY <1>8, LostStep
<1>9. CASE \/ \E m \in Members, d \in Displays : MemberIs(m, d)
           \/ \E m \in Members : MemberLeaves(m) \/ Presence(m)
           \/ \E k \in Keys, m \in Members, d \in Displays : Speak(k, m, d)
           \/ \E idle \in SUBSET Slots : ReapIdleUsers(idle)
           \/ DomainChanged
  BY <1>9, JobStep
<1>10. CASE UNCHANGED w
  BY <1>10 DEF IInv
<1> QED
  BY <1>1, <1>2, <1>3, <1>4, <1>5, <1>6, <1>7, <1>8, <1>9, <1>10 DEF Next

\* The inductive invariant: every client has a nickname of its own that nobody
\* else holds, the network knows it from the burst on (Uplink::Send drops what
\* is sent before), and the nick bans are those the bridges reserve.
THEOREM Inductive == Spec => []IInv
<1>1. Init => IInv
  BY InitIInv
<1>2. IInv /\ [Next]_w => IInv'
  BY NextIInv
<1> QED
  BY <1>1, <1>2, PTL DEF Spec

\* Every field keeps its type, through every loop over the roster: nothing but
\* a nickname is ever reserved or given to a client (EnsureClient, ReserveNick).
THEOREM TypeHolds == Spec => []TypeOK
<1>1. IInv => TypeOK
  BY DEF IInv, Fine, Shape, TypeOK
<1> QED
  BY <1>1, Inductive, PTL

\* No two people get one nickname, whatever the environment does, also while
\* the uplink is down or being set up (MakeNick, User::Find).
THEOREM NickUniqueHolds == Spec => []NickUnique
<1>1. IInv => NickUnique
  BY DEF IInv, Fine, Unique, NickUnique, Live
<1> QED
  BY <1>1, Inductive, PTL

\* Where no job and no timer runs while the link to the network is being set up,
\* the synced network shows the clients services has records of, in the channels
\* of the records, behind the nick bans of the bridges.
THEOREM MirrorHolds ==
    ASSUME "burst" \notin Env
    PROVE  Spec => []Mirror
<1>1. IInv => Mirror
  <2> SUFFICES ASSUME IInv, Synced(w) PROVE Mirror
    BY DEF Mirror
  <2>1. Shown(w) /\ Bans(w) /\ w \in World
    BY DEF IInv, Fine, Shape
  <2>2. /\ w.nick \in [Slots -> Nicks \cup {None}] /\ w.chans \in [Slots -> SUBSET Keys]
        /\ w.net \subseteq Nicks /\ w.netChans \subseteq Nicks \X Keys
        /\ w.reserved \in [Keys -> SUBSET Nicks]
    BY <2>1, Fields
  <2>3. w.net = {w.nick[s] : s \in Live}
    BY <2>1, <2>2 DEF Shown, Live
  <2>4. w.netChans = UNION {{w.nick[s]} \X w.chans[s] : s \in Live}
    <3> DEFINE U == UNION {{w.nick[s]} \X w.chans[s] : s \in Live}
    <3>1. ASSUME NEW p \in w.netChans PROVE p \in U
      <4>1. PICK n \in Nicks, k \in Keys : p = <<n, k>>
        BY <2>2, <3>1
      <4>2. PICK s \in Slots : n # None /\ w.nick[s] = n /\ k \in w.chans[s]
        BY <2>1, <3>1, <4>1 DEF Shown
      <4>3. s \in Live /\ p \in {w.nick[s]} \X w.chans[s]
        BY <4>1, <4>2 DEF Live
      <4> QED
        BY <4>3
    <3>2. ASSUME NEW s \in Live, NEW p \in {w.nick[s]} \X w.chans[s] PROVE p \in w.netChans
      <4>1. PICK k \in w.chans[s] : p = <<w.nick[s], k>>
        BY <3>2
      <4>2. w.nick[s] \in Nicks /\ w.nick[s] # None /\ k \in Keys /\ s \in Slots
        BY <2>2, <3>2 DEF Live
      <4> QED
        BY <2>1, <4>1, <4>2 DEF Shown
    <3> QED
      BY <3>1, <3>2
  <2>5. w.qlines = UNION {w.reserved[k] : k \in Keys}
    BY <2>1 DEF Bans
  <2> QED
    BY <2>3, <2>4, <2>5 DEF Mirror
<1> QED
  BY <1>1, Inductive, PTL

\* Nobody is in a channel at first, and nobody lingers.
LEMMA InitPInv == Init => PInv
<1> SUFFICES ASSUME Init PROVE PInv
  OBVIOUS
<1>1. /\ w.chans = [s \in Slots |-> {}] /\ w.group = [k \in Keys |-> None]
      /\ w.quitting = {} /\ w.others = {}
  BY DEF Init
<1>2. Own(w) /\ Full(w)
  BY <1>1 DEF Own, Full, Bridged
<1>3. Few(w)
  BY <1>1, CleanFew
<1> QED
  BY <1>2, <1>3 DEF PInv

\* Every step keeps clients in the channels they belong in.
LEMMA NextPInv == IInv /\ PInv /\ [Next]_w => PInv'
<1> SUFFICES ASSUME IInv, PInv, [Next]_w PROVE PInv'
  OBVIOUS
<1>1. CASE \E k \in Keys, g \in Groups : Add(k, g) \/ Set(k, g)
  BY <1>1, AddOwn
<1>2. CASE \E k \in Keys : Del(k)
  BY <1>2, DelOwn
<1>3. CASE (\E s \in Slots : Kill(s)) \/ LinkSquit
  BY <1>3, KillOwn
<1>4. CASE \/ (\E n \in Nicks : StrangerTakes(n)) \/ StrangerLeaves
           \/ OtherLine \/ UplinkConnects \/ UplinkBurst
  BY <1>4, OtherOwn
<1>5. CASE EndBurst
  BY <1>5, EndBurstOwn
<1>6. CASE UplinkLost
  BY <1>6, LostOwn
<1>7. CASE \/ \E m \in Members, d \in Displays : MemberIs(m, d)
           \/ \E m \in Members : MemberLeaves(m) \/ Presence(m)
  BY <1>7, MemberOwn, LeaveOwn, PresenceOwn
<1>8. CASE \/ \E k \in Keys, m \in Members, d \in Displays : Speak(k, m, d)
           \/ \E idle \in SUBSET Slots : ReapIdleUsers(idle)
  BY <1>8, SpeakOwn, ReapOwn
<1>9. CASE DomainChanged
  BY <1>9, DomainOwn
<1>10. CASE UNCHANGED w
  BY <1>10, CalmOwn, JobPInv DEF Same
<1> QED
  BY <1>1, <1>2, <1>3, <1>4, <1>5, <1>6, <1>7, <1>8, <1>9, <1>10 DEF Next

\* The channels are right in every state.
LEMMA ChannelInductive == Spec => [](IInv /\ PInv)
<1>1. Init => IInv /\ PInv
  BY InitIInv, InitPInv
<1>2. IInv /\ PInv /\ [Next]_w => (IInv /\ PInv)'
  BY NextIInv, NextPInv
<1> QED
  BY <1>1, <1>2, PTL DEF Spec

\* A client is only in channels that are bridged under its own suffix, whatever
\* happens: DEL and SET take it out (PruneChannels, RetireClients), and nothing
\* puts it back (EnsureJoin after EnsureClient).
THEOREM OwnHolds == Spec => [](\A s \in Slots : \A k \in w.chans[s] : w.group[k] = s[1])
<1>1. IInv /\ PInv => \A s \in Slots : \A k \in w.chans[s] : w.group[k] = s[1]
  BY DEF PInv, Own
<1> QED
  BY <1>1, ChannelInductive, PTL

\* Where no operator takes clients away, idle ones are kept, and a display name
\* has more alternatives than there can be holders, every member of the space is
\* in every bridged channel once the uplink is synced: OnUplinkSync makes up for
\* all that SyncRoster dropped, and no handler after it forgets anyone.
THEOREM PopulatedHolds ==
    ASSUME Env \cap {"kill", "squit", "reap"} = {},
           MaxTag > 3 * Cardinality(Slots) + MaxQuits
    PROVE  Spec => []Populated
<1>1. IInv /\ PInv => Populated
  <2> SUFFICES ASSUME PInv PROVE Populated
    OBVIOUS
  <2>1. Own(w) /\ Full(w)
    BY DEF PInv, Roomy
  <2> QED
    BY <2>1 DEF Populated, Own, Full
<1> QED
  BY <1>1, ChannelInductive, PTL
=============================================================================
