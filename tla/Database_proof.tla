---------------------------- MODULE Database_proof ----------------------------
(***************************************************************************)
(* Proofs about the data of services.                                      *)
(*                                                                         *)
(* In memory (Accounts): for any number of nicknames, accounts and         *)
(* channels and in whatever order they are deleted, the counts of          *)
(* references and of channels are exact, no channel is left to an account  *)
(* that is gone, and an account that knows its display nickname owns it.   *)
(*                                                                         *)
(* In the database file (JsonStore, at the end): for every number of       *)
(* backups, every set of types and however often services crash, the last  *)
(* save that was completed can be read back, a module that is loaded again *)
(* finds its objects, and neither a save nor a rotation spoils what was    *)
(* kept before.                                                            *)
(***************************************************************************)
EXTENDS Accounts, JsonStore, Folding, FiniteSetTheorems, SequenceTheorems

DB == [aliases : [Cores -> Seq(Nicks)], display : [Cores -> Nicks \cup {NULL}],
       na : [Cores -> Nicks \cup {NULL}], count : [Cores -> Nat],
       refs : [Cores \cup Chans -> [Chans -> Nat]], chan : [Chans -> ChanInfo \cup {NULL}]]

Founded(d, c) == {x \in Open(d) : d.chan[x].founder = c}

\* What every part of a handler keeps, also in the middle of a deletion: the
\* counts are exact, no access list is too long, and an entry for a channel
\* names a registered one, once.
Sound(d) ==
    /\ d \in DB
    /\ \A w \in Cores \cup Chans, x \in Chans : d.refs[w][x] = Uses(d, w, x)
    /\ \A c \in Cores : d.count[c] = Cardinality(Founded(d, c)) /\ d.count[c] <= MaxReg
    /\ \A x \in Open(d) :
          LET a == d.chan[x].access
          IN  /\ Len(a) <= MaxAccess
              /\ \A i \in DOMAIN a : a[i].who \in Chans => a[i].who \in Open(d)
              /\ \A i, j \in DOMAIN a : a[i].who \in Chans /\ a[i].who = a[j].who => i = j

\* Every account that a channel names has a nickname.
Living(d) ==
    \A x \in Open(d) :
       /\ d.chan[x].founder \in Alive(d) /\ d.chan[x].successor \in Alive(d) \cup {NULL}
       /\ d.chan[x].akicks \subseteq Alive(d)
       /\ \A i \in DOMAIN d.chan[x].access :
             d.chan[x].access[i].who \in Cores => d.chan[x].access[i].who \in Alive(d)

\* No two accounts share a nickname, no account has one twice, and what is left of
\* an account that is gone is nothing.
Once(s) == \A i, j \in DOMAIN s : s[i] = s[j] => i = j
Named(d) ==
    /\ \A c \in Cores : Once(d.aliases[c])
    /\ \A c, e \in Cores : c # e => Range(d.aliases[c]) \cap Range(d.aliases[e]) = {}
    /\ \A c \in Cores : d.na[c] # NULL => d.na[c] = d.display[c] /\ d.display[c] \in Range(d.aliases[c])
    /\ \A c \in Cores \ Alive(d) : d.display[c] = NULL /\ d.na[c] = NULL

\* Who waits to join an account asks for one that still has the nickname he named.
Asked == \A r \in requests : /\ r \in [nick : Nicks, target : Nicks]
                             /\ r.nick # r.target /\ Registered(db, r.target)

-----------------------------------------------------------------------------
(* Types.                                                                  *)

\* The kinds of names are kept apart.
LEMMA Apart ==
    /\ NULL \notin Cores /\ NULL \notin Chans /\ NULL \notin Nicks /\ NULL \notin ChanInfo
    /\ \A w \in Cores : w \notin Chans /\ w \notin Nicks
    /\ \A w \in Nicks : w \notin Chans
BY NamesAssumption

\* The bounds and the sets of names, as the assumptions give them.
LEMMA Limits == MaxReg \in Nat /\ MaxAccess \in Nat /\ IsFiniteSet(Cores) /\ IsFiniteSet(Chans) /\ IsFiniteSet(Nicks)
BY LimitsAssumption, FiniteAssumption

\* The record of a channel that is registered.
LEMMA OpenChan ==
    ASSUME NEW d \in DB
    PROVE  /\ Open(d) \subseteq Chans /\ \A x \in Open(d) : d.chan[x] \in ChanInfo
           /\ \A x \in Chans : d.chan[x] \in ChanInfo => x \in Open(d)
BY Apart DEF Open, DB

\* The parts of the record of a channel.
LEMMA InfoType ==
    ASSUME NEW r \in ChanInfo
    PROVE  /\ r.founder \in Cores \cup {NULL} /\ r.successor \in Cores \cup {NULL}
           /\ r.akicks \subseteq Cores /\ r.access \in Seq(Entry) /\ IsFiniteSet(r.akicks)
           /\ r = [founder |-> r.founder, successor |-> r.successor,
                   akicks |-> r.akicks, access |-> r.access]
BY Limits, FS_Subset DEF ChanInfo

-----------------------------------------------------------------------------
(* Access lists.                                                           *)

\* The positions of an access list that name w.
LEMMA HitsFinite ==
    ASSUME NEW a \in Seq(Entry), NEW w
    PROVE  IsFiniteSet(Hits(a, w)) /\ Cardinality(Hits(a, w)) \in Nat
<1>1. DOMAIN a = 1..Len(a) /\ Len(a) \in Nat
    OBVIOUS
<1>2. Hits(a, w) \in SUBSET (1..Len(a)) /\ IsFiniteSet(1..Len(a))
    BY <1>1, FS_Interval DEF Hits
<1> QED
    BY <1>2, FS_Subset, FS_CardinalityType

\* How often a record names w is a number.
LEMMA NamesType == ASSUME NEW r \in ChanInfo, NEW w PROVE Names(r, w) \in Nat
BY InfoType, HitsFinite DEF Names, One

\* A record that does not name w has it nowhere.
LEMMA NamesNone ==
    ASSUME NEW r \in ChanInfo, NEW w, Names(r, w) = 0
    PROVE  Hits(r.access, w) = {} /\ r.founder # w /\ r.successor # w /\ w \notin r.akicks
<1>1. Cardinality(Hits(r.access, w)) \in Nat /\ IsFiniteSet(Hits(r.access, w))
    BY InfoType, HitsFinite
<1> DEFINE n == Cardinality(Hits(r.access, w))
<1>2. n = 0 /\ r.founder # w /\ r.successor # w /\ w \notin r.akicks
    <2>1. n \in Nat /\ One(r.founder = w) + One(r.successor = w) + One(w \in r.akicks) + n = 0
        BY <1>1 DEF Names
    <2> HIDE DEF n
    <2>3. /\ One(r.founder = w) \in Nat /\ One(r.successor = w) \in Nat /\ One(w \in r.akicks) \in Nat
          /\ (One(r.founder = w) = 0 => r.founder # w) /\ (One(r.successor = w) = 0 => r.successor # w)
          /\ (One(w \in r.akicks) = 0 => w \notin r.akicks)
        BY DEF One
    <2>4. /\ n = 0 /\ One(r.founder = w) = 0 /\ One(r.successor = w) = 0 /\ One(w \in r.akicks) = 0
        <3> DEFINE i == One(r.founder = w)
                   j == One(r.successor = w)
                   k == One(w \in r.akicks)
        <3>1. i \in Nat /\ j \in Nat /\ k \in Nat /\ n \in Nat /\ i + j + k + n = 0
            BY <2>1, <2>3
        <3> HIDE DEF i, j, k
        <3>2. n = 0 /\ i = 0 /\ j = 0 /\ k = 0
            BY <3>1
        <3> QED
            BY <3>2 DEF i, j, k
    <2> QED
        BY <2>3, <2>4
<1> QED
    BY <1>1, <1>2, FS_EmptySet

\* An entry that is added is one more for the name it has.
LEMMA HitsAppend ==
    ASSUME NEW a \in Seq(Entry), NEW e \in Entry, NEW w
    PROVE  Cardinality(Hits(Append(a, e), w)) = Cardinality(Hits(a, w)) + One(e.who = w)
<1>1. /\ Len(a) \in Nat /\ DOMAIN a = 1..Len(a) /\ DOMAIN Append(a, e) = 1..(Len(a) + 1)
      /\ Append(a, e)[Len(a) + 1] = e /\ \A i \in 1..Len(a) : Append(a, e)[i] = a[i]
    OBVIOUS
<1>2. Len(a) + 1 \notin Hits(a, w)
    BY <1>1 DEF Hits
<1>3. CASE e.who = w
    <2>1. Hits(Append(a, e), w) = Hits(a, w) \cup {Len(a) + 1}
        BY <1>1, <1>3 DEF Hits
    <2>2. IsFiniteSet(Hits(a, w))
        BY HitsFinite
    <2>3. Cardinality(Hits(a, w) \cup {Len(a) + 1}) = Cardinality(Hits(a, w)) + 1
        BY <1>2, <2>2, FS_AddElement
    <2> QED
        BY <1>3, <2>1, <2>3 DEF One
<1>4. CASE e.who # w
    <2>1. Hits(Append(a, e), w) = Hits(a, w)
        BY <1>1, <1>4 DEF Hits
    <2> QED
        BY <1>4, <2>1, HitsFinite DEF One
<1> QED
    BY <1>3, <1>4

\* One element of a sequence is taken out.
LEMMA RemoveAtIs ==
    ASSUME NEW X, NEW s \in Seq(X), NEW i \in 1..Len(s)
    PROVE  /\ RemoveAt(s, i) \in Seq(X) /\ Len(RemoveAt(s, i)) = Len(s) - 1
           /\ \A j \in 1..(Len(s) - 1) : RemoveAt(s, i)[j] = IF j < i THEN s[j] ELSE s[j + 1]
<1> DEFINE a == SubSeq(s, 1, i - 1)
           b == SubSeq(s, i + 1, Len(s))
<1>1. Len(s) \in Nat /\ \A j \in 1..Len(s) : s[j] \in X
    OBVIOUS
<1>2. a \in Seq(X) /\ Len(a) = i - 1 /\ \A j \in 1..(i - 1) : a[j] = s[j]
    <2>1. \A j \in 1..(i - 1) : s[j] \in X
        BY <1>1
    <2> QED
        BY <1>1, <2>1, SubSeqProperties
<1>3. b \in Seq(X) /\ Len(b) = Len(s) - i /\ \A j \in 1..(Len(s) - i) : b[j] = s[i + j]
    <2>1. \A j \in (i + 1)..Len(s) : s[j] \in X
        BY <1>1
    <2> QED
        BY <1>1, <2>1, SubSeqProperties
<1> HIDE DEF a, b
<1>4. /\ a \o b \in Seq(X) /\ Len(a \o b) = Len(s) - 1
      /\ \A j \in 1..(Len(s) - 1) : (a \o b)[j] = IF j < i THEN a[j] ELSE b[j - (i - 1)]
    <2> DEFINE n == Len(s)
    <2>1. n \in Nat /\ Len(a) = i - 1 /\ Len(b) = n - i /\ i \in 1..n
        BY <1>1, <1>2, <1>3
    <2>2. /\ a \o b \in Seq(X) /\ Len(a \o b) = Len(a) + Len(b)
          /\ \A j \in 1..(Len(a) + Len(b)) :
                (a \o b)[j] = IF j <= Len(a) THEN a[j] ELSE b[j - Len(a)]
        BY <1>2, <1>3, ConcatProperties
    <2> HIDE DEF n
    <2>3. Len(a) + Len(b) = n - 1
        BY <2>1
    <2>4. ASSUME NEW j \in 1..(n - 1) PROVE (a \o b)[j] = IF j < i THEN a[j] ELSE b[j - (i - 1)]
        <3>1. j \in 1..(Len(a) + Len(b)) /\ (j <= Len(a) <=> j < i)
            BY <2>1, <2>3
        <3> QED
            BY <2>1, <2>2, <3>1
    <2> QED
        BY <2>2, <2>3, <2>4 DEF n
<1>5. ASSUME NEW j \in 1..(Len(s) - 1)
      PROVE  (a \o b)[j] = IF j < i THEN s[j] ELSE s[j + 1]
    <2>1. CASE j < i
        <3>1. j \in 1..(i - 1)
            BY <1>1, <2>1
        <3> QED
            BY <1>2, <1>4, <2>1, <3>1
    <2>2. CASE ~(j < i)
        <3>1. j - (i - 1) \in 1..(Len(s) - i) /\ i + (j - (i - 1)) = j + 1
            BY <1>1, <2>2
        <3>2. b[j - (i - 1)] = s[j + 1]
            BY <1>3, <3>1
        <3> QED
            BY <1>4, <2>2, <3>2
    <2> QED
        BY <2>1, <2>2
<1> QED
    BY <1>4, <1>5 DEF a, b, RemoveAt

\* An entry that is erased is one fewer for the name it had.
LEMMA HitsRemove ==
    ASSUME NEW a \in Seq(Entry), NEW i \in 1..Len(a), NEW w
    PROVE  Cardinality(Hits(RemoveAt(a, i), w)) = Cardinality(Hits(a, w)) - One(a[i].who = w)
<1> DEFINE b == RemoveAt(a, i)
           H == Hits(a, w) \ {i}
           f == [j \in H |-> IF j < i THEN j ELSE j - 1]
<1>1. /\ Len(a) \in Nat /\ b \in Seq(Entry) /\ Len(b) = Len(a) - 1
      /\ \A j \in 1..(Len(a) - 1) : b[j] = IF j < i THEN a[j] ELSE a[j + 1]
    BY RemoveAtIs
<1> HIDE DEF b
<1>2. DOMAIN a = 1..Len(a) /\ DOMAIN b = 1..(Len(a) - 1)
    BY <1>1
<1>3. f \in Bijection(H, Hits(b, w))
    <2>1. f \in [H -> Hits(b, w)]
        BY <1>1, <1>2 DEF Hits
    <2>2. \A j, k \in H : f[j] = f[k] => j = k
        BY <1>2 DEF Hits
    <2>3. ASSUME NEW k \in Hits(b, w) PROVE \E j \in H : f[j] = k
        <3>1. CASE k < i
            <4>1. k \in H
                BY <1>1, <1>2, <2>3, <3>1 DEF Hits
            <4> QED
                BY <3>1, <4>1
        <3>2. CASE ~(k < i)
            <4>1. k \in 1..(Len(a) - 1) /\ b[k].who = w /\ b[k] = a[k + 1]
                BY <1>1, <1>2, <2>3, <3>2 DEF Hits
            <4>2. k + 1 \in 1..Len(a) /\ k + 1 # i /\ ~(k + 1 < i) /\ (k + 1) - 1 = k
                BY <1>1, <3>2, <4>1
            <4>3. k + 1 \in H
                BY <1>2, <4>1, <4>2 DEF Hits
            <4> QED
                BY <4>2, <4>3
        <3> QED
            BY <3>1, <3>2
    <2> HIDE DEF f, H
    <2> QED
        BY <2>1, <2>2, <2>3 DEF Bijection, Injection, Surjection, IsInjective
<1>4. IsFiniteSet(H) /\ Cardinality(H) = Cardinality(Hits(a, w)) - One(a[i].who = w)
    <2>1. CASE i \in Hits(a, w)
        <3>1. a[i].who = w
            BY <2>1 DEF Hits
        <3>2. Cardinality(H) = Cardinality(Hits(a, w)) - 1 /\ IsFiniteSet(H)
            BY <2>1, HitsFinite, FS_RemoveElement
        <3> QED
            BY <3>1, <3>2 DEF One
    <2>2. CASE i \notin Hits(a, w)
        <3>1. H = Hits(a, w) /\ a[i].who # w
            BY <1>2, <2>2 DEF Hits
        <3> QED
            <4>1. One(a[i].who = w) = 0
                BY <3>1 DEF One
            <4>2. Cardinality(Hits(a, w)) \in Nat /\ IsFiniteSet(Hits(a, w))
                BY HitsFinite
            <4> DEFINE m == Cardinality(Hits(a, w))
            <4>3. m \in Nat /\ Cardinality(H) = m /\ IsFiniteSet(H)
                BY <3>1, <4>2
            <4> HIDE DEF m
            <4>4. Cardinality(H) = m - One(a[i].who = w)
                BY <4>1, <4>3
            <4> QED
                BY <4>3, <4>4 DEF m
    <2> QED
        BY <2>1, <2>2
<1> HIDE DEF f, H
<1>5. Cardinality(H) = Cardinality(Hits(b, w))
    <2>1. ExistsBijection(H, Hits(b, w))
        BY <1>3 DEF ExistsBijection
    <2> QED
        BY <1>4, <2>1, FS_Bijection
<1> QED
    BY <1>4, <1>5 DEF b

\* The first element of a set of positions.
LEMMA MinOf ==
    ASSUME NEW n \in Nat, NEW s \in SUBSET (1..n), s # {}
    PROVE  Min(s) \in s /\ \A y \in s : Min(s) <= y
<1>1. PICK x \in s : \A y \in s : ~(<<y, x>> \in LessThan)
    <2>1. s \subseteq Nat
        OBVIOUS
    <2> QED
        BY <2>1, WFMin, LessThanWF
<1>2. \A y \in s : x <= y
    <2> SUFFICES ASSUME NEW y \in s, ~(x <= y) PROVE FALSE
        OBVIOUS
    <2>1. x \in Nat /\ y \in Nat /\ y < x
        OBVIOUS
    <2> QED
        BY <1>1, <2>1 DEF LessThan
<1> QED
    BY <1>2 DEF Min

\* Index() finds an entry for w if there is one.
LEMMA IndexIs ==
    ASSUME NEW a \in Seq(Entry), NEW w
    PROVE  IF Hits(a, w) = {} THEN Index(a, w) = 0
           ELSE Index(a, w) \in 1..Len(a) /\ a[Index(a, w)].who = w
<1> DEFINE I == {i \in 1..Len(a) : a[i].who = w}
<1>1. Index(a, w) = IF I # {} THEN Min(I) ELSE 0
    BY DEF Index, SelectInSeq
<1>2. I = Hits(a, w) /\ Len(a) \in Nat /\ I \in SUBSET (1..Len(a))
    BY DEF Hits
<1>3. I # {} => Min(I) \in I
    <2> HIDE DEF I
    <2> QED
        BY <1>2, MinOf
<1> QED
    BY <1>1, <1>2, <1>3

-----------------------------------------------------------------------------
(* One channel is changed.                                                 *)

\* The tables are those of d except for the channels, their references and how
\* many of them an account founded.
Beside(d, e) == e.aliases = d.aliases /\ e.display = d.display /\ e.na = d.na

\* A reference more.
LEMMA ReferIs ==
    ASSUME NEW d \in DB, NEW w, NEW x \in Chans, w \in Chans => w \in Open(d)
    PROVE  LET e == Refer(d, w, x)
           IN  /\ e \in DB /\ Beside(d, e) /\ e.chan = d.chan /\ e.count = d.count
               /\ \A v \in Cores \cup Chans, y \in Chans :
                     e.refs[v][y] = d.refs[v][y] + One(v = w /\ y = x)
<1> DEFINE e == Refer(d, w, x)
<1>1. d.refs \in [Cores \cup Chans -> [Chans -> Nat]] /\ Open(d) \subseteq Chans
    BY OpenChan DEF DB
<1>2. CASE w \in Cores \cup Open(d)
    <2> DEFINE R == [d.refs EXCEPT ![w][x] = d.refs[w][x] + 1]
    <2>1. w \in Cores \cup Chans
        BY <1>1, <1>2
    <2>2. e = [d EXCEPT !.refs = R]
        BY <1>2 DEF Refer
    <2>3. R \in [Cores \cup Chans -> [Chans -> Nat]]
        BY <1>1, <2>1
    <2>4. \A v \in Cores \cup Chans, y \in Chans : R[v][y] = d.refs[v][y] + One(v = w /\ y = x)
        BY <1>1, <2>1 DEF One
    <2> HIDE DEF R, e
    <2>5. e \in DB /\ e.refs = R /\ e.chan = d.chan /\ e.count = d.count /\ Beside(d, e)
        BY <2>2, <2>3 DEF DB, Beside
    <2> QED
        BY <2>4, <2>5 DEF e
<1>3. CASE w \notin Cores \cup Open(d)
    <2>1. e = d /\ w \notin Cores \cup Chans
        BY <1>1, <1>3 DEF Refer
    <2> QED
        BY <1>1, <2>1 DEF Beside, One
<1> QED
    BY <1>2, <1>3

\* A reference fewer, of one that was counted.
LEMMA UnreferIs ==
    ASSUME NEW d \in DB, NEW w, NEW x \in Chans, w \in Chans => w \in Open(d),
           w \in Cores \cup Chans => d.refs[w][x] > 0
    PROVE  LET e == Unrefer(d, w, x)
           IN  /\ e \in DB /\ Beside(d, e) /\ e.chan = d.chan /\ e.count = d.count
               /\ \A v \in Cores \cup Chans, y \in Chans :
                     e.refs[v][y] = d.refs[v][y] - One(v = w /\ y = x)
<1> DEFINE e == Unrefer(d, w, x)
<1>1. d.refs \in [Cores \cup Chans -> [Chans -> Nat]] /\ Open(d) \subseteq Chans
    BY OpenChan DEF DB
<1>2. CASE w \in Cores \cup Open(d)
    <2> DEFINE R == [d.refs EXCEPT ![w][x] = IF d.refs[w][x] > 0 THEN d.refs[w][x] - 1 ELSE 0]
    <2>1. w \in Cores \cup Chans
        BY <1>1, <1>2
    <2>2. e = [d EXCEPT !.refs = R]
        BY <1>2 DEF Unrefer
    <2>3. R \in [Cores \cup Chans -> [Chans -> Nat]]
        BY <1>1, <2>1
    <2>4. \A v \in Cores \cup Chans, y \in Chans : R[v][y] = d.refs[v][y] - One(v = w /\ y = x)
        BY <1>1, <2>1 DEF One
    <2> HIDE DEF R, e
    <2>5. e \in DB /\ e.refs = R /\ e.chan = d.chan /\ e.count = d.count /\ Beside(d, e)
        BY <2>2, <2>3 DEF DB, Beside
    <2> QED
        BY <2>4, <2>5 DEF e
<1>3. CASE w \notin Cores \cup Open(d)
    <2>1. e = d /\ w \notin Cores \cup Chans
        BY <1>1, <1>3 DEF Unrefer
    <2> QED
        BY <1>1, <2>1 DEF Beside, One
<1> QED
    BY <1>2, <1>3

\* What Sound says of one access list.
ListOK(d, a) ==
    /\ Len(a) <= MaxAccess
    /\ \A i \in DOMAIN a : a[i].who \in Chans => a[i].who \in Open(d)
    /\ \A i, j \in DOMAIN a : a[i].who \in Chans /\ a[i].who = a[j].who => i = j

\* What is known of each part of sound tables.
LEMMA SoundIs ==
    ASSUME NEW d, Sound(d)
    PROVE  /\ d \in DB /\ Open(d) \subseteq Chans
           /\ \A x \in Open(d) : d.chan[x] \in ChanInfo /\ ListOK(d, d.chan[x].access)
           /\ \A w \in Cores \cup Chans, x \in Open(d) : d.refs[w][x] = Names(d.chan[x], w)
           /\ \A c \in Cores : d.count[c] = Cardinality(Founded(d, c)) /\ d.count[c] <= MaxReg
           /\ \A c \in Cores : IsFiniteSet(Founded(d, c)) /\ d.count[c] \in Nat
<1>1. d \in DB
    BY DEF Sound
<1>2. \A c \in Cores : IsFiniteSet(Founded(d, c)) /\ d.count[c] \in Nat
    BY <1>1, Limits, OpenChan, FS_Subset DEF Founded, DB
<1> QED
    BY <1>1, <1>2, OpenChan DEF Sound, ListOK, Uses

\* The record of one channel and the counts of its references are replaced.
EditOf(d, e, x) ==
    /\ e \in DB /\ e.chan[x] \in ChanInfo /\ ListOK(d, e.chan[x].access)
    /\ \A y \in Chans \ {x} : e.chan[y] = d.chan[y]
    /\ \A w \in Cores \cup Chans : e.refs[w][x] = Names(e.chan[x], w)
    /\ \A w \in Cores \cup Chans, y \in Chans \ {x} : e.refs[w][y] = d.refs[w][y]
    /\ \A c \in Cores : e.count[c] = Cardinality(Founded(e, c)) /\ e.count[c] <= MaxReg

\* Tables stay sound when one record and its references are replaced together.
LEMMA Edited ==
    ASSUME NEW d, Sound(d), NEW x \in Open(d), NEW e, EditOf(d, e, x)
    PROVE  Sound(e) /\ Open(e) = Open(d)
<1> USE DEF EditOf
<1>1. d \in DB /\ x \in Chans
    BY SoundIs
<1>2. Open(e) = Open(d)
    BY <1>1, OpenChan DEF Open
<1>3. ASSUME NEW w \in Cores \cup Chans, NEW y \in Chans PROVE e.refs[w][y] = Uses(e, w, y)
    <2>1. CASE y = x
        BY <1>1, <1>2, <2>1 DEF Uses
    <2>2. CASE y # x
        BY <1>1, <1>2, <2>2 DEF Sound, Uses
    <2> QED
        BY <2>1, <2>2
<1>4. ASSUME NEW y \in Open(e) PROVE ListOK(e, e.chan[y].access)
    <2>1. CASE y = x
        BY <1>2, <2>1 DEF ListOK
    <2>2. CASE y # x
        BY <1>1, <1>2, <1>4, <2>2, SoundIs DEF ListOK
    <2> QED
        BY <2>1, <2>2
<1> QED
    BY <1>2, <1>3, <1>4 DEF Sound, ListOK

\* When the founder stays, the number of founded channels does.
LEMMA SameFounder ==
    ASSUME NEW d, Sound(d), NEW x \in Open(d), NEW e \in DB, e.count = d.count,
           e.chan[x] \in ChanInfo, e.chan[x].founder = d.chan[x].founder,
           \A y \in Chans \ {x} : e.chan[y] = d.chan[y]
    PROVE  \A c \in Cores : e.count[c] = Cardinality(Founded(e, c)) /\ e.count[c] <= MaxReg
<1>1. d \in DB /\ x \in Chans /\ Open(d) \subseteq Chans
    BY SoundIs
<1>2. Open(e) = Open(d)
    BY <1>1, OpenChan DEF Open
<1>3. ASSUME NEW c \in Cores PROVE Founded(e, c) = Founded(d, c)
    BY <1>1, <1>2 DEF Founded
<1> QED
    BY <1>3, SoundIs

-----------------------------------------------------------------------------
(* The fields of a channel.                                                *)

\* e is d with the record r for the channel x, and the counts that go with it.
Put(d, e, x, r) == Sound(e) /\ Beside(d, e) /\ e.chan = [d.chan EXCEPT ![x] = r]

\* A record that is replaced leaves the same channels open.
LEMMA Reopened ==
    ASSUME NEW d \in DB, NEW x \in Open(d), NEW r \in ChanInfo, NEW e,
           e.chan = [d.chan EXCEPT ![x] = r]
    PROVE  Open(e) = Open(d)
<1>1. x \in Chans /\ d.chan \in [Chans -> ChanInfo \cup {NULL}] /\ r # NULL /\ d.chan[x] # NULL
    BY Apart DEF Open, DB
<1>2. \A y \in Chans : e.chan[y] = IF y = x THEN r ELSE d.chan[y]
    BY <1>1
<1> QED
    BY <1>1, <1>2 DEF Open

\* What a command that rewrites one channel leaves as it was.
LEMMA PutIs ==
    ASSUME NEW d, Sound(d), NEW x \in Open(d), NEW r \in ChanInfo, NEW e, Put(d, e, x, r)
    PROVE  /\ Sound(e) /\ e \in DB /\ Open(e) = Open(d) /\ Beside(d, e)
           /\ e.chan[x] = r /\ \A y \in Chans : y # x => e.chan[y] = d.chan[y]
<1>1. d \in DB /\ x \in Chans /\ e \in DB
    BY SoundIs DEF Put
<1>2. e.chan[x] = r /\ \A y \in Chans : y # x => e.chan[y] = d.chan[y]
    BY <1>1 DEF Put, DB
<1> QED
    BY <1>1, <1>2, OpenChan DEF Open, Put

\* A change of the record that keeps the founder.
LEMMA Rewritten ==
    ASSUME NEW d, Sound(d), NEW x \in Open(d), NEW r \in ChanInfo, ListOK(d, r.access),
           r.founder = d.chan[x].founder, NEW e \in DB, Beside(d, e), e.count = d.count,
           e.chan = [d.chan EXCEPT ![x] = r],
           \A w \in Cores \cup Chans, y \in Chans :
              e.refs[w][y] = IF y = x THEN Names(r, w) ELSE d.refs[w][y]
    PROVE  Put(d, e, x, r)
<1>1. d \in DB /\ x \in Chans
    BY SoundIs
<1>2. e.chan[x] = r /\ \A y \in Chans \ {x} : e.chan[y] = d.chan[y]
    BY <1>1 DEF DB
<1>3. \A c \in Cores : e.count[c] = Cardinality(Founded(e, c)) /\ e.count[c] <= MaxReg
    BY <1>2, SameFounder
<1>4. /\ \A w \in Cores \cup Chans : e.refs[w][x] = Names(e.chan[x], w)
      /\ \A w \in Cores \cup Chans, y \in Chans \ {x} : e.refs[w][y] = d.refs[w][y]
    BY <1>1, <1>2
<1>5. e.chan[x] \in ChanInfo /\ ListOK(d, e.chan[x].access)
    BY <1>2
<1>6. Sound(e)
    <2>1. EditOf(d, e, x)
        BY <1>2, <1>3, <1>4, <1>5 DEF EditOf
    <2> QED
        BY <2>1, Edited
<1> QED
    BY <1>6 DEF Put

\* How the references of a channel change with its founder, and so on.
LEMMA NamesFounder ==
    ASSUME NEW r \in ChanInfo, NEW c \in Cores \cup {NULL}, NEW w
    PROVE  LET q == [r EXCEPT !.founder = c]
           IN  /\ q \in ChanInfo /\ q.founder = c /\ q.successor = r.successor
               /\ q.akicks = r.akicks /\ q.access = r.access
               /\ Names(q, w) = Names(r, w) - One(r.founder = w) + One(c = w)
<1> DEFINE q == [r EXCEPT !.founder = c]
<1>1. /\ q \in ChanInfo /\ q.founder = c /\ q.successor = r.successor
      /\ q.akicks = r.akicks /\ q.access = r.access
    BY DEF ChanInfo
<1> HIDE DEF q
<1>2. Names(q, w) = Names(r, w) - One(r.founder = w) + One(c = w)
    BY <1>1, InfoType, HitsFinite DEF Names, One
<1> QED
    BY <1>1, <1>2 DEF q

\* The same for the successor.
LEMMA NamesSuccessor ==
    ASSUME NEW r \in ChanInfo, NEW c \in Cores \cup {NULL}, NEW w
    PROVE  LET q == [r EXCEPT !.successor = c]
           IN  /\ q \in ChanInfo /\ q.founder = r.founder /\ q.successor = c
               /\ q.akicks = r.akicks /\ q.access = r.access
               /\ Names(q, w) = Names(r, w) - One(r.successor = w) + One(c = w)
<1> DEFINE q == [r EXCEPT !.successor = c]
<1>1. /\ q \in ChanInfo /\ q.founder = r.founder /\ q.successor = c
      /\ q.akicks = r.akicks /\ q.access = r.access
    BY DEF ChanInfo
<1> HIDE DEF q
<1>2. Names(q, w) = Names(r, w) - One(r.successor = w) + One(c = w)
    BY <1>1, InfoType, HitsFinite DEF Names, One
<1> QED
    BY <1>1, <1>2 DEF q

\* The same for the autokicks.
LEMMA NamesAkicks ==
    ASSUME NEW r \in ChanInfo, NEW K \in SUBSET Cores, NEW w
    PROVE  LET q == [r EXCEPT !.akicks = K]
           IN  /\ q \in ChanInfo /\ q.founder = r.founder /\ q.successor = r.successor
               /\ q.akicks = K /\ q.access = r.access
               /\ Names(q, w) = Names(r, w) - One(w \in r.akicks) + One(w \in K)
<1> DEFINE q == [r EXCEPT !.akicks = K]
<1>1. /\ q \in ChanInfo /\ q.founder = r.founder /\ q.successor = r.successor
      /\ q.akicks = K /\ q.access = r.access
    BY DEF ChanInfo
<1> HIDE DEF q
<1>2. Names(q, w) = Names(r, w) - One(w \in r.akicks) + One(w \in K)
    BY <1>1, InfoType, HitsFinite DEF Names, One
<1> QED
    BY <1>1, <1>2 DEF q

\* The same for the access list.
LEMMA NamesAccess ==
    ASSUME NEW r \in ChanInfo, NEW a \in Seq(Entry), NEW w
    PROVE  LET q == [r EXCEPT !.access = a]
           IN  /\ q \in ChanInfo /\ q.founder = r.founder /\ q.successor = r.successor
               /\ q.akicks = r.akicks /\ q.access = a
               /\ Names(q, w) = Names(r, w) - Cardinality(Hits(r.access, w)) + Cardinality(Hits(a, w))
<1> DEFINE q == [r EXCEPT !.access = a]
<1>1. /\ q \in ChanInfo /\ q.founder = r.founder /\ q.successor = r.successor
      /\ q.akicks = r.akicks /\ q.access = a
    BY DEF ChanInfo
<1> HIDE DEF q
<1>2. Names(q, w) = Names(r, w) - Cardinality(Hits(r.access, w)) + Cardinality(Hits(a, w))
    BY <1>1, InfoType, HitsFinite DEF Names, One
<1> QED
    BY <1>1, <1>2 DEF q

\* What a channel names has counted it.
LEMMA Counted ==
    ASSUME NEW d, Sound(d), NEW x \in Open(d)
    PROVE  LET r == d.chan[x]
           IN  /\ r.founder # NULL => d.refs[r.founder][x] > 0
               /\ r.successor # NULL => d.refs[r.successor][x] > 0
               /\ \A c \in r.akicks : d.refs[c][x] > 0
               /\ \A i \in 1..Len(r.access) : r.access[i].who \in Cores \cup Chans
                     => d.refs[r.access[i].who][x] > 0
<1> DEFINE r == d.chan[x]
<1>1. r \in ChanInfo /\ \A w \in Cores \cup Chans : d.refs[w][x] = Names(r, w)
    BY SoundIs
<1> HIDE DEF r
<1>2. \A w : Cardinality(Hits(r.access, w)) \in Nat
    BY <1>1, InfoType, HitsFinite
<1>3. r.founder # NULL => d.refs[r.founder][x] > 0
    <2> SUFFICES ASSUME r.founder # NULL PROVE d.refs[r.founder][x] > 0
        OBVIOUS
    <2>1. r.founder \in Cores
        BY <1>1, InfoType
    <2>2. Names(r, r.founder) > 0
        BY <1>2 DEF Names, One
    <2> QED
        BY <1>1, <2>1, <2>2
<1>4. r.successor # NULL => d.refs[r.successor][x] > 0
    <2> SUFFICES ASSUME r.successor # NULL PROVE d.refs[r.successor][x] > 0
        OBVIOUS
    <2>1. r.successor \in Cores
        BY <1>1, InfoType
    <2>2. Names(r, r.successor) > 0
        BY <1>2 DEF Names, One
    <2> QED
        BY <1>1, <2>1, <2>2
<1>5. ASSUME NEW c \in r.akicks PROVE d.refs[c][x] > 0
    <2>1. c \in Cores
        BY <1>1, InfoType
    <2>2. Names(r, c) > 0
        BY <1>2, <1>5 DEF Names, One
    <2> QED
        BY <1>1, <2>1, <2>2
<1>6. ASSUME NEW i \in 1..Len(r.access), r.access[i].who \in Cores \cup Chans
      PROVE  d.refs[r.access[i].who][x] > 0
    <2> DEFINE w == r.access[i].who
    <2>1. r.access \in Seq(Entry)
        BY <1>1, InfoType
    <2>2. IsFiniteSet(Hits(r.access, w)) /\ i \in Hits(r.access, w)
        <3>1. IsFiniteSet(Hits(r.access, w))
            BY <2>1, HitsFinite
        <3>2. DOMAIN r.access = 1..Len(r.access)
            BY <2>1
        <3> QED
            BY <3>1, <3>2 DEF Hits
    <2>3. Cardinality(Hits(r.access, w)) > 0
        BY <1>2, <2>2, FS_EmptySet
    <2> HIDE DEF w
    <2>4. Names(r, w) > 0
        BY <1>2, <2>3 DEF Names, One
    <2> QED
        BY <1>1, <1>6, <2>4 DEF w
<1> QED
    BY <1>3, <1>4, <1>5, <1>6 DEF r

-----------------------------------------------------------------------------
(* The operations on one channel.                                          *)

\* A channel changes its successor.
LEMMA SetSuccessorIs ==
    ASSUME NEW d, Sound(d), NEW x \in Open(d), NEW c \in Cores \cup {NULL}
    PROVE  Put(d, SetSuccessor(d, x, c), x, [d.chan[x] EXCEPT !.successor = c])
<1> DEFINE r == d.chan[x]
           s == r.successor
           left == Unrefer(d, s, x)
           set == [left EXCEPT !.chan[x].successor = c]
           e == Refer(set, c, x)
           q == [r EXCEPT !.successor = c]
<1>1. d \in DB /\ x \in Chans /\ r \in ChanInfo /\ s \in Cores \cup {NULL} /\ ListOK(d, r.access)
    BY SoundIs, InfoType
<1>2. s \notin Chans /\ c \notin Chans /\ (s \in Cores \cup Chans => d.refs[s][x] > 0)
    BY <1>1, Apart, Counted
<1>3. /\ left \in DB /\ Beside(d, left) /\ left.chan = d.chan /\ left.count = d.count
      /\ \A v \in Cores \cup Chans, y \in Chans :
            left.refs[v][y] = d.refs[v][y] - One(v = s /\ y = x)
    BY <1>1, <1>2, UnreferIs
<1>4. /\ q \in ChanInfo /\ q.founder = r.founder /\ q.access = r.access
      /\ \A w : Names(q, w) = Names(r, w) - One(s = w) + One(c = w)
    BY <1>1, NamesSuccessor
<1>5. SetSuccessor(d, x, c) = e
    BY DEF SetSuccessor
<1> HIDE DEF left, q
<1>6. /\ set \in DB /\ Beside(d, set) /\ set.chan = [d.chan EXCEPT ![x] = q]
      /\ set.count = d.count /\ set.refs = left.refs
    BY <1>1, <1>3, <1>4 DEF DB, Beside, q
<1> HIDE DEF set
<1>7. /\ e \in DB /\ Beside(set, e) /\ e.chan = set.chan /\ e.count = set.count
      /\ \A v \in Cores \cup Chans, y \in Chans :
            e.refs[v][y] = set.refs[v][y] + One(v = c /\ y = x)
    BY <1>1, <1>2, <1>6, ReferIs
<1> HIDE DEF e, r
<1>8. ASSUME NEW w \in Cores \cup Chans, NEW y \in Chans
      PROVE  e.refs[w][y] = IF y = x THEN Names(q, w) ELSE d.refs[w][y]
    <2>1. e.refs[w][y] = d.refs[w][y] - One(w = s /\ y = x) + One(w = c /\ y = x)
        BY <1>3, <1>6, <1>7
    <2>2. d.refs[w][y] \in Nat
        BY <1>1 DEF DB
    <2>3. d.refs[w][x] = Names(r, w)
        BY SoundIs DEF r
    <2> QED
        BY <1>4, <2>1, <2>2, <2>3 DEF One
<1>9. Put(d, e, x, q)
    <2>1. Beside(d, e) /\ e.count = d.count /\ e.chan = [d.chan EXCEPT ![x] = q] /\ e \in DB
        BY <1>6, <1>7 DEF Beside
    <2>2. ListOK(d, q.access) /\ q \in ChanInfo /\ q.founder = d.chan[x].founder
        BY <1>1, <1>4 DEF r
    <2> QED
        BY <1>8, <2>1, <2>2, Rewritten
<1> QED
    BY <1>5, <1>9 DEF q, r

\* A channel changes its founder, who has room for it.
LEMMA SetFounderIs ==
    ASSUME NEW d, Sound(d), NEW x \in Open(d), NEW c \in Cores \cup {NULL},
           c \in Cores => Below(d, c)
    PROVE  Put(d, SetFounder(d, x, c), x, [d.chan[x] EXCEPT !.founder = c])
<1> DEFINE r == d.chan[x]
           f == r.founder
           less == [d EXCEPT !.count[f] = IF @ > 0 THEN @ - 1 ELSE @]
           left == IF f = NULL THEN d ELSE Unrefer(less, f, x)
           set == [left EXCEPT !.chan[x].founder = c]
           more == [set EXCEPT !.count[c] = @ + 1]
           e == IF c = NULL THEN set ELSE Refer(more, c, x)
           q == [r EXCEPT !.founder = c]
<1>1. d \in DB /\ x \in Chans /\ r \in ChanInfo /\ f \in Cores \cup {NULL} /\ ListOK(d, r.access)
    BY SoundIs, InfoType
<1>2. f \notin Chans /\ c \notin Chans /\ (f \in Cores \cup Chans => d.refs[f][x] > 0)
    BY <1>1, Apart, Counted
<1>3. /\ left \in DB /\ Beside(d, left) /\ left.chan = d.chan
      /\ \A v \in Cores \cup Chans, y \in Chans :
            left.refs[v][y] = d.refs[v][y] - One(v = f /\ y = x)
      /\ \A v \in Cores : left.count[v] = IF v = f /\ d.count[f] > 0 THEN d.count[f] - 1 ELSE d.count[v]
    <2>1. CASE f = NULL
        <3>1. \A v \in Cores \cup Chans : v # f
            BY <2>1, Apart
        <3> QED
            BY <1>1, <2>1, <3>1 DEF One, Beside, DB
    <2>2. CASE f # NULL
        <3>1. f \in Cores
            BY <1>1, <2>2
        <3>2. /\ less \in DB /\ Beside(d, less) /\ less.chan = d.chan /\ less.refs = d.refs
              /\ \A v \in Cores : less.count[v] = IF v = f /\ d.count[f] > 0 THEN d.count[f] - 1 ELSE d.count[v]
            <4> HIDE DEF f, r
            <4> DEFINE C == [d.count EXCEPT ![f] = IF d.count[f] > 0 THEN d.count[f] - 1 ELSE d.count[f]]
            <4>1. less = [d EXCEPT !.count = C]
                OBVIOUS
            <4>2. d.count \in [Cores -> Nat]
                BY <1>1 DEF DB
            <4>3. /\ C \in [Cores -> Nat]
                  /\ \A v \in Cores : C[v] = IF v = f /\ d.count[f] > 0 THEN d.count[f] - 1 ELSE d.count[v]
                BY <3>1, <4>2
            <4> HIDE DEF C, less
            <4> QED
                BY <1>1, <4>1, <4>3 DEF DB, Beside
        <3> HIDE DEF less
        <3>3. left = Unrefer(less, f, x)
            BY <2>2
        <3>4. Open(less) = Open(d)
            BY <3>2 DEF Open
        <3>5. /\ left \in DB /\ Beside(less, left) /\ left.chan = less.chan /\ left.count = less.count
              /\ \A v \in Cores \cup Chans, y \in Chans :
                    left.refs[v][y] = less.refs[v][y] - One(v = f /\ y = x)
            <4> HIDE DEF left, f, r
            <4> QED
                BY <1>1, <1>2, <3>2, <3>3, <3>4, UnreferIs
        <3> HIDE DEF left, f, r
        <3> QED
            BY <3>2, <3>5 DEF Beside
    <2> QED
        BY <2>1, <2>2
<1>4. /\ q \in ChanInfo /\ q.founder = c /\ q.access = r.access
      /\ \A w : Names(q, w) = Names(r, w) - One(f = w) + One(c = w)
    BY <1>1, NamesFounder
<1>5. SetFounder(d, x, c) = e
    BY DEF SetFounder
<1> HIDE DEF left, q
<1>6. /\ set \in DB /\ Beside(d, set) /\ set.chan = [d.chan EXCEPT ![x] = q]
      /\ set.count = left.count /\ set.refs = left.refs
    BY <1>1, <1>3, <1>4 DEF DB, Beside, q
<1> HIDE DEF set
<1>7. /\ e \in DB /\ Beside(set, e) /\ e.chan = set.chan
      /\ \A v \in Cores : e.count[v] = set.count[v] + One(v = c)
      /\ \A v \in Cores \cup Chans, y \in Chans :
            e.refs[v][y] = set.refs[v][y] + One(v = c /\ y = x)
    <2>1. CASE c = NULL
        <3>1. \A v \in Cores \cup Chans : v # c
            BY <2>1, Apart
        <3> QED
            BY <1>6, <2>1, <3>1 DEF One, Beside, DB
    <2>2. CASE c # NULL
        <3>1. c \in Cores
            BY <2>2
        <3>2. /\ more \in DB /\ Beside(set, more) /\ more.chan = set.chan /\ more.refs = set.refs
              /\ \A v \in Cores : more.count[v] = set.count[v] + One(v = c)
            <4> DEFINE C == [set.count EXCEPT ![c] = set.count[c] + 1]
            <4>1. more = [set EXCEPT !.count = C]
                OBVIOUS
            <4>2. set.count \in [Cores -> Nat]
                BY <1>6 DEF DB
            <4>3. C \in [Cores -> Nat] /\ \A v \in Cores : C[v] = set.count[v] + One(v = c)
                BY <3>1, <4>2 DEF One
            <4> HIDE DEF C, more
            <4> QED
                BY <1>6, <4>1, <4>3 DEF DB, Beside
        <3> HIDE DEF more
        <3>3. e = Refer(more, c, x)
            BY <2>2
        <3>4. /\ e \in DB /\ Beside(more, e) /\ e.chan = more.chan /\ e.count = more.count
              /\ \A v \in Cores \cup Chans, y \in Chans :
                    e.refs[v][y] = more.refs[v][y] + One(v = c /\ y = x)
            <4> HIDE DEF e
            <4> QED
                BY <1>1, <1>2, <3>2, <3>3, ReferIs
        <3> HIDE DEF e
        <3> QED
            BY <3>2, <3>4 DEF Beside
    <2> QED
        BY <2>1, <2>2
<1> HIDE DEF e
<1>8. e.chan[x] = q /\ \A y \in Chans \ {x} : e.chan[y] = d.chan[y]
    BY <1>1, <1>6, <1>7 DEF DB
<1>9. Open(e) = Open(d)
    BY <1>1, <1>4, <1>7, <1>8, OpenChan DEF Open
<1>10. ASSUME NEW w \in Cores \cup Chans, NEW y \in Chans
       PROVE  e.refs[w][y] = IF y = x THEN Names(q, w) ELSE d.refs[w][y]
    <2> HIDE DEF r
    <2>1. e.refs[w][y] = d.refs[w][y] - One(w = f /\ y = x) + One(w = c /\ y = x)
        BY <1>3, <1>6, <1>7
    <2>2. d.refs[w][y] \in Nat
        BY <1>1 DEF DB
    <2>3. d.refs[w][x] = Names(r, w)
        BY SoundIs DEF r
    <2> QED
        BY <1>4, <2>1, <2>2, <2>3 DEF One
<1>11. ASSUME NEW v \in Cores
       PROVE  e.count[v] = Cardinality(Founded(e, v)) /\ e.count[v] <= MaxReg
    <2> DEFINE F == Founded(d, v)
    <2>1. IsFiniteSet(F) /\ d.count[v] = Cardinality(F) /\ d.count[v] \in Nat /\ d.count[v] <= MaxReg
        BY SoundIs
    <2>2. x \in F <=> v = f
        BY DEF Founded
    <2>3. Founded(e, v) = IF v = c THEN F \cup {x} ELSE F \ {x}
        BY <1>4, <1>8, <1>9, SoundIs DEF Founded
    <2>4. v = f => d.count[f] > 0
        BY <2>1, <2>2, FS_EmptySet
    <2>5. e.count[v] = IF v = f THEN d.count[v] - 1 + One(v = c) ELSE d.count[v] + One(v = c)
        <3>1. e.count[v] = left.count[v] + One(v = c)
            BY <1>6, <1>7
        <3>2. left.count[v] = IF v = f THEN d.count[v] - 1 ELSE d.count[v]
            BY <1>3, <2>4
        <3> HIDE DEF f
        <3> QED
            BY <3>1, <3>2
    <2> HIDE DEF F, f
    <2>6. CASE v = c
        <3>1. d.count[v] < MaxReg
            BY <2>6 DEF Below
        <3>2. Cardinality(Founded(e, v)) = IF v = f THEN d.count[v] ELSE d.count[v] + 1
            <4>1. Founded(e, v) = F \cup {x}
                BY <2>3, <2>6
            <4>2. CASE v = f
                <5>1. Founded(e, v) = F
                    BY <2>2, <4>1, <4>2
                <5> QED
                    BY <2>1, <4>2, <5>1
            <4>3. CASE v # f
                <5>1. x \notin F
                    BY <2>2, <4>3
                <5>2. Cardinality(F \cup {x}) = Cardinality(F) + 1
                    BY <2>1, <5>1, FS_AddElement
                <5> QED
                    BY <2>1, <4>1, <4>3, <5>2
            <4> QED
                BY <4>2, <4>3
        <3> QED
            BY <2>1, <2>5, <2>6, <3>1, <3>2, Limits DEF One
    <2>7. CASE v # c
        <3>1. Cardinality(Founded(e, v)) = IF v = f THEN d.count[v] - 1 ELSE d.count[v]
            <4>1. CASE v = f
                BY <2>1, <2>2, <2>3, <2>7, <4>1, FS_RemoveElement
            <4>2. CASE v # f
                <5>1. Founded(e, v) = F
                    BY <2>2, <2>3, <2>7, <4>2
                <5> QED
                    BY <2>1, <4>2, <5>1
            <4> QED
                BY <4>1, <4>2
        <3> QED
            BY <2>1, <2>5, <2>7, <3>1, Limits DEF One
    <2> QED
        BY <2>6, <2>7
<1>12. Sound(e)
    <2>1. EditOf(d, e, x)
        BY <1>1, <1>4, <1>7, <1>8, <1>10, <1>11 DEF EditOf
    <2> QED
        BY <2>1, Edited
<1>13. Put(d, e, x, q)
    BY <1>6, <1>7, <1>12 DEF Put, Beside
<1> QED
    BY <1>5, <1>13 DEF q

\* An entry is added to the access list.
LEMMA AddEntryIs ==
    ASSUME NEW d, Sound(d), NEW x \in Open(d), NEW m, NEW level \in Levels,
           SetMask(d, m) \in Cores \cup Chans \cup Nicks \cup {NULL},
           Len(d.chan[x].access) < MaxAccess,
           SetMask(d, m) \in Chans => /\ SetMask(d, m) \in Open(d)
                                      /\ Hits(d.chan[x].access, SetMask(d, m)) = {}
    PROVE  Put(d, AddEntry(d, x, m, level), x,
               [d.chan[x] EXCEPT !.access = Append(@, [who |-> SetMask(d, m), level |-> level])])
<1> DEFINE r == d.chan[x]
           w == SetMask(d, m)
           n == [who |-> w, level |-> level]
           a == Append(r.access, n)
           set == [d EXCEPT !.chan[x].access = a]
           e == Refer(set, w, x)
           q == [r EXCEPT !.access = a]
<1>1. /\ d \in DB /\ x \in Chans /\ Open(d) \subseteq Chans /\ r \in ChanInfo /\ r.access \in Seq(Entry)
      /\ ListOK(d, r.access)
    BY SoundIs, InfoType
<1>2. n \in Entry /\ n.who = w
    BY DEF Entry
<1>3. AddEntry(d, x, m, level) = e
    BY DEF AddEntry
<1> HIDE DEF w
<1>4. /\ a \in Seq(Entry) /\ Len(r.access) \in Nat /\ Len(a) = Len(r.access) + 1
      /\ DOMAIN a = 1..(Len(r.access) + 1) /\ a[Len(r.access) + 1] = n
      /\ DOMAIN r.access = 1..Len(r.access)
      /\ \A i \in 1..Len(r.access) : a[i] = r.access[i]
      /\ \A v : Cardinality(Hits(a, v)) = Cardinality(Hits(r.access, v)) + One(v = w)
    <2>1. \A v : Cardinality(Hits(a, v)) = Cardinality(Hits(r.access, v)) + One(v = w)
        BY <1>1, <1>2, HitsAppend
    <2> HIDE DEF n
    <2> QED
        BY <1>1, <1>2, <2>1
<1> HIDE DEF n, a
<1>5. ListOK(d, a)
    <2> HIDE DEF r
    <2>1. Len(a) <= MaxAccess
        BY <1>4, Limits DEF r
    <2>2. ASSUME NEW i \in DOMAIN a, a[i].who \in Chans PROVE a[i].who \in Open(d)
        <3>1. CASE i = Len(r.access) + 1
            BY <1>2, <1>4, <2>2, <3>1 DEF w
        <3>2. CASE i # Len(r.access) + 1
            <4>1. i \in DOMAIN r.access /\ a[i] = r.access[i]
                BY <1>4, <3>2
            <4> QED
                BY <1>1, <2>2, <4>1 DEF ListOK
        <3> QED
            BY <3>1, <3>2
    <2>3. ASSUME NEW i \in DOMAIN a, NEW j \in DOMAIN a, a[i].who \in Chans, a[i].who = a[j].who
          PROVE  i = j
        <3>1. ASSUME NEW k \in DOMAIN r.access PROVE ~(r.access[k].who = w /\ w \in Chans)
            BY <3>1 DEF Hits, r, w
        <3>2. \A k \in DOMAIN a : k # Len(r.access) + 1 => k \in DOMAIN r.access /\ a[k] = r.access[k]
            BY <1>4
        <3>3. CASE i = Len(r.access) + 1 /\ j # i
            BY <1>2, <1>4, <2>3, <3>1, <3>2, <3>3
        <3>4. CASE j = Len(r.access) + 1 /\ j # i
            BY <1>2, <1>4, <2>3, <3>1, <3>2, <3>4
        <3>5. CASE i # Len(r.access) + 1 /\ j # Len(r.access) + 1
            BY <1>1, <2>3, <3>2, <3>5 DEF ListOK
        <3> QED
            BY <3>3, <3>4, <3>5
    <2> QED
        BY <2>1, <2>2, <2>3 DEF ListOK
<1>6. /\ q \in ChanInfo /\ q.founder = r.founder /\ q.access = a
      /\ \A v : Names(q, v) = Names(r, v) + One(v = w)
    <2>1. \A v : Names(q, v) = Names(r, v) - Cardinality(Hits(r.access, v)) + Cardinality(Hits(a, v))
        BY <1>1, <1>4, NamesAccess
    <2>2. q \in ChanInfo /\ q.founder = r.founder /\ q.access = a
        BY <1>1, <1>4, NamesAccess
    <2>3. \A v : Names(r, v) \in Nat /\ Cardinality(Hits(r.access, v)) \in Nat
        BY <1>1, NamesType, HitsFinite
    <2> HIDE DEF q, r
    <2>4. ASSUME NEW v PROVE Names(q, v) = Names(r, v) + One(v = w)
        BY <1>4, <2>1, <2>3 DEF One
    <2> QED
        BY <2>2, <2>4
<1> HIDE DEF q
<1>7. /\ set \in DB /\ Beside(d, set) /\ set.chan = [d.chan EXCEPT ![x] = q]
      /\ set.count = d.count /\ set.refs = d.refs
    BY <1>1, <1>6 DEF DB, Beside, q
<1> HIDE DEF set
<1>8. w \in Chans => w \in Open(set)
    BY <1>1, <1>6, <1>7, Reopened DEF w
<1>9. /\ e \in DB /\ Beside(set, e) /\ e.chan = set.chan /\ e.count = set.count
      /\ \A v \in Cores \cup Chans, y \in Chans :
            e.refs[v][y] = set.refs[v][y] + One(v = w /\ y = x)
    BY <1>1, <1>7, <1>8, ReferIs
<1> HIDE DEF e, r
<1>10. ASSUME NEW v \in Cores \cup Chans, NEW y \in Chans
       PROVE  e.refs[v][y] = IF y = x THEN Names(q, v) ELSE d.refs[v][y]
    <2>1. e.refs[v][y] = d.refs[v][y] + One(v = w /\ y = x)
        BY <1>7, <1>9
    <2>2. d.refs[v][y] \in Nat
        BY <1>1 DEF DB
    <2>3. d.refs[v][x] = Names(r, v)
        BY SoundIs DEF r
    <2> QED
        BY <1>6, <2>1, <2>2, <2>3 DEF One
<1>11. Put(d, e, x, q)
    <2>1. Beside(d, e) /\ e.count = d.count /\ e.chan = [d.chan EXCEPT ![x] = q] /\ e \in DB
        BY <1>7, <1>9 DEF Beside
    <2>2. ListOK(d, q.access) /\ q \in ChanInfo /\ q.founder = d.chan[x].founder
        BY <1>5, <1>6 DEF r
    <2> QED
        BY <1>10, <2>1, <2>2, Rewritten
<1> QED
    BY <1>3, <1>11 DEF q, r, a, n, w

\* What is left of an access list when one entry is erased.
LEMMA ListRemove ==
    ASSUME NEW d, NEW a \in Seq(Entry), ListOK(d, a), NEW i \in 1..Len(a)
    PROVE  /\ RemoveAt(a, i) \in Seq(Entry) /\ Len(RemoveAt(a, i)) = Len(a) - 1 /\ ListOK(d, RemoveAt(a, i))
           /\ \A j \in DOMAIN RemoveAt(a, i) : \E k \in DOMAIN a : k # i /\ RemoveAt(a, i)[j] = a[k]
<1> DEFINE b == RemoveAt(a, i)
<1>1. /\ b \in Seq(Entry) /\ Len(a) \in Nat /\ Len(b) = Len(a) - 1 /\ DOMAIN a = 1..Len(a)
      /\ \A j \in 1..(Len(a) - 1) : b[j] = IF j < i THEN a[j] ELSE a[j + 1]
    <2>1. Len(a) \in Nat /\ DOMAIN a = 1..Len(a)
        OBVIOUS
    <2> QED
        BY <2>1, RemoveAtIs
<1> HIDE DEF b
<1>2. DOMAIN b = 1..(Len(a) - 1)
    BY <1>1
<1> DEFINE k(j) == IF j < i THEN j ELSE j + 1
<1>3. /\ \A j \in DOMAIN b : k(j) \in DOMAIN a /\ k(j) # i /\ b[j] = a[k(j)]
      /\ \A j, l \in DOMAIN b : k(j) = k(l) => j = l
    BY <1>1, <1>2
<1> HIDE DEF k
<1>4. ListOK(d, b)
    <2>1. Len(b) <= MaxAccess
        BY <1>1, Limits DEF ListOK
    <2> QED
        BY <1>3, <2>1 DEF ListOK
<1> QED
    BY <1>1, <1>3, <1>4 DEF b

\* An entry is erased from the access list.
LEMMA EraseEntryIs ==
    ASSUME NEW d, Sound(d), NEW x \in Open(d), NEW i \in 1..Len(d.chan[x].access)
    PROVE  Put(d, EraseEntry(d, x, i), x, [d.chan[x] EXCEPT !.access = RemoveAt(@, i)])
<1> DEFINE r == d.chan[x]
           w == r.access[i].who
           a == RemoveAt(r.access, i)
           set == [d EXCEPT !.chan[x].access = a]
           e == Unrefer(set, w, x)
           q == [r EXCEPT !.access = a]
<1>1. /\ d \in DB /\ x \in Chans /\ Open(d) \subseteq Chans /\ r \in ChanInfo /\ r.access \in Seq(Entry)
      /\ ListOK(d, r.access)
    BY SoundIs, InfoType
<1>2. /\ a \in Seq(Entry) /\ ListOK(d, a)
      /\ \A v : Cardinality(Hits(a, v)) = Cardinality(Hits(r.access, v)) - One(v = w)
    <2> HIDE DEF r
    <2>1. i \in 1..Len(r.access)
        BY DEF r
    <2>2. a \in Seq(Entry) /\ ListOK(d, a)
        BY <1>1, <2>1, ListRemove
    <2>3. \A v : Cardinality(Hits(a, v)) = Cardinality(Hits(r.access, v)) - One(w = v)
        BY <1>1, <2>1, HitsRemove
    <2>4. \A v : One(w = v) = One(v = w)
        BY DEF One
    <2> QED
        BY <2>2, <2>3, <2>4
<1>3. EraseEntry(d, x, i) = e
    BY DEF EraseEntry
<1>4. (w \in Cores \cup Chans => d.refs[w][x] > 0) /\ (w \in Chans => w \in Open(d))
    <2>1. DOMAIN r.access = 1..Len(r.access)
        BY <1>1
    <2> QED
        BY <1>1, <2>1, Counted DEF ListOK
<1> HIDE DEF w, a
<1>5. /\ q \in ChanInfo /\ q.founder = r.founder /\ q.access = a
      /\ \A v : Names(q, v) = Names(r, v) - One(v = w)
    <2>1. \A v : Names(q, v) = Names(r, v) - Cardinality(Hits(r.access, v)) + Cardinality(Hits(a, v))
        BY <1>1, <1>2, NamesAccess
    <2>2. q \in ChanInfo /\ q.founder = r.founder /\ q.access = a
        BY <1>1, <1>2, NamesAccess
    <2>3. \A v : Names(r, v) \in Nat /\ Cardinality(Hits(r.access, v)) \in Nat
        BY <1>1, NamesType, HitsFinite
    <2> HIDE DEF q, r
    <2>4. ASSUME NEW v PROVE Names(q, v) = Names(r, v) - One(v = w)
        BY <1>2, <2>1, <2>3 DEF One
    <2> QED
        BY <2>2, <2>4
<1> HIDE DEF q
<1>6. /\ set \in DB /\ Beside(d, set) /\ set.chan = [d.chan EXCEPT ![x] = q]
      /\ set.count = d.count /\ set.refs = d.refs
    BY <1>1, <1>5 DEF DB, Beside, q
<1> HIDE DEF set
<1>7. w \in Chans => w \in Open(set)
    BY <1>1, <1>4, <1>5, <1>6, Reopened
<1>8. /\ e \in DB /\ Beside(set, e) /\ e.chan = set.chan /\ e.count = set.count
      /\ \A v \in Cores \cup Chans, y \in Chans :
            e.refs[v][y] = set.refs[v][y] - One(v = w /\ y = x)
    BY <1>1, <1>4, <1>6, <1>7, UnreferIs
<1> HIDE DEF e, r
<1>9. ASSUME NEW v \in Cores \cup Chans, NEW y \in Chans
      PROVE  e.refs[v][y] = IF y = x THEN Names(q, v) ELSE d.refs[v][y]
    <2>1. e.refs[v][y] = d.refs[v][y] - One(v = w /\ y = x)
        BY <1>6, <1>8
    <2>2. d.refs[v][y] \in Nat
        BY <1>1 DEF DB
    <2>3. d.refs[v][x] = Names(r, v)
        BY SoundIs DEF r
    <2> QED
        BY <1>5, <2>1, <2>2, <2>3 DEF One
<1>10. Put(d, e, x, q)
    <2>1. Beside(d, e) /\ e.count = d.count /\ e.chan = [d.chan EXCEPT ![x] = q] /\ e \in DB
        BY <1>6, <1>8 DEF Beside
    <2>2. ListOK(d, q.access) /\ q \in ChanInfo /\ q.founder = d.chan[x].founder
        BY <1>2, <1>5 DEF r
    <2> QED
        BY <1>9, <2>1, <2>2, Rewritten
<1> QED
    BY <1>3, <1>10 DEF q, r, a, w

\* A channel's autokicks are replaced: by one more, or by one less.
LEMMA AddAkickIs ==
    ASSUME NEW d, Sound(d), NEW x \in Open(d), NEW c \in Cores, c \notin d.chan[x].akicks
    PROVE  Put(d, AddAkick(d, x, c), x, [d.chan[x] EXCEPT !.akicks = @ \cup {c}])
<1> DEFINE r == d.chan[x]
           K == r.akicks \cup {c}
           set == [d EXCEPT !.chan[x].akicks = K]
           e == Refer(set, c, x)
           q == [r EXCEPT !.akicks = K]
<1>1. d \in DB /\ x \in Chans /\ r \in ChanInfo /\ ListOK(d, r.access) /\ K \in SUBSET Cores /\ c \notin Chans
    BY SoundIs, InfoType, Apart
<1>2. AddAkick(d, x, c) = e
    BY DEF AddAkick
<1>3. /\ q \in ChanInfo /\ q.founder = r.founder /\ q.access = r.access
      /\ \A v : Names(q, v) = Names(r, v) + One(v = c)
    <2>1. \A v : Names(q, v) = Names(r, v) - One(v \in r.akicks) + One(v \in K)
        BY <1>1, NamesAkicks
    <2>2. q \in ChanInfo /\ q.founder = r.founder /\ q.access = r.access
        BY <1>1, NamesAkicks
    <2>3. \A v : Names(r, v) \in Nat
        BY <1>1, NamesType
    <2>4. c \notin r.akicks
        OBVIOUS
    <2> HIDE DEF q, r
    <2>5. ASSUME NEW v PROVE Names(q, v) = Names(r, v) + One(v = c)
        BY <2>1, <2>3, <2>4 DEF One
    <2> QED
        BY <2>2, <2>5
<1> HIDE DEF q
<1>4. /\ set \in DB /\ Beside(d, set) /\ set.chan = [d.chan EXCEPT ![x] = q]
      /\ set.count = d.count /\ set.refs = d.refs
    BY <1>1, <1>3 DEF DB, Beside, q
<1> HIDE DEF set
<1>5. /\ e \in DB /\ Beside(set, e) /\ e.chan = set.chan /\ e.count = set.count
      /\ \A v \in Cores \cup Chans, y \in Chans :
            e.refs[v][y] = set.refs[v][y] + One(v = c /\ y = x)
    BY <1>1, <1>4, ReferIs
<1> HIDE DEF e, r
<1>6. ASSUME NEW v \in Cores \cup Chans, NEW y \in Chans
      PROVE  e.refs[v][y] = IF y = x THEN Names(q, v) ELSE d.refs[v][y]
    <2>1. e.refs[v][y] = d.refs[v][y] + One(v = c /\ y = x)
        BY <1>4, <1>5
    <2>2. d.refs[v][y] \in Nat
        BY <1>1 DEF DB
    <2>3. d.refs[v][x] = Names(r, v)
        BY SoundIs DEF r
    <2> QED
        BY <1>3, <2>1, <2>2, <2>3 DEF One
<1>7. Put(d, e, x, q)
    <2>1. Beside(d, e) /\ e.count = d.count /\ e.chan = [d.chan EXCEPT ![x] = q] /\ e \in DB
        BY <1>4, <1>5 DEF Beside
    <2>2. ListOK(d, q.access) /\ q \in ChanInfo /\ q.founder = d.chan[x].founder
        BY <1>1, <1>3 DEF r
    <2> QED
        BY <1>6, <2>1, <2>2, Rewritten
<1> QED
    BY <1>2, <1>7 DEF q, r

\* An autokick that is erased.
LEMMA EraseAkickIs ==
    ASSUME NEW d, Sound(d), NEW x \in Open(d), NEW c \in d.chan[x].akicks
    PROVE  Put(d, EraseAkick(d, x, c), x, [d.chan[x] EXCEPT !.akicks = @ \ {c}])
<1> DEFINE r == d.chan[x]
           K == r.akicks \ {c}
           set == [d EXCEPT !.chan[x].akicks = K]
           e == Unrefer(set, c, x)
           q == [r EXCEPT !.akicks = K]
<1>1. /\ d \in DB /\ x \in Chans /\ r \in ChanInfo /\ ListOK(d, r.access) /\ K \in SUBSET Cores
      /\ c \in Cores /\ c \notin Chans /\ d.refs[c][x] > 0
    BY SoundIs, InfoType, Apart, Counted
<1>2. EraseAkick(d, x, c) = e
    BY DEF EraseAkick
<1>3. /\ q \in ChanInfo /\ q.founder = r.founder /\ q.access = r.access
      /\ \A v : Names(q, v) = Names(r, v) - One(v = c)
    <2>1. \A v : Names(q, v) = Names(r, v) - One(v \in r.akicks) + One(v \in K)
        <3> HIDE DEF K, r
        <3> QED
            BY <1>1, NamesAkicks
    <2>2. q \in ChanInfo /\ q.founder = r.founder /\ q.access = r.access
        BY <1>1, NamesAkicks
    <2>3. \A v : Names(r, v) \in Nat
        BY <1>1, NamesType
    <2>4. c \in r.akicks
        OBVIOUS
    <2> HIDE DEF q, r
    <2>5. ASSUME NEW v PROVE Names(q, v) = Names(r, v) - One(v = c)
        BY <2>1, <2>3, <2>4 DEF One
    <2> QED
        BY <2>2, <2>5
<1> HIDE DEF q
<1>4. /\ set \in DB /\ Beside(d, set) /\ set.chan = [d.chan EXCEPT ![x] = q]
      /\ set.count = d.count /\ set.refs = d.refs
    BY <1>1, <1>3 DEF DB, Beside, q
<1> HIDE DEF set
<1>5. /\ e \in DB /\ Beside(set, e) /\ e.chan = set.chan /\ e.count = set.count
      /\ \A v \in Cores \cup Chans, y \in Chans :
            e.refs[v][y] = set.refs[v][y] - One(v = c /\ y = x)
    BY <1>1, <1>4, UnreferIs
<1> HIDE DEF e, r
<1>6. ASSUME NEW v \in Cores \cup Chans, NEW y \in Chans
      PROVE  e.refs[v][y] = IF y = x THEN Names(q, v) ELSE d.refs[v][y]
    <2>1. e.refs[v][y] = d.refs[v][y] - One(v = c /\ y = x)
        BY <1>4, <1>5
    <2>2. d.refs[v][y] \in Nat
        BY <1>1 DEF DB
    <2>3. d.refs[v][x] = Names(r, v)
        BY SoundIs DEF r
    <2> QED
        BY <1>3, <2>1, <2>2, <2>3 DEF One
<1>7. Put(d, e, x, q)
    <2>1. Beside(d, e) /\ e.count = d.count /\ e.chan = [d.chan EXCEPT ![x] = q] /\ e \in DB
        BY <1>4, <1>5 DEF Beside
    <2>2. ListOK(d, q.access) /\ q \in ChanInfo /\ q.founder = d.chan[x].founder
        BY <1>1, <1>3 DEF r
    <2> QED
        BY <1>6, <2>1, <2>2, Rewritten
<1> QED
    BY <1>2, <1>7 DEF q, r

-----------------------------------------------------------------------------
(* Taking things away.                                                     *)

\* The record of a channel has nothing that it did not have.
Fewer(r, q) ==
    /\ q.founder = r.founder /\ q.successor = r.successor /\ q.akicks \subseteq r.akicks
    /\ \A i \in DOMAIN q.access : \E k \in DOMAIN r.access : q.access[i] = r.access[k]

\* Nor has any channel.
Less(d, e) ==
    /\ Sound(e) /\ Beside(d, e) /\ Open(e) \subseteq Open(d)
    /\ \A x \in Open(e) : Fewer(d.chan[x], e.chan[x])

\* A record has what it has.
LEMMA FewerSame == ASSUME NEW r PROVE Fewer(r, r)
BY DEF Fewer

\* Taking away twice is taking away.
LEMMA FewerAgain == ASSUME NEW q, NEW r, NEW s, Fewer(q, r), Fewer(r, s) PROVE Fewer(q, s)
BY DEF Fewer

\* The same for all channels.
LEMMA LessSame == ASSUME NEW d, Sound(d) PROVE Less(d, d)
BY FewerSame DEF Less, Beside

\* Taking away from channels twice is taking away.
LEMMA LessAgain == ASSUME NEW d, NEW e, NEW f, Less(d, e), Less(e, f) PROVE Less(d, f)
<1>1. Sound(f) /\ Open(f) \subseteq Open(d) /\ Beside(d, f)
    BY DEF Less, Beside
<1>2. ASSUME NEW x \in Open(f) PROVE Fewer(d.chan[x], f.chan[x])
    <2>1. Fewer(d.chan[x], e.chan[x]) /\ Fewer(e.chan[x], f.chan[x])
        BY DEF Less
    <2> QED
        BY <2>1, FewerAgain
<1> QED
    BY <1>1, <1>2 DEF Less

\* A record that has nothing new.
LEMMA PutLess ==
    ASSUME NEW d, Sound(d), NEW x \in Open(d), NEW r \in ChanInfo, NEW e, Put(d, e, x, r),
           Fewer(d.chan[x], r)
    PROVE  Less(d, e) /\ Open(e) = Open(d)
<1>1. /\ Sound(e) /\ Open(e) = Open(d) /\ Beside(d, e)
      /\ e.chan[x] = r /\ \A y \in Chans : y # x => e.chan[y] = d.chan[y]
    BY PutIs
<1>2. ASSUME NEW y \in Open(e) PROVE Fewer(d.chan[y], e.chan[y])
    <2>1. y \in Chans
        BY <1>1, SoundIs
    <2>2. CASE y = x
        BY <1>1, <2>2
    <2>3. CASE y # x
        BY <1>1, <2>1, <2>3, FewerSame
    <2> QED
        BY <2>2, <2>3
<1> QED
    BY <1>1, <1>2 DEF Less

\* What a list does not name it does not name when it is shorter.
LEMMA LessHits ==
    ASSUME NEW d, NEW e, Less(d, e), NEW x \in Open(e), NEW w, Hits(d.chan[x].access, w) = {}
    PROVE  Hits(e.chan[x].access, w) = {}
BY DEF Less, Fewer, Hits

\* The first entry for w goes, and a channel has no other.
LEMMA EraseFirstIs ==
    ASSUME NEW d, Sound(d), NEW x \in Open(d), NEW w
    PROVE  LET e == EraseFirst(d, x, w)
           IN  /\ Less(d, e) /\ Open(e) = Open(d)
               /\ w \in Chans => Hits(e.chan[x].access, w) = {}
<1> DEFINE a == d.chan[x].access
           i == Index(a, w)
           e == EraseFirst(d, x, w)
<1>1. d.chan[x] \in ChanInfo /\ a \in Seq(Entry) /\ ListOK(d, a) /\ DOMAIN a = 1..Len(a)
    BY SoundIs, InfoType
<1>2. e = IF i = 0 THEN d ELSE EraseEntry(d, x, i)
    BY DEF EraseFirst
<1>3. IF Hits(a, w) = {} THEN i = 0 ELSE i \in 1..Len(a) /\ a[i].who = w
    BY <1>1, IndexIs
<1>4. CASE Hits(a, w) = {}
    BY <1>2, <1>3, <1>4, LessSame
<1>5. CASE Hits(a, w) # {}
    <2> DEFINE b == RemoveAt(a, i)
               q == [d.chan[x] EXCEPT !.access = b]
    <2>1. i \in 1..Len(a) /\ a[i].who = w /\ e = EraseEntry(d, x, i)
        <3>1. Len(a) \in Nat
            BY <1>1
        <3> HIDE DEF e, i, a
        <3> QED
            BY <1>2, <1>3, <1>5, <3>1
    <2>2. Put(d, e, x, q)
        BY <2>1, EraseEntryIs
    <2>3. /\ b \in Seq(Entry)
          /\ \A j \in DOMAIN b : \E k \in DOMAIN a : k # i /\ b[j] = a[k]
        <3> HIDE DEF a, i
        <3> QED
            BY <1>1, <2>1, ListRemove
    <2> HIDE DEF b, e, i
    <2>4. /\ q \in ChanInfo /\ q.access = b /\ Fewer(d.chan[x], q)
        BY <1>1, <2>3 DEF ChanInfo, Fewer
    <2> HIDE DEF q
    <2>5. Less(d, e) /\ Open(e) = Open(d) /\ e.chan[x] = q
        BY <2>2, <2>4, PutLess, PutIs
    <2>6. w \in Chans => Hits(b, w) = {}
        <3>1. ASSUME w \in Chans, NEW j \in DOMAIN b, b[j].who = w PROVE FALSE
            <4>1. PICK k \in DOMAIN a : k # i /\ b[j] = a[k]
                BY <2>3, <3>1
            <4>2. k \in DOMAIN a /\ i \in DOMAIN a /\ a[k].who = w /\ a[i].who = w
                BY <1>1, <2>1, <3>1, <4>1
            <4> HIDE DEF a
            <4>3. k = i
                BY <1>1, <3>1, <4>2 DEF ListOK
            <4> QED
                BY <4>1, <4>3
        <3> QED
            BY <3>1 DEF Hits
    <2> QED
        BY <2>4, <2>5, <2>6 DEF e
<1> QED
    BY <1>4, <1>5

\* The autokick for c goes.
LEMMA EraseAkickLess ==
    ASSUME NEW d, Sound(d), NEW x \in Open(d), NEW c
    PROVE  LET e == EraseAkick(d, x, c)
           IN  Less(d, e) /\ Open(e) = Open(d) /\ c \notin e.chan[x].akicks
<1> DEFINE e == EraseAkick(d, x, c)
           r == d.chan[x]
           q == [r EXCEPT !.akicks = r.akicks \ {c}]
<1>1. CASE c \notin r.akicks
    BY <1>1, LessSame DEF EraseAkick
<1>2. CASE c \in r.akicks
    <2>1. Put(d, e, x, q)
        BY <1>2, EraseAkickIs
    <2>2. r \in ChanInfo /\ r.akicks \ {c} \in SUBSET Cores
        BY SoundIs, InfoType
    <2>3. q \in ChanInfo /\ q.akicks = r.akicks \ {c} /\ Fewer(r, q)
        BY <2>2 DEF ChanInfo, Fewer
    <2> HIDE DEF e, q
    <2> QED
        BY <2>1, <2>3, PutLess, PutIs DEF e
<1> QED
    BY <1>1, <1>2

\* A channel that goes leaves the access lists that name it.
LEMMA OnDelChanIs ==
    ASSUME NEW d, Sound(d), NEW x \in Open(d)
    PROVE  LET e == OnDelChan(d, x)
           IN  /\ Less(d, e) /\ Open(e) = Open(d)
               /\ \A y \in Open(d) : Hits(e.chan[y].access, x) = {}
<1> DEFINE S == {y \in Open(d) : d.refs[x][y] > 0}
           pick == [s \in SUBSET S |-> CHOOSE y \in s : TRUE]
           Fine(s, e) == /\ Less(d, e) /\ Open(e) = Open(d)
                         /\ \A y \in s : Hits(e.chan[y].access, x) = {}
           P == {p \in (SUBSET S) \X DB : Fine(p[1], p[2])}
           G == [p \in S \X DB |-> EraseFirst(p[2], p[1], x)]
           Loop(f) == f = [s \in SUBSET S |-> IF s = {} THEN d
                             ELSE EraseFirst(f[s \ {CHOOSE y \in s : TRUE}], (CHOOSE y \in s : TRUE), x)]
           I == CHOOSE f : Loop(f)
<1>1. IsFiniteSet(S) /\ Picks(S, pick)
    <2>1. S \subseteq Chans
        BY SoundIs
    <2>2. Picks(S, pick)
        BY DEF Picks
    <2> HIDE DEF S, pick
    <2> QED
        BY <2>1, <2>2, Limits, FS_Subset
<1>2. d \in DB /\ Fine({}, d)
    BY SoundIs, LessSame
<1>3. ASSUME NEW s \in SUBSET S, NEW v \in s, NEW e \in DB, Fine(s \ {v}, e)
      PROVE  EraseFirst(e, v, x) \in DB /\ Fine(s, EraseFirst(e, v, x))
    <2> DEFINE g == EraseFirst(e, v, x)
    <2>1. v \in Open(e) /\ Sound(e) /\ x \in Chans
        BY <1>3, SoundIs DEF Less
    <2>2. Less(e, g) /\ Open(g) = Open(e) /\ Hits(g.chan[v].access, x) = {}
        BY <2>1, EraseFirstIs
    <2> HIDE DEF g
    <2>3. Less(d, g) /\ g \in DB
        BY <1>3, <2>2, LessAgain, SoundIs DEF Less
    <2>4. ASSUME NEW y \in s PROVE Hits(g.chan[y].access, x) = {}
        <3>1. y \in Open(g)
            BY <1>3, <2>2
        <3> QED
            BY <1>3, <2>2, <2>4, <3>1, LessHits
    <2> QED
        BY <1>3, <2>2, <2>3, <2>4 DEF g
<1> HIDE DEF Fine
<1>4. \A s \in SUBSET S : \A v \in s : \A e \in DB : <<s \ {v}, e>> \in P
         => G[<<v, e>>] = EraseFirst(e, v, x) /\ <<s, EraseFirst(e, v, x)>> \in P
    BY <1>3
<1>5. P \in SUBSET ((SUBSET S) \X DB) /\ <<{}, d>> \in P
    BY <1>2
<1> HIDE DEF P, G
<1>6. Visits(S, DB, P, d, G)
    BY <1>4, <1>5 DEF Visits
<1> HIDE DEF S, pick
<1>7. PICK f : Visitor(f, S, pick, DB, P, d, G)
    BY <1>1, <1>6, AnyOrder
<1>8. ASSUME NEW s \in SUBSET S, s # {}, NEW e \in DB, <<s \ {pick[s]}, e>> \in P
      PROVE  /\ G[<<pick[s], e>>] = EraseFirst(e, pick[s], x)
             /\ <<s, EraseFirst(e, pick[s], x)>> \in P
    <2>1. pick[s] \in s
        BY <1>1, <1>8 DEF Picks
    <2> QED
        BY <1>4, <1>8, <2>1
<1>9. ASSUME NEW s \in SUBSET S, s # {}
      PROVE  f[s] = EraseFirst(f[s \ {pick[s]}], pick[s], x)
    <2> DEFINE e == f[s \ {pick[s]}]
    <2>1. s \ {pick[s]} \in SUBSET S
        OBVIOUS
    <2>2. e \in DB /\ <<s \ {pick[s]}, e>> \in P /\ f[s] = G[<<pick[s], e>>]
        BY <1>7, <1>9, <2>1 DEF Visitor
    <2> HIDE DEF e
    <2>3. f[s] = EraseFirst(e, pick[s], x)
        BY <1>8, <1>9, <2>2
    <2> QED
        BY <2>3 DEF e
<1>10. Loop(f)
    BY <1>7, <1>9 DEF Visitor, pick
<1>11. Loop(I)
    BY <1>10
<1> USE DEF S, pick
<1>12. OnDelChan(d, x) = I[S]
    BY DEF OnDelChan, FoldSet, MapThenFoldSet
<1> HIDE DEF I, S, pick
<1>13. /\ I[{}] = d
       /\ \A s \in SUBSET S : s # {} => I[s] = EraseFirst(I[s \ {pick[s]}], pick[s], x)
    BY <1>11 DEF pick
<1>14. ASSUME NEW s \in SUBSET S, s # {}, <<s \ {pick[s]}, I[s \ {pick[s]}]>> \in P
       PROVE  <<s, I[s]>> \in P
    <2> DEFINE e == I[s \ {pick[s]}]
    <2>1. e \in DB /\ <<s \ {pick[s]}, e>> \in P
        BY <1>5, <1>14
    <2> HIDE DEF e
    <2>2. <<s, EraseFirst(e, pick[s], x)>> \in P
        BY <1>8, <1>14, <2>1
    <2> QED
        BY <1>13, <1>14, <2>2 DEF e
<1>15. <<S, I[S]>> \in P
    BY <1>1, <1>5, <1>13, <1>14, AllVisited
<1>16. Fine(S, I[S])
    BY <1>15 DEF P
<1> QED
    <2>1. Fine(S, OnDelChan(d, x))
        BY <1>12, <1>16
    <2> DEFINE e == OnDelChan(d, x)
    <2>2. /\ Less(d, e) /\ Open(e) = Open(d)
          /\ \A y \in S : Hits(e.chan[y].access, x) = {}
        BY <2>1 DEF Fine
    <2> HIDE DEF e
    <2>3. ASSUME NEW y \in Open(d), y \notin S PROVE Hits(e.chan[y].access, x) = {}
        <3>1. d.chan[y] \in ChanInfo /\ d.refs[x][y] = Names(d.chan[y], x) /\ d.refs[x][y] \in Nat
            BY SoundIs DEF DB
        <3>2. Names(d.chan[y], x) = 0
            BY <2>3, <3>1 DEF S
        <3>3. Hits(d.chan[y].access, x) = {}
            BY <3>1, <3>2, NamesNone
        <3> QED
            BY <2>2, <3>3, LessHits
    <2> QED
        BY <2>2, <2>3 DEF e

\* A channel loses all its autokicks.
LEMMA ClearAkickIs ==
    ASSUME NEW d, Sound(d), NEW x \in Open(d)
    PROVE  LET e == ClearAkick(d, x)
           IN  Less(d, e) /\ Open(e) = Open(d) /\ e.chan[x].akicks = {}
<1> DEFINE S == d.chan[x].akicks
           pick == [s \in SUBSET S |-> CHOOSE y \in s : TRUE]
           Fine(s, e) == Less(d, e) /\ Open(e) = Open(d) /\ e.chan[x].akicks \cap s = {}
           P == {p \in (SUBSET S) \X DB : Fine(p[1], p[2])}
           G == [p \in S \X DB |-> EraseAkick(p[2], x, p[1])]
           Loop(f) == f = [s \in SUBSET S |-> IF s = {} THEN d
                             ELSE EraseAkick(f[s \ {CHOOSE y \in s : TRUE}], x, (CHOOSE y \in s : TRUE))]
           I == CHOOSE f : Loop(f)
<1>1. IsFiniteSet(S) /\ Picks(S, pick)
    <2>1. IsFiniteSet(S)
        BY SoundIs, InfoType
    <2>2. Picks(S, pick)
        BY DEF Picks
    <2> HIDE DEF S, pick
    <2> QED
        BY <2>1, <2>2
<1>2. d \in DB /\ Fine({}, d)
    BY SoundIs, LessSame
<1>3. ASSUME NEW s \in SUBSET S, NEW v \in s, NEW e \in DB, Fine(s \ {v}, e)
      PROVE  EraseAkick(e, x, v) \in DB /\ Fine(s, EraseAkick(e, x, v))
    <2> DEFINE g == EraseAkick(e, x, v)
    <2>1. x \in Open(e) /\ Sound(e)
        BY <1>3 DEF Less
    <2>2. Less(e, g) /\ Open(g) = Open(e) /\ v \notin g.chan[x].akicks
        BY <2>1, EraseAkickLess
    <2> HIDE DEF g
    <2>3. Less(d, g) /\ g \in DB
        BY <1>3, <2>2, LessAgain, SoundIs DEF Less
    <2>4. g.chan[x].akicks \subseteq e.chan[x].akicks
        BY <2>1, <2>2 DEF Less, Fewer
    <2> QED
        BY <1>3, <2>2, <2>3, <2>4 DEF g
<1> HIDE DEF Fine
<1>4. \A s \in SUBSET S : \A v \in s : \A e \in DB : <<s \ {v}, e>> \in P
         => G[<<v, e>>] = EraseAkick(e, x, v) /\ <<s, EraseAkick(e, x, v)>> \in P
    BY <1>3
<1>5. P \in SUBSET ((SUBSET S) \X DB) /\ <<{}, d>> \in P
    BY <1>2
<1> HIDE DEF P, G
<1>6. Visits(S, DB, P, d, G)
    BY <1>4, <1>5 DEF Visits
<1> HIDE DEF S, pick
<1>7. PICK f : Visitor(f, S, pick, DB, P, d, G)
    BY <1>1, <1>6, AnyOrder
<1>8. ASSUME NEW s \in SUBSET S, s # {}, NEW e \in DB, <<s \ {pick[s]}, e>> \in P
      PROVE  /\ G[<<pick[s], e>>] = EraseAkick(e, x, pick[s])
             /\ <<s, EraseAkick(e, x, pick[s])>> \in P
    <2>1. pick[s] \in s
        BY <1>1, <1>8 DEF Picks
    <2> QED
        BY <1>4, <1>8, <2>1
<1>9. ASSUME NEW s \in SUBSET S, s # {}
      PROVE  f[s] = EraseAkick(f[s \ {pick[s]}], x, pick[s])
    <2> DEFINE e == f[s \ {pick[s]}]
    <2>1. s \ {pick[s]} \in SUBSET S
        OBVIOUS
    <2>2. e \in DB /\ <<s \ {pick[s]}, e>> \in P /\ f[s] = G[<<pick[s], e>>]
        BY <1>7, <1>9, <2>1 DEF Visitor
    <2> HIDE DEF e
    <2>3. f[s] = EraseAkick(e, x, pick[s])
        BY <1>8, <1>9, <2>2
    <2> QED
        BY <2>3 DEF e
<1>10. Loop(f)
    BY <1>7, <1>9 DEF Visitor, pick
<1>11. Loop(I)
    BY <1>10
<1> USE DEF S, pick
<1>12. ClearAkick(d, x) = I[S]
    BY DEF ClearAkick, FoldSet, MapThenFoldSet
<1> HIDE DEF I, S, pick
<1>13. /\ I[{}] = d
       /\ \A s \in SUBSET S : s # {} => I[s] = EraseAkick(I[s \ {pick[s]}], x, pick[s])
    BY <1>11 DEF pick
<1>14. ASSUME NEW s \in SUBSET S, s # {}, <<s \ {pick[s]}, I[s \ {pick[s]}]>> \in P
       PROVE  <<s, I[s]>> \in P
    <2> DEFINE e == I[s \ {pick[s]}]
    <2>1. e \in DB /\ <<s \ {pick[s]}, e>> \in P
        BY <1>5, <1>14
    <2> HIDE DEF e
    <2>2. <<s, EraseAkick(e, x, pick[s])>> \in P
        BY <1>8, <1>14, <2>1
    <2> QED
        BY <1>13, <1>14, <2>2 DEF e
<1>15. <<S, I[S]>> \in P
    BY <1>1, <1>5, <1>13, <1>14, AllVisited
<1>16. Fine(S, I[S])
    BY <1>15 DEF P
<1> QED
    <2> DEFINE e == ClearAkick(d, x)
    <2>1. Less(d, e) /\ Open(e) = Open(d) /\ e.chan[x].akicks \cap S = {}
        BY <1>12, <1>16 DEF Fine, S
    <2> HIDE DEF e
    <2>2. e.chan[x].akicks \subseteq S
        BY <2>1 DEF Less, Fewer, S
    <2> QED
        BY <2>1, <2>2 DEF e

\* A channel loses its access list, entry by entry.
LEMMA ClearAccessIs ==
    ASSUME NEW d, Sound(d), NEW x \in Open(d)
    PROVE  LET e == ClearAccess(d, x)
           IN  Less(d, e) /\ Open(e) = Open(d) /\ e.chan[x].access = << >>
<1> DEFINE S == 1..Len(d.chan[x].access)
           z == d.chan[x].access
           pick == [s \in SUBSET S |-> Max(s)]
           Fine(s, e) == /\ Less(d, e) /\ Open(e) = Open(d)
                         /\ Len(e.chan[x].access) + Cardinality(s) = Len(d.chan[x].access)
           P == {p \in (SUBSET S) \X DB : Fine(p[1], p[2])}
           G == [p \in S \X DB |-> EraseEntry(p[2], x, 1)]
           Loop(f) == f = [s \in SUBSET S |-> IF s = {} THEN d
                             ELSE EraseEntry(f[s \ {Max(s)}], x, 1)]
           I == CHOOSE f : Loop(f)
<1>0. /\ Len(d.chan[x].access) \in Nat /\ Cardinality(S) = Len(d.chan[x].access) /\ IsFiniteSet(S)
      /\ DOMAIN d.chan[x].access = S /\ \A s \in SUBSET S : s # {} => pick[s] \in s
    <2>1. Len(d.chan[x].access) \in Nat /\ DOMAIN d.chan[x].access = S
        BY SoundIs, InfoType
    <2> DEFINE n == Len(d.chan[x].access)
    <2> HIDE DEF n
    <2>2. Cardinality(1..n) = n /\ IsFiniteSet(1..n)
        BY <2>1, FS_Interval DEF n
    <2>3. \A s \in SUBSET (1..n) : s # {} => Max(s) \in s
        BY <2>1, MaxOf DEF n
    <2> QED
        BY <2>1, <2>2, <2>3 DEF n
<1>1. IsFiniteSet(S) /\ Picks(S, pick)
    BY <1>0 DEF Picks
<1>2. d \in DB /\ Fine({}, d)
    <2>1. Len(d.chan[x].access) + Cardinality({}) = Len(d.chan[x].access)
        BY <1>0, FS_EmptySet
    <2> QED
        BY <2>1, SoundIs, LessSame
<1>3. ASSUME NEW s \in SUBSET S, NEW v \in s, NEW e \in DB, Fine(s \ {v}, e)
      PROVE  EraseEntry(e, x, 1) \in DB /\ Fine(s, EraseEntry(e, x, 1))
    <2> DEFINE g == EraseEntry(e, x, 1)
               a == e.chan[x].access
               b == RemoveAt(a, 1)
               q == [e.chan[x] EXCEPT !.access = b]
    <2>1. x \in Open(e) /\ Sound(e) /\ e.chan[x] \in ChanInfo /\ a \in Seq(Entry) /\ ListOK(e, a)
        BY <1>3, SoundIs, InfoType DEF Less
    <2>2. Len(a) \in Nat /\ 1 \in 1..Len(a)
        <3>1. Cardinality(s \ {v}) = Cardinality(s) - 1 /\ Cardinality(s) \in Nat /\ Cardinality(s) <= Cardinality(S)
            <4> HIDE DEF S
            <4>1. IsFiniteSet(s) /\ Cardinality(s) \in Nat /\ Cardinality(s) <= Cardinality(S)
                BY <1>0, <1>3, FS_Subset, FS_CardinalityType
            <4>2. Cardinality(s \ {v}) = Cardinality(s) - 1
                BY <1>3, <4>1, FS_RemoveElement
            <4> QED
                BY <4>1, <4>2
        <3>2. Len(a) \in Nat /\ Len(a) + Cardinality(s \ {v}) = Len(d.chan[x].access)
            BY <1>3, <2>1
        <3> HIDE DEF S, a
        <3>3. Len(a) >= 1
            BY <1>0, <3>1, <3>2
        <3> QED
            BY <3>2, <3>3
    <2>3. Put(e, g, x, q)
        BY <2>1, <2>2, EraseEntryIs
    <2>4. /\ b \in Seq(Entry) /\ Len(b) = Len(a) - 1
          /\ \A j \in DOMAIN b : \E k \in DOMAIN a : b[j] = a[k]
        <3> HIDE DEF a
        <3> QED
            BY <2>1, <2>2, ListRemove
    <2> HIDE DEF g, b
    <2>5. q \in ChanInfo /\ q.access = b /\ Fewer(e.chan[x], q)
        BY <2>1, <2>4 DEF ChanInfo, Fewer
    <2> HIDE DEF q
    <2>6. Less(e, g) /\ Open(g) = Open(e) /\ g.chan[x] = q
        BY <2>1, <2>3, <2>5, PutLess, PutIs
    <2>7. Less(d, g) /\ g \in DB
        BY <1>3, <2>6, LessAgain, SoundIs DEF Less
    <2>8. Len(g.chan[x].access) + Cardinality(s) = Len(d.chan[x].access)
        <3>1. Cardinality(s \ {v}) = Cardinality(s) - 1 /\ Cardinality(s) \in Nat
            <4> HIDE DEF S
            <4>1. IsFiniteSet(s) /\ Cardinality(s) \in Nat
                BY <1>0, <1>3, FS_Subset, FS_CardinalityType
            <4>2. Cardinality(s \ {v}) = Cardinality(s) - 1
                BY <1>3, <4>1, FS_RemoveElement
            <4> QED
                BY <4>1, <4>2
        <3>2. Len(g.chan[x].access) = Len(a) - 1
            BY <2>4, <2>5, <2>6
        <3>3. Len(a) + Cardinality(s \ {v}) = Len(d.chan[x].access)
            BY <1>3
        <3> HIDE DEF a
        <3> QED
            BY <1>0, <2>2, <3>1, <3>2, <3>3
    <2> QED
        BY <1>3, <2>6, <2>7, <2>8 DEF g
<1> HIDE DEF Fine
<1>4. \A s \in SUBSET S : \A v \in s : \A e \in DB : <<s \ {v}, e>> \in P
         => G[<<v, e>>] = EraseEntry(e, x, 1) /\ <<s, EraseEntry(e, x, 1)>> \in P
    BY <1>3
<1>5. P \in SUBSET ((SUBSET S) \X DB) /\ <<{}, d>> \in P
    BY <1>2
<1> HIDE DEF P, G
<1>6. Visits(S, DB, P, d, G)
    BY <1>4, <1>5 DEF Visits
<1> HIDE DEF S, z, pick
<1>7. PICK f : Visitor(f, S, pick, DB, P, d, G)
    BY <1>1, <1>6, AnyOrder
<1>8. ASSUME NEW s \in SUBSET S, s # {}, NEW e \in DB, <<s \ {pick[s]}, e>> \in P
      PROVE  /\ G[<<pick[s], e>>] = EraseEntry(e, x, 1)
             /\ <<s, EraseEntry(e, x, 1)>> \in P
    <2>1. pick[s] \in s
        BY <1>1, <1>8 DEF Picks
    <2> QED
        BY <1>4, <1>8, <2>1
<1>9. ASSUME NEW s \in SUBSET S, s # {}
      PROVE  f[s] = EraseEntry(f[s \ {pick[s]}], x, 1)
    <2> DEFINE e == f[s \ {pick[s]}]
    <2>1. s \ {pick[s]} \in SUBSET S
        OBVIOUS
    <2>2. e \in DB /\ <<s \ {pick[s]}, e>> \in P /\ f[s] = G[<<pick[s], e>>]
        BY <1>7, <1>9, <2>1 DEF Visitor
    <2> HIDE DEF e
    <2>3. f[s] = EraseEntry(e, x, 1)
        BY <1>8, <1>9, <2>2
    <2> QED
        BY <2>3 DEF e
<1>10. Loop(f)
    BY <1>7, <1>9 DEF Visitor, pick
<1>11. Loop(I)
    BY <1>10
<1> USE DEF S, z, pick
<1>12. ClearAccess(d, x) = I[S]
    BY <1>0 DEF ClearAccess, FoldLeft, MapThenFoldSet
<1> HIDE DEF I, S, z, pick
<1>13. /\ I[{}] = d
       /\ \A s \in SUBSET S : s # {} => I[s] = EraseEntry(I[s \ {pick[s]}], x, 1)
    BY <1>11 DEF pick
<1>14. ASSUME NEW s \in SUBSET S, s # {}, <<s \ {pick[s]}, I[s \ {pick[s]}]>> \in P
       PROVE  <<s, I[s]>> \in P
    <2> DEFINE e == I[s \ {pick[s]}]
    <2>1. e \in DB /\ <<s \ {pick[s]}, e>> \in P
        BY <1>5, <1>14
    <2> HIDE DEF e
    <2>2. <<s, EraseEntry(e, x, 1)>> \in P
        BY <1>8, <1>14, <2>1
    <2> QED
        BY <1>13, <1>14, <2>2 DEF e
<1>15. <<S, I[S]>> \in P
    BY <1>1, <1>5, <1>13, <1>14, AllVisited
<1>16. Fine(S, I[S])
    BY <1>15 DEF P
<1> QED
    <2> DEFINE e == ClearAccess(d, x)
    <2>1. Less(d, e) /\ Open(e) = Open(d) /\ Len(e.chan[x].access) + Cardinality(S) = Len(d.chan[x].access)
        BY <1>12, <1>16 DEF Fine
    <2> HIDE DEF e
    <2>2. e.chan[x].access \in Seq(Entry)
        BY <2>1, SoundIs, InfoType DEF Less
    <2>3. Len(e.chan[x].access) \in Nat
        BY <2>2
    <2>4. Len(e.chan[x].access) = 0
        BY <1>0, <2>1, <2>3 DEF S
    <2>5. e.chan[x].access = << >>
        BY <2>2, <2>4
    <2> QED
        BY <2>1, <2>5 DEF e

\* A channel goes, and no other has anything that it did not have.
LEMMA DelChanIs ==
    ASSUME NEW d, Sound(d), NEW x \in Open(d)
    PROVE  Less(d, DelChan(d, x)) /\ Open(DelChan(d, x)) = Open(d) \ {x}
<1> DEFINE d1 == OnDelChan(d, x)
           told == ClearAkick(d1, x)
           d3 == SetFounder(told, x, NULL)
           d4 == SetSuccessor(d3, x, NULL)
           freed == ClearAccess(d4, x)
           none == [y \in Chans |-> 0]
           R == [freed.refs EXCEPT ![x] = none]
           C == [freed.chan EXCEPT ![x] = NULL]
           e == [freed EXCEPT !.chan = C, !.refs = R]
<1>1. DelChan(d, x) = e
    BY DEF DelChan
<1>2. Less(d, d1) /\ Sound(d1) /\ Open(d1) = Open(d) /\ \A y \in Open(d) : Hits(d1.chan[y].access, x) = {}
    BY OnDelChanIs DEF Less
<1> HIDE DEF d1
<1>3. Less(d1, told) /\ Sound(told) /\ Open(told) = Open(d) /\ told.chan[x].akicks = {}
    BY <1>2, ClearAkickIs DEF Less
<1> HIDE DEF told
<1>4. Less(d, told) /\ \A y \in Open(d) : Hits(told.chan[y].access, x) = {}
    BY <1>2, <1>3, LessAgain, LessHits
<1> DEFINE q3 == [told.chan[x] EXCEPT !.founder = NULL]
           q4 == [d3.chan[x] EXCEPT !.successor = NULL]
<1>5. /\ Sound(d3) /\ Open(d3) = Open(d) /\ Beside(told, d3) /\ d3.chan[x] = q3
      /\ \A y \in Chans : y # x => d3.chan[y] = told.chan[y]
      /\ q3 \in ChanInfo /\ q3.founder = NULL /\ q3.akicks = {} /\ q3.access = told.chan[x].access
    <2>1. told.chan[x] \in ChanInfo /\ x \in Open(told)
        BY <1>3, SoundIs
    <2>2. q3 \in ChanInfo /\ q3.founder = NULL /\ q3.akicks = {} /\ q3.access = told.chan[x].access
        BY <1>3, <2>1 DEF ChanInfo
    <2>3. NULL \notin Cores
        BY Apart
    <2>4. Put(told, d3, x, q3)
        BY <1>3, <2>1, <2>3, SetFounderIs
    <2> HIDE DEF d3, q3
    <2> QED
        BY <1>3, <2>1, <2>2, <2>4, PutIs
<1> HIDE DEF d3, q3
<1>6. /\ Sound(d4) /\ Open(d4) = Open(d) /\ Beside(told, d4) /\ d4.chan[x] = q4
      /\ \A y \in Chans : y # x => d4.chan[y] = told.chan[y]
      /\ q4 \in ChanInfo /\ q4.founder = NULL /\ q4.successor = NULL /\ q4.akicks = {}
      /\ q4.access = told.chan[x].access
    <2>1. q4 \in ChanInfo /\ q4.founder = NULL /\ q4.successor = NULL /\ q4.akicks = {} /\ q4.access = told.chan[x].access
        BY <1>5 DEF ChanInfo
    <2>2. Put(d3, d4, x, q4)
        BY <1>5, SetSuccessorIs
    <2> HIDE DEF d4, q4
    <2>3. Sound(d4) /\ Open(d4) = Open(d3) /\ Beside(d3, d4) /\ d4.chan[x] = q4
          /\ \A y \in Chans : y # x => d4.chan[y] = d3.chan[y]
        BY <1>5, <2>1, <2>2, PutIs
    <2> QED
        BY <1>5, <2>1, <2>3 DEF Beside
<1> HIDE DEF d4, q4
<1>7. Less(d4, freed) /\ Sound(freed) /\ Open(freed) = Open(d) /\ freed.chan[x].access = << >>
    BY <1>6, ClearAccessIs DEF Less
<1> HIDE DEF freed
<1>8. /\ freed \in DB /\ Beside(d, freed) /\ x \in Chans /\ Open(d) \subseteq Chans
      /\ \A y \in Open(d) : y # x => /\ Fewer(told.chan[y], freed.chan[y])
                                     /\ Fewer(d.chan[y], freed.chan[y])
                                     /\ Hits(freed.chan[y].access, x) = {}
    <2>1. freed \in DB /\ Beside(d, freed) /\ x \in Chans /\ Open(d) \subseteq Chans
        BY <1>4, <1>6, <1>7, SoundIs DEF Less, Beside
    <2>2. ASSUME NEW y \in Open(d), y # x
          PROVE  /\ Fewer(told.chan[y], freed.chan[y]) /\ Fewer(d.chan[y], freed.chan[y])
                 /\ Hits(freed.chan[y].access, x) = {}
        <3>1. Fewer(told.chan[y], freed.chan[y]) /\ Fewer(d.chan[y], told.chan[y])
            BY <1>3, <1>4, <1>6, <1>7, <2>1, <2>2 DEF Less
        <3>2. Hits(told.chan[y].access, x) = {}
            BY <1>4
        <3> QED
            BY <3>1, <3>2, FewerAgain DEF Fewer, Hits
    <2> QED
        BY <2>1, <2>2
<1>9. e \in DB /\ e.refs = R /\ e.chan = C /\ e.count = freed.count /\ Beside(d, e)
    <2>1. R \in [Cores \cup Chans -> [Chans -> Nat]] /\ C \in [Chans -> ChanInfo \cup {NULL}]
        BY <1>8 DEF DB
    <2> HIDE DEF R, C
    <2> QED
        BY <1>8, <2>1 DEF DB, Beside
<1>10. /\ e.chan[x] = NULL /\ \A y \in Chans : y # x => e.chan[y] = freed.chan[y]
       /\ \A w \in Cores \cup Chans : e.refs[w] = IF w = x THEN none ELSE freed.refs[w]
    BY <1>8, <1>9 DEF DB
<1> HIDE DEF e, C, R
<1>11. Open(e) = Open(d) \ {x}
    BY <1>7, <1>10 DEF Open
<1>12. ASSUME NEW w \in Cores \cup Chans, NEW y \in Chans PROVE e.refs[w][y] = Uses(e, w, y)
    <2>1. CASE y = x
        <3>1. Uses(e, w, y) = 0
            BY <1>11, <2>1 DEF Uses
        <3>2. freed.chan[x] \in ChanInfo /\ freed.refs[w][x] = Names(freed.chan[x], w) /\ w # NULL
            BY <1>7, SoundIs, Apart
        <3>3. Names(freed.chan[x], w) = 0
            <4>1. /\ freed.chan[x].founder = NULL /\ freed.chan[x].successor = NULL
                  /\ freed.chan[x].akicks = {} /\ freed.chan[x].access = << >>
                BY <1>6, <1>7 DEF Less, Fewer
            <4>2. Hits(<< >>, w) = {}
                BY DEF Hits
            <4>3. Cardinality(Hits(freed.chan[x].access, w)) = 0
                BY <4>1, <4>2, FS_EmptySet
            <4>4. One(NULL = w) = 0 /\ One(w \in {}) = 0
                BY <3>2 DEF One
            <4> QED
                BY <4>1, <4>3, <4>4 DEF Names
        <3> QED
            BY <1>10, <2>1, <3>1, <3>2, <3>3
    <2>2. CASE y # x /\ w # x
        BY <1>7, <1>10, <1>11, <2>2 DEF Sound, Uses
    <2>3. CASE y # x /\ w = x
        <3>1. e.refs[w][y] = 0
            BY <1>10, <2>3
        <3>2. CASE y \notin Open(e)
            BY <3>1, <3>2 DEF Uses
        <3>3. CASE y \in Open(e)
            <4> DEFINE r == freed.chan[y]
            <4>1. y \in Open(d) /\ e.chan[y] = r /\ r \in ChanInfo /\ Hits(r.access, x) = {}
                BY <1>7, <1>8, <1>10, <1>11, <2>3, <3>3, SoundIs
            <4>2. r.founder # x /\ r.successor # x /\ x \notin r.akicks
                <5>1. x \notin Cores /\ x # NULL
                    BY <1>8, Apart
                <5> HIDE DEF r
                <5> QED
                    BY <4>1, <5>1, InfoType
            <4> HIDE DEF r
            <4>3. Names(r, x) = 0
                BY <4>1, <4>2, FS_EmptySet DEF Names, One
            <4> QED
                BY <2>3, <3>1, <3>3, <4>1, <4>3 DEF Uses
        <3> QED
            BY <3>2, <3>3
    <2> QED
        BY <2>1, <2>2, <2>3
<1>13. ASSUME NEW c \in Cores PROVE e.count[c] = Cardinality(Founded(e, c)) /\ e.count[c] <= MaxReg
    <2>1. freed.chan[x].founder = NULL /\ c # NULL
        BY <1>6, <1>7, Apart DEF Less, Fewer
    <2>2. Founded(e, c) = Founded(freed, c)
        BY <1>7, <1>8, <1>10, <1>11, <2>1 DEF Founded
    <2> QED
        BY <1>7, <1>9, <2>2, SoundIs
<1>14. ASSUME NEW y \in Open(e) PROVE ListOK(e, e.chan[y].access)
    <2>1. /\ y \in Open(d) /\ y # x /\ e.chan[y] = freed.chan[y] /\ Hits(freed.chan[y].access, x) = {}
          /\ ListOK(freed, freed.chan[y].access)
        BY <1>7, <1>8, <1>10, <1>11, SoundIs
    <2> QED
        BY <1>7, <1>11, <2>1 DEF ListOK, Hits
<1>15. Sound(e)
    BY <1>9, <1>12, <1>13, <1>14 DEF Sound, ListOK
<1>16. ASSUME NEW y \in Open(e) PROVE Fewer(d.chan[y], e.chan[y])
    BY <1>8, <1>10, <1>11
<1> QED
    BY <1>1, <1>9, <1>11, <1>15, <1>16 DEF Less

-----------------------------------------------------------------------------
(* An account goes.                                                        *)

\* Who inherits a channel has room for it: its successor if it has, or else an
\* account on its access list.
LEMMA NewOwnerIs ==
    ASSUME NEW d, Sound(d), NEW x \in Open(d), NEW c \in Cores
    PROVE  LET h == NewOwner(d, x, c)
               s == d.chan[x].successor
               a == d.chan[x].access
           IN  /\ h = NULL \/ ( /\ h \in Cores /\ h # c /\ Below(d, h)
                                /\ h = s \/ \E i \in DOMAIN a : a[i].who = h )
               /\ s \notin {NULL, c} /\ Below(d, s) => h = s
<1> DEFINE h == NewOwner(d, x, c)
           s == d.chan[x].successor
           a == d.chan[x].access
           H == Heirs(d, x, c)
<1>1. a \in Seq(Entry) /\ DOMAIN a = 1..Len(a) /\ s \in Cores \cup {NULL}
    BY SoundIs, InfoType
<1>2. ASSUME NEW g \in H
      PROVE  g \in Cores /\ g # c /\ Below(d, g) /\ \E i \in DOMAIN a : a[i].who = g
    BY <1>1 DEF Heirs
<1>3. H # {} => (CHOOSE g \in H : TRUE) \in H
    OBVIOUS
<1>4. h = IF s \notin {NULL, c} /\ Below(d, s) THEN s
          ELSE IF H # {} THEN CHOOSE g \in H : TRUE ELSE NULL
    BY DEF NewOwner
<1> HIDE DEF h, H
<1>5. CASE s \notin {NULL, c} /\ Below(d, s)
    BY <1>1, <1>4, <1>5 DEF h
<1>6. CASE ~(s \notin {NULL, c} /\ Below(d, s)) /\ H # {}
    <2>1. h \in H
        BY <1>3, <1>4, <1>6
    <2> QED
        BY <1>2, <1>6, <2>1 DEF h
<1>7. CASE ~(s \notin {NULL, c} /\ Below(d, s)) /\ H = {}
    BY <1>4, <1>7 DEF h
<1> QED
    BY <1>5, <1>6, <1>7

\* What a channel is handed on with: no more than it had, and not to c.
Passed(d, r, q, c, h) ==
    /\ q.founder = IF r.founder = c THEN h ELSE r.founder
    /\ q.successor \in {r.successor, NULL} /\ q.successor # c
    /\ q.akicks \subseteq r.akicks
    /\ \A i \in DOMAIN q.access : \E k \in DOMAIN r.access : q.access[i] = r.access[k]

\* e is d when the channel x has been handed on, or is gone for want of an heir.
Handed(d, e, x, c) ==
    /\ Sound(e) /\ Beside(d, e) /\ Open(e) \subseteq Open(d) /\ Open(d) \ {x} \subseteq Open(e)
    /\ \A y \in Open(e) : y # x => Fewer(d.chan[y], e.chan[y])
    /\ IF x \in Open(e)
       THEN Passed(d, d.chan[x], e.chan[x], c, NewOwner(d, x, c))
            /\ (d.chan[x].founder = c => NewOwner(d, x, c) # NULL)
       ELSE d.chan[x].founder = c /\ NewOwner(d, x, c) = NULL

\* Another channel's record is not touched.
LEMMA PutRest ==
    ASSUME NEW d, Sound(d), NEW x \in Open(d), NEW r \in ChanInfo, NEW e, Put(d, e, x, r)
    PROVE  \A y \in Open(e) : y # x => Fewer(d.chan[y], e.chan[y])
<1>1. Open(e) = Open(d) /\ Open(d) \subseteq Chans /\ \A y \in Chans : y # x => e.chan[y] = d.chan[y]
    BY PutIs, SoundIs
<1> QED
    BY <1>1, FewerSame

\* An account that goes hands the channel on.
LEMMA OnDelCoreChanIs ==
    ASSUME NEW d, Sound(d), NEW x \in Open(d), NEW c \in Cores
    PROVE  Handed(d, OnDelCoreChan(d, x, c), x, c)
<1> DEFINE r == d.chan[x]
           h == NewOwner(d, x, c)
           owned == r.founder = c
           d1 == SetFounder(d, x, h)
           d2 == SetSuccessor(d1, x, NULL)
           given == IF owned THEN d2 ELSE d
           d3 == SetSuccessor(given, x, NULL)
           unset == IF given.chan[x].successor = c THEN d3 ELSE given
           e == EraseFirst(unset, x, c)
           f == OnDelCoreChan(d, x, c)
<1>1. f = IF owned /\ h = NULL THEN DelChan(d, x) ELSE e
    BY DEF OnDelCoreChan
<1>2. r \in ChanInfo /\ c # NULL /\ x \in Chans /\ d \in DB /\ NULL \notin Cores
    BY SoundIs, Apart
<1>3. h = NULL \/ (h \in Cores /\ h # c /\ Below(d, h))
    BY NewOwnerIs
<1> HIDE DEF h
<1>4. CASE owned /\ h = NULL
    <2> DEFINE g == DelChan(d, x)
    <2>1. Less(d, g) /\ Open(g) = Open(d) \ {x} /\ f = g
        BY <1>1, <1>4, DelChanIs
    <2> HIDE DEF g, f
    <2> QED
        BY <1>4, <2>1 DEF Handed, Less, h, f
<1>5. CASE ~(owned /\ h = NULL)
    \* The founder and the successor.
    <2>1. /\ Sound(unset) /\ Beside(d, unset) /\ Open(unset) = Open(d)
          /\ \A y \in Chans : y # x => unset.chan[y] = d.chan[y]
          /\ unset.chan[x] \in ChanInfo
          /\ Passed(d, r, unset.chan[x], c, h)
        <3>1. CASE owned
            <4> DEFINE q1 == [r EXCEPT !.founder = h]
                       q2 == [d1.chan[x] EXCEPT !.successor = NULL]
            <4>1. Put(d, d1, x, q1)
                BY <1>3, <1>5, <3>1, SetFounderIs
            <4>2. q1 \in ChanInfo /\ q1.founder = h /\ q1.akicks = r.akicks /\ q1.access = r.access
                BY <1>2, <1>3 DEF ChanInfo
            <4> HIDE DEF q1, d1
            <4>3. /\ Sound(d1) /\ Open(d1) = Open(d) /\ Beside(d, d1) /\ d1.chan[x] = q1
                  /\ \A y \in Chans : y # x => d1.chan[y] = d.chan[y]
                BY <4>1, <4>2, PutIs
            <4>4. Put(d1, d2, x, q2)
                BY <4>3, SetSuccessorIs
            <4>5. /\ q2 \in ChanInfo /\ q2.founder = h /\ q2.successor = NULL
                  /\ q2.akicks = r.akicks /\ q2.access = r.access
                BY <4>2, <4>3 DEF ChanInfo
            <4> HIDE DEF q2, d2
            <4>6. /\ Sound(d2) /\ Open(d2) = Open(d) /\ Beside(d1, d2) /\ d2.chan[x] = q2
                  /\ \A y \in Chans : y # x => d2.chan[y] = d.chan[y]
                BY <4>3, <4>4, <4>5, PutIs
            <4>7. unset = d2
                BY <1>2, <3>1, <4>5, <4>6
            <4> HIDE DEF unset
            <4>8. Passed(d, r, q2, c, h)
                BY <1>2, <3>1, <4>5 DEF Passed
            <4> QED
                BY <4>3, <4>5, <4>6, <4>7, <4>8 DEF Beside
        <3>2. CASE ~owned /\ r.successor = c
            <4> DEFINE q == [r EXCEPT !.successor = NULL]
            <4>1. unset = SetSuccessor(d, x, NULL)
                BY <3>2
            <4>2. Put(d, unset, x, q)
                BY <4>1, SetSuccessorIs
            <4>3. /\ q \in ChanInfo /\ q.founder = r.founder /\ q.successor = NULL
                  /\ q.akicks = r.akicks /\ q.access = r.access
                BY <1>2 DEF ChanInfo
            <4> HIDE DEF unset, q
            <4>4. Passed(d, r, q, c, h)
                BY <1>2, <3>2, <4>3 DEF Passed
            <4> QED
                BY <4>2, <4>3, <4>4, PutIs
        <3>3. CASE ~owned /\ r.successor # c
            <4>1. unset = d
                BY <3>3
            <4> HIDE DEF unset
            <4> QED
                BY <1>2, <3>3, <4>1 DEF Passed, Beside
        <3> QED
            BY <3>1, <3>2, <3>3
    <2> HIDE DEF unset
    <2>2. Less(unset, e) /\ Open(e) = Open(d)
        BY <2>1, EraseFirstIs
    <2>3. f = e
        BY <1>1, <1>5
    <2> HIDE DEF e, f
    <2>4. Beside(d, e) /\ Sound(e)
        BY <2>1, <2>2 DEF Less, Beside
    <2>5. Passed(d, r, e.chan[x], c, h)
        <3>1. Fewer(unset.chan[x], e.chan[x])
            BY <2>2 DEF Less
        <3> HIDE DEF r
        <3> QED
            BY <2>1, <3>1 DEF Passed, Fewer
    <2>6. ASSUME NEW y \in Open(e), y # x PROVE Fewer(d.chan[y], e.chan[y])
        <3>1. y \in Chans /\ Fewer(unset.chan[y], e.chan[y])
            BY <2>2, <2>6, SoundIs DEF Less
        <3> QED
            BY <2>1, <2>6, <3>1
    <2> QED
        BY <1>5, <2>2, <2>3, <2>4, <2>5, <2>6 DEF Handed, h, f
<1> QED
    BY <1>4, <1>5

\* Every account that a channel names has a nickname, or is c.
LivingBut(d, c) ==
    \A x \in Open(d) :
       /\ d.chan[x].founder \in Alive(d) \cup {c} /\ d.chan[x].successor \in Alive(d) \cup {c, NULL}
       /\ d.chan[x].akicks \subseteq Alive(d) \cup {c}
       /\ \A i \in DOMAIN d.chan[x].access :
             d.chan[x].access[i].who \in Cores => d.chan[x].access[i].who \in Alive(d) \cup {c}

\* Where channels only lose things, nothing dead but c comes in.
LEMMA FewerBut ==
    ASSUME NEW d, NEW e, Beside(d, e), Open(e) \subseteq Open(d), NEW c, LivingBut(d, c),
           \A x \in Open(e) : Fewer(d.chan[x], e.chan[x])
    PROVE  LivingBut(e, c)
<1>1. Alive(e) = Alive(d)
    BY DEF Alive, Beside
<1>2. ASSUME NEW x \in Open(e)
      PROVE  /\ e.chan[x].founder \in Alive(d) \cup {c} /\ e.chan[x].successor \in Alive(d) \cup {c, NULL}
             /\ e.chan[x].akicks \subseteq Alive(d) \cup {c}
             /\ \A i \in DOMAIN e.chan[x].access :
                   e.chan[x].access[i].who \in Cores => e.chan[x].access[i].who \in Alive(d) \cup {c}
    <2> DEFINE A == Alive(d) \cup {c}
               B == Alive(d) \cup {c, NULL}
               r == d.chan[x]
               q == e.chan[x]
    <2>1. /\ r.founder \in A /\ r.successor \in B /\ r.akicks \subseteq A
          /\ \A i \in DOMAIN r.access : r.access[i].who \in Cores => r.access[i].who \in A
        BY DEF LivingBut
    <2>2. Fewer(r, q)
        OBVIOUS
    <2> HIDE DEF A, B, r, q
    <2>3. /\ q.founder \in A /\ q.successor \in B /\ q.akicks \subseteq A
          /\ \A i \in DOMAIN q.access : q.access[i].who \in Cores => q.access[i].who \in A
        BY <2>1, <2>2 DEF Fewer
    <2> QED
        BY <2>3 DEF A, B, q
<1> QED
    BY <1>1, <1>2 DEF LivingBut

\* The channels of V have been visited for the account c, that goes.
Passing(d, e, c, V) ==
    /\ Sound(e) /\ Beside(d, e) /\ Open(e) \subseteq Open(d) /\ LivingBut(e, c)
    /\ \A x \in Open(d) \ V : x \in Open(e) /\ Fewer(d.chan[x], e.chan[x])
    /\ \A x \in Open(e) \cap V : e.chan[x].founder # c /\ e.chan[x].successor # c
    /\ \A h \in Cores \ {c} : Founded(e, h) \subseteq Founded(d, h) \cup (Founded(d, c) \cap V)
    /\ \A x \in Founded(d, c) \cap V :
          LET h == d.chan[x].successor
          IN  h \in Cores \ {c} /\ d.count[h] + d.count[c] <= MaxReg
              => x \in Open(e) /\ e.chan[x].founder = h

\* A successor with room for all that c founded has room when its turn comes.
LEMMA RoomLeft ==
    ASSUME NEW d, Sound(d), NEW e, NEW c \in Cores, NEW V, Passing(d, e, c, V),
           NEW x \in Founded(d, c) \ V, NEW h \in Cores \ {c}, d.count[h] + d.count[c] <= MaxReg
    PROVE  Below(e, h)
<1> DEFINE F == Founded(d, h)
           K == Founded(d, c)
           L == K \cap V
<1>1. /\ IsFiniteSet(F) /\ d.count[h] = Cardinality(F) /\ d.count[h] \in Nat
      /\ IsFiniteSet(K) /\ d.count[c] = Cardinality(K) /\ d.count[c] \in Nat
    BY SoundIs
<1>2. Sound(e) /\ Founded(e, h) \subseteq F \cup L
    BY DEF Passing
<1>3. e.count[h] = Cardinality(Founded(e, h)) /\ e.count[h] \in Nat
    BY <1>2, SoundIs
<1> HIDE DEF F, K
<1>4. IsFiniteSet(K \ {x}) /\ Cardinality(K \ {x}) = Cardinality(K) - 1 /\ L \subseteq K \ {x}
    BY <1>1, FS_RemoveElement DEF K
<1>5. IsFiniteSet(L) /\ Cardinality(L) <= Cardinality(K) - 1 /\ Cardinality(L) \in Nat
    BY <1>4, FS_Subset, FS_CardinalityType
<1>6. /\ IsFiniteSet(F \cup L) /\ Cardinality(F \cap L) \in Nat
      /\ Cardinality(F \cup L) = Cardinality(F) + Cardinality(L) - Cardinality(F \cap L)
    <2>1. IsFiniteSet(F \cap L)
        <3>1. F \cap L \subseteq F
            OBVIOUS
        <3> QED
            BY <1>1, <3>1, FS_Subset
    <2> HIDE DEF L
    <2> QED
        BY <1>1, <1>5, <2>1, FS_Union, FS_CardinalityType
<1>7. Cardinality(Founded(e, h)) <= Cardinality(F \cup L)
    BY <1>2, <1>6, FS_Subset
<1> HIDE DEF L
<1>8. e.count[h] <= d.count[h] + d.count[c] - 1
    <2>1. Cardinality(F \cup L) <= Cardinality(F) + Cardinality(L)
        BY <1>1, <1>5, <1>6
    <2> QED
        BY <1>1, <1>3, <1>5, <1>7, <2>1, <1>6
<1> QED
    BY <1>1, <1>3, <1>8, Limits DEF Below

\* One more channel is visited for the account that goes.
LEMMA PassingStep ==
    ASSUME NEW d, Sound(d), NEW e, NEW c \in Cores, NEW V, Passing(d, e, c, V),
           NEW x \in Chans, x \notin V
    PROVE  Passing(d, IF x \in Referring(d, c) THEN OnDelCoreChan(e, x, c) ELSE e, c, V \cup {x})
<1>1. d \in DB /\ Open(d) \subseteq Chans /\ Sound(e) /\ Open(e) \subseteq Open(d) /\ Beside(d, e)
    BY SoundIs DEF Passing
<1>2. CASE x \notin Referring(d, c)
    <2>1. d.refs[c][x] = 0
        BY <1>1, <1>2 DEF Referring, DB
    <2>2. ASSUME x \in Open(d) PROVE d.chan[x].founder # c /\ d.chan[x].successor # c /\ x \in Open(e)
                                     /\ Fewer(d.chan[x], e.chan[x])
        <3>1. d.chan[x] \in ChanInfo /\ Names(d.chan[x], c) = 0
            BY <2>1, <2>2, SoundIs
        <3>2. x \in Open(e) /\ Fewer(d.chan[x], e.chan[x])
            BY <2>2 DEF Passing
        <3> QED
            BY <3>1, <3>2, NamesNone
    <2>3. x \notin Founded(d, c)
        BY <2>2 DEF Founded
    <2>4. Passing(d, e, c, V \cup {x})
        <3>1. \A y \in Open(d) \ (V \cup {x}) : y \in Open(e) /\ Fewer(d.chan[y], e.chan[y])
            BY DEF Passing
        <3>2. ASSUME NEW y \in Open(e) \cap (V \cup {x})
              PROVE  e.chan[y].founder # c /\ e.chan[y].successor # c
            <4>1. CASE y = x
                BY <1>1, <2>2, <4>1 DEF Fewer
            <4>2. CASE y # x
                BY <4>2 DEF Passing
            <4> QED
                BY <4>1, <4>2
        <3>3. Founded(d, c) \cap (V \cup {x}) = Founded(d, c) \cap V
            BY <2>3
        <3> QED
            BY <3>1, <3>2, <3>3 DEF Passing
    <2> QED
        BY <1>2, <2>4
<1>3. CASE x \in Referring(d, c)
    <2> DEFINE g == OnDelCoreChan(e, x, c)
               h == NewOwner(e, x, c)
               r == e.chan[x]
               q == g.chan[x]
    <2>1. x \in Open(d)
        BY <1>1, <1>3 DEF Referring, Sound, Uses
    <2>2. x \in Open(e) /\ Fewer(d.chan[x], r)
        BY <2>1 DEF Passing
    <2>3. Handed(e, g, x, c)
        BY <1>1, <2>2, OnDelCoreChanIs
    <2>4. /\ h = NULL \/ ( /\ h \in Cores /\ h # c
                           /\ h = r.successor \/ \E i \in DOMAIN r.access : r.access[i].who = h )
          /\ r.successor \notin {NULL, c} /\ Below(e, r.successor) => h = r.successor
        BY <1>1, <2>2, NewOwnerIs
    <2> HIDE DEF g, h
    <2>5. /\ Sound(g) /\ Beside(e, g) /\ Open(g) \subseteq Open(e) /\ Open(e) \ {x} \subseteq Open(g)
          /\ \A y \in Open(g) : y # x => Fewer(e.chan[y], g.chan[y])
          /\ x \in Open(g) => Passed(e, r, q, c, h) /\ (r.founder = c => h # NULL)
          /\ x \notin Open(g) => r.founder = c /\ h = NULL
        BY <2>3 DEF Handed, h
    <2>6. Beside(d, g) /\ Alive(g) = Alive(e)
        BY <1>1, <2>5 DEF Beside, Alive
    <2>7. x \in Open(g) => /\ q.founder # c /\ q.successor # c
                           /\ q.founder \in Alive(e) /\ q.successor \in Alive(e) \cup {NULL}
                           /\ q.akicks \subseteq Alive(e) \cup {c}
                           /\ \A i \in DOMAIN q.access :
                                 q.access[i].who \in Cores => q.access[i].who \in Alive(e) \cup {c}
        <3> SUFFICES ASSUME x \in Open(g)
                     PROVE  /\ q.founder # c /\ q.successor # c
                            /\ q.founder \in Alive(e) /\ q.successor \in Alive(e) \cup {NULL}
                            /\ q.akicks \subseteq Alive(e) \cup {c}
                            /\ \A i \in DOMAIN q.access :
                                  q.access[i].who \in Cores => q.access[i].who \in Alive(e) \cup {c}
            OBVIOUS
        <3>1. /\ r.founder \in Alive(e) \cup {c} /\ r.successor \in Alive(e) \cup {c, NULL}
              /\ r.akicks \subseteq Alive(e) \cup {c}
              /\ \A i \in DOMAIN r.access : r.access[i].who \in Cores => r.access[i].who \in Alive(e) \cup {c}
            BY <2>2 DEF Passing, LivingBut
        <3>2. Passed(e, r, q, c, h) /\ (r.founder = c => h # NULL) /\ NULL \notin Cores
            BY <2>5, Apart
        <3> HIDE DEF r, q
        <3>3. r.founder = c => h \in Alive(e) /\ h # c
            BY <2>4, <3>1, <3>2
        <3> QED
            BY <3>1, <3>2, <3>3 DEF Passed
    <2>8. LivingBut(g, c)
        <3>1. ASSUME NEW y \in Open(g), y # x
              PROVE  /\ g.chan[y].founder \in Alive(e) \cup {c} /\ g.chan[y].successor \in Alive(e) \cup {c, NULL}
                     /\ g.chan[y].akicks \subseteq Alive(e) \cup {c}
                     /\ \A i \in DOMAIN g.chan[y].access :
                           g.chan[y].access[i].who \in Cores => g.chan[y].access[i].who \in Alive(e) \cup {c}
            <4> DEFINE a == e.chan[y]
                       b == g.chan[y]
            <4>1. y \in Open(e) /\ Fewer(a, b)
                BY <2>5, <3>1
            <4>2. /\ a.founder \in Alive(e) \cup {c} /\ a.successor \in Alive(e) \cup {c, NULL}
                  /\ a.akicks \subseteq Alive(e) \cup {c}
                  /\ \A i \in DOMAIN a.access : a.access[i].who \in Cores => a.access[i].who \in Alive(e) \cup {c}
                BY <4>1 DEF Passing, LivingBut
            <4> HIDE DEF a, b
            <4>3. /\ b.founder \in Alive(e) \cup {c} /\ b.successor \in Alive(e) \cup {c, NULL}
                  /\ b.akicks \subseteq Alive(e) \cup {c}
                  /\ \A i \in DOMAIN b.access : b.access[i].who \in Cores => b.access[i].who \in Alive(e) \cup {c}
                BY <4>1, <4>2 DEF Fewer
            <4> QED
                BY <4>3 DEF b
        <3> QED
            BY <2>6, <2>7, <3>1 DEF LivingBut
    <2>9. ASSUME NEW y \in Open(d) \ (V \cup {x}) PROVE y \in Open(g) /\ Fewer(d.chan[y], g.chan[y])
        <3>1. y \in Open(e) /\ Fewer(d.chan[y], e.chan[y])
            BY <2>9 DEF Passing
        <3>2. y \in Open(g) /\ Fewer(e.chan[y], g.chan[y])
            BY <2>5, <2>9, <3>1
        <3> QED
            BY <3>1, <3>2, FewerAgain
    <2>10. ASSUME NEW y \in Open(g) \cap (V \cup {x})
           PROVE  g.chan[y].founder # c /\ g.chan[y].successor # c
        <3>1. CASE y = x
            BY <2>7, <2>10, <3>1
        <3>2. CASE y # x
            BY <2>5, <2>10, <3>2 DEF Passing, Fewer
        <3> QED
            BY <3>1, <3>2
    <2>11. ASSUME NEW k \in Cores \ {c}
           PROVE  Founded(g, k) \subseteq Founded(d, k) \cup (Founded(d, c) \cap (V \cup {x}))
        <3>1. Founded(e, k) \subseteq Founded(d, k) \cup (Founded(d, c) \cap V)
            BY DEF Passing
        <3>2. ASSUME NEW y \in Founded(g, k)
              PROVE  y \in Founded(d, k) \cup (Founded(d, c) \cap (V \cup {x}))
            <4>1. y \in Open(g) /\ g.chan[y].founder = k /\ y \in Open(e) /\ y \in Open(d)
                BY <1>1, <2>5, <3>2 DEF Founded
            <4>2. CASE y # x
                <5>1. y \in Founded(e, k)
                    BY <2>5, <4>1, <4>2 DEF Founded, Fewer
                <5> QED
                    BY <3>1, <5>1
            <4>3. CASE y = x /\ r.founder = c
                <5>1. d.chan[x].founder = c
                    BY <2>2, <4>3 DEF Fewer
                <5> QED
                    BY <4>1, <4>3, <5>1 DEF Founded
            <4>4. CASE y = x /\ r.founder # c
                <5>1. d.chan[x].founder = k
                    BY <2>2, <2>5, <4>1, <4>4 DEF Fewer, Passed
                <5> QED
                    BY <4>1, <4>4, <5>1 DEF Founded
            <4> QED
                BY <4>2, <4>3, <4>4
        <3> QED
            BY <3>2
    <2>12. ASSUME NEW y \in Founded(d, c) \cap (V \cup {x}), d.chan[y].successor \in Cores \ {c},
                  d.count[d.chan[y].successor] + d.count[c] <= MaxReg
           PROVE  y \in Open(g) /\ g.chan[y].founder = d.chan[y].successor
        <3> DEFINE k == d.chan[y].successor
        <3>1. CASE y # x
            <4>1. y \in Open(e) /\ e.chan[y].founder = k
                BY <2>12, <3>1 DEF Passing
            <4> QED
                BY <2>5, <3>1, <4>1 DEF Fewer
        <3>2. CASE y = x
            <4>1. x \in Founded(d, c) \ V /\ k # NULL
                BY <2>12, <3>2, Apart
            <4>2. Below(e, k)
                BY <2>12, <4>1, RoomLeft
            <4>3. r.successor = k /\ r.founder = c
                BY <2>2, <3>2, <4>1 DEF Fewer, Founded
            <4>4. h = k
                BY <2>4, <2>12, <4>1, <4>2, <4>3
            <4>5. x \in Open(g)
                BY <2>5, <4>1, <4>4
            <4> QED
                BY <2>5, <3>2, <4>3, <4>4, <4>5 DEF Passed
        <3> QED
            BY <3>1, <3>2
    <2>13. Open(g) \subseteq Open(d)
        BY <1>1, <2>5
    <2>14. Passing(d, g, c, V \cup {x})
        BY <2>5, <2>6, <2>8, <2>9, <2>10, <2>11, <2>12, <2>13 DEF Passing
    <2> QED
        BY <1>3, <2>14 DEF g
<1> QED
    BY <1>2, <1>3

\* The two loops of ~NickCore over the channels it has counted.
HandOn(d, c, order) ==
    FoldLeft(LAMBDA e, x : IF x \in Referring(d, c) THEN OnDelCoreChan(e, x, c) ELSE e, d, order)
Unkick(d, c, order) ==
    FoldLeft(LAMBDA e, x : IF x \in Referring(d, c) THEN EraseAkick(e, x, c) ELSE e, d, order)

\* An order has each channel once.
LEMMA OrderIs ==
    ASSUME NEW order \in Orders
    PROVE  LET n == Cardinality(Chans)
           IN  /\ n \in Nat /\ order \in [1..n -> Chans] /\ Len(order) = n /\ DOMAIN order = 1..n
               /\ IsFiniteSet(1..n) /\ \A s \in SUBSET (1..n) : s # {} => Max(s) \in s
               /\ \A i, j \in 1..n : i # j => order[i] # order[j]
               /\ \A x \in Chans : \E i \in 1..n : order[i] = x
<1> DEFINE n == Cardinality(Chans)
<1>1. n \in Nat /\ IsFiniteSet(Chans)
    BY Limits, FS_CardinalityType
<1>2. order \in [1..n -> Chans] /\ \A i, j \in 1..n : i # j => order[i] # order[j]
    BY DEF Orders, SetToSeqs
<1>3. IsFiniteSet(1..n) /\ Cardinality(1..n) = n
    <2> HIDE DEF n
    <2> QED
        BY <1>1, FS_Interval
<1>4. order \in Surjection(1..n, Chans)
    <2>1. order \in Injection(1..n, Chans)
        BY <1>2 DEF Injection, IsInjective
    <2> QED
        BY <1>1, <1>3, <2>1, FS_Injection
<1>5. \A x \in Chans : \E i \in 1..n : order[i] = x
    BY <1>4 DEF Surjection
<1>6. \A s \in SUBSET (1..n) : s # {} => Max(s) \in s
    <2> HIDE DEF n
    <2> QED
        BY <1>1, MaxOf
<1> HIDE DEF n
<1>7. Len(order) = n /\ DOMAIN order = 1..n
    BY <1>1, <1>2
<1> QED
    BY <1>1, <1>2, <1>3, <1>5, <1>6, <1>7 DEF n

\* Every channel is visited for the account that goes.
LEMMA HandOnIs ==
    ASSUME NEW d, Sound(d), NEW c \in Cores, LivingBut(d, c), NEW order \in Orders
    PROVE  Passing(d, HandOn(d, c, order), c, Chans)
<1> DEFINE S == 1..Cardinality(Chans)
           z == order
           pick == [s \in SUBSET S |-> Max(s)]
           Fine(s, e) == Passing(d, e, c, {z[i] : i \in s})
           P == {p \in (SUBSET S) \X DB : Fine(p[1], p[2])}
           G == [p \in S \X DB |-> (IF z[p[1]] \in Referring(d, c) THEN OnDelCoreChan(p[2], z[p[1]], c) ELSE p[2])]
           Loop(f) == f = [s \in SUBSET S |-> IF s = {} THEN d
                             ELSE (IF z[Max(s)] \in Referring(d, c) THEN OnDelCoreChan(f[s \ {Max(s)}], z[Max(s)], c) ELSE f[s \ {Max(s)}])]
           I == CHOOSE f : Loop(f)
<1>0. /\ DOMAIN order = S /\ z \in [S -> Chans] /\ IsFiniteSet(S)
      /\ \A s \in SUBSET S : s # {} => Max(s) \in s
      /\ \A i, j \in S : i # j => z[i] # z[j]
      /\ \A x \in Chans : \E i \in S : z[i] = x
    BY OrderIs
<1>1. IsFiniteSet(S) /\ Picks(S, pick)
    BY <1>0 DEF Picks
<1>2. d \in DB /\ Fine({}, d)
    <2>1. Passing(d, d, c, {})
        BY FewerSame DEF Passing, Beside
    <2>2. {z[i] : i \in {}} = {}
        OBVIOUS
    <2> QED
        BY <2>1, <2>2, SoundIs
<1>3. ASSUME NEW s \in SUBSET S, NEW v \in s, NEW e \in DB, Fine(s \ {v}, e)
      PROVE  (IF z[v] \in Referring(d, c) THEN OnDelCoreChan(e, z[v], c) ELSE e) \in DB /\ Fine(s, (IF z[v] \in Referring(d, c) THEN OnDelCoreChan(e, z[v], c) ELSE e))
    <2> DEFINE V == {z[i] : i \in s \ {v}}
               g == IF z[v] \in Referring(d, c) THEN OnDelCoreChan(e, z[v], c) ELSE e
    <2>1. z[v] \in Chans /\ z[v] \notin V /\ {z[i] : i \in s} = V \cup {z[v]}
        <3> HIDE DEF S, z
        <3> QED
            BY <1>0
    <2>2. Passing(d, e, c, V)
        BY <1>3
    <2> HIDE DEF V, S, z, Fine
    <2>3. Passing(d, g, c, V \cup {z[v]})
        BY <2>1, <2>2, PassingStep
    <2> HIDE DEF g
    <2>4. g \in DB /\ Passing(d, g, c, {z[i] : i \in s})
        BY <2>1, <2>3, SoundIs DEF Passing
    <2> QED
        BY <2>4 DEF Fine, g
<1> HIDE DEF Fine
<1>4. \A s \in SUBSET S : \A v \in s : \A e \in DB : <<s \ {v}, e>> \in P
         => G[<<v, e>>] = (IF z[v] \in Referring(d, c) THEN OnDelCoreChan(e, z[v], c) ELSE e) /\ <<s, (IF z[v] \in Referring(d, c) THEN OnDelCoreChan(e, z[v], c) ELSE e)>> \in P
    BY <1>3
<1>5. P \in SUBSET ((SUBSET S) \X DB) /\ <<{}, d>> \in P
    BY <1>2
<1> HIDE DEF P, G
<1>6. Visits(S, DB, P, d, G)
    BY <1>4, <1>5 DEF Visits
<1> HIDE DEF S, z, pick
<1>7. PICK f : Visitor(f, S, pick, DB, P, d, G)
    BY <1>1, <1>6, AnyOrder
<1>8. ASSUME NEW s \in SUBSET S, s # {}, NEW e \in DB, <<s \ {pick[s]}, e>> \in P
      PROVE  /\ G[<<pick[s], e>>] = (IF z[pick[s]] \in Referring(d, c) THEN OnDelCoreChan(e, z[pick[s]], c) ELSE e)
             /\ <<s, (IF z[pick[s]] \in Referring(d, c) THEN OnDelCoreChan(e, z[pick[s]], c) ELSE e)>> \in P
    <2>1. pick[s] \in s
        BY <1>1, <1>8 DEF Picks
    <2> QED
        BY <1>4, <1>8, <2>1
<1>9. ASSUME NEW s \in SUBSET S, s # {}
      PROVE  f[s] = (IF z[pick[s]] \in Referring(d, c) THEN OnDelCoreChan(f[s \ {pick[s]}], z[pick[s]], c) ELSE f[s \ {pick[s]}])
    <2> DEFINE e == f[s \ {pick[s]}]
    <2>1. s \ {pick[s]} \in SUBSET S
        OBVIOUS
    <2>2. e \in DB /\ <<s \ {pick[s]}, e>> \in P /\ f[s] = G[<<pick[s], e>>]
        BY <1>7, <1>9, <2>1 DEF Visitor
    <2> HIDE DEF e
    <2>3. f[s] = (IF z[pick[s]] \in Referring(d, c) THEN OnDelCoreChan(e, z[pick[s]], c) ELSE e)
        BY <1>8, <1>9, <2>2
    <2> QED
        BY <2>3 DEF e
<1>10. Loop(f)
    BY <1>7, <1>9 DEF Visitor, pick
<1>11. Loop(I)
    BY <1>10
<1> USE DEF S, z, pick
<1>12. HandOn(d, c, order) = I[S]
    BY <1>0 DEF HandOn, FoldLeft, MapThenFoldSet
<1> HIDE DEF I, S, z, pick
<1>13. /\ I[{}] = d
       /\ \A s \in SUBSET S : s # {} => I[s] = (IF z[pick[s]] \in Referring(d, c) THEN OnDelCoreChan(I[s \ {pick[s]}], z[pick[s]], c) ELSE I[s \ {pick[s]}])
    BY <1>11 DEF pick
<1>14. ASSUME NEW s \in SUBSET S, s # {}, <<s \ {pick[s]}, I[s \ {pick[s]}]>> \in P
       PROVE  <<s, I[s]>> \in P
    <2> DEFINE e == I[s \ {pick[s]}]
    <2>1. e \in DB /\ <<s \ {pick[s]}, e>> \in P
        BY <1>5, <1>14
    <2> HIDE DEF e
    <2>2. <<s, (IF z[pick[s]] \in Referring(d, c) THEN OnDelCoreChan(e, z[pick[s]], c) ELSE e)>> \in P
        BY <1>8, <1>14, <2>1
    <2> QED
        BY <1>13, <1>14, <2>2 DEF e
<1>15. <<S, I[S]>> \in P
    BY <1>1, <1>5, <1>13, <1>14, AllVisited
<1>16. Fine(S, I[S])
    BY <1>15 DEF P
<1> QED
    <2>1. {z[i] : i \in S} = Chans
        BY <1>0
    <2> QED
        BY <1>12, <1>16, <2>1 DEF Fine

\* Every channel that has an autokick for the account loses it.
LEMMA UnkickIs ==
    ASSUME NEW d, Sound(d), NEW c \in Cores, NEW order \in Orders
    PROVE  LET e == Unkick(d, c, order)
           IN  Less(d, e) /\ Open(e) = Open(d) /\ \A x \in Open(d) : c \notin e.chan[x].akicks
<1> DEFINE S == 1..Cardinality(Chans)
           z == order
           pick == [s \in SUBSET S |-> Max(s)]
           Fine(s, e) == /\ Less(d, e) /\ Open(e) = Open(d)
                         /\ \A i \in s : z[i] \in Open(d) => c \notin e.chan[z[i]].akicks
           P == {p \in (SUBSET S) \X DB : Fine(p[1], p[2])}
           G == [p \in S \X DB |-> (IF z[p[1]] \in Referring(d, c) THEN EraseAkick(p[2], z[p[1]], c) ELSE p[2])]
           Loop(f) == f = [s \in SUBSET S |-> IF s = {} THEN d
                             ELSE (IF z[Max(s)] \in Referring(d, c) THEN EraseAkick(f[s \ {Max(s)}], z[Max(s)], c) ELSE f[s \ {Max(s)}])]
           I == CHOOSE f : Loop(f)
<1>0. /\ DOMAIN order = S /\ z \in [S -> Chans] /\ IsFiniteSet(S)
      /\ \A s \in SUBSET S : s # {} => Max(s) \in s
      /\ \A i, j \in S : i # j => z[i] # z[j]
      /\ \A x \in Chans : \E i \in S : z[i] = x
    BY OrderIs
<1>1. IsFiniteSet(S) /\ Picks(S, pick)
    BY <1>0 DEF Picks
<1>2. d \in DB /\ Fine({}, d)
    BY LessSame, SoundIs
<1>3. ASSUME NEW s \in SUBSET S, NEW v \in s, NEW e \in DB, Fine(s \ {v}, e)
      PROVE  (IF z[v] \in Referring(d, c) THEN EraseAkick(e, z[v], c) ELSE e) \in DB /\ Fine(s, (IF z[v] \in Referring(d, c) THEN EraseAkick(e, z[v], c) ELSE e))
    <2> DEFINE x == z[v]
               g == IF x \in Referring(d, c) THEN EraseAkick(e, x, c) ELSE e
    <2>1. x \in Chans /\ Sound(e) /\ d \in DB /\ Open(d) \subseteq Chans
        <3> HIDE DEF S, z
        <3> QED
            BY <1>0, <1>3, SoundIs DEF Less
    <2>2. Less(e, g) /\ Open(g) = Open(e) /\ (x \in Open(d) => c \notin g.chan[x].akicks)
        <3>1. CASE x \in Referring(d, c)
            <4>1. x \in Open(e)
                BY <1>3, <2>1, <3>1 DEF Referring, Sound, Uses
            <4> HIDE DEF x
            <4> QED
                BY <2>1, <3>1, <4>1, EraseAkickLess
        <3>2. CASE x \notin Referring(d, c)
            <4>1. d.refs[c][x] = 0
                BY <2>1, <3>2 DEF Referring, DB
            <4> HIDE DEF x
            <4>2. x \in Open(d) => c \notin d.chan[x].akicks
                BY <4>1, SoundIs, NamesNone
            <4>3. x \in Open(d) => e.chan[x].akicks \subseteq d.chan[x].akicks
                BY <1>3 DEF Less, Fewer
            <4> QED
                BY <2>1, <3>2, <4>2, <4>3, LessSame
        <3> QED
            BY <3>1, <3>2
    <2> HIDE DEF g
    <2>3. Less(d, g) /\ Open(g) = Open(d) /\ g \in DB
        BY <1>3, <2>2, LessAgain, SoundIs DEF Less
    <2>4. ASSUME NEW i \in s, z[i] \in Open(d) PROVE c \notin g.chan[z[i]].akicks
        <3>1. CASE i = v
            BY <2>2, <2>4, <3>1
        <3>2. CASE i # v
            <4>1. c \notin e.chan[z[i]].akicks /\ z[i] \in Open(g)
                BY <1>3, <2>3, <2>4, <3>2
            <4> QED
                BY <2>2, <4>1 DEF Less, Fewer
        <3> QED
            BY <3>1, <3>2
    <2> QED
        BY <2>3, <2>4 DEF g, x
<1> HIDE DEF Fine
<1>4. \A s \in SUBSET S : \A v \in s : \A e \in DB : <<s \ {v}, e>> \in P
         => G[<<v, e>>] = (IF z[v] \in Referring(d, c) THEN EraseAkick(e, z[v], c) ELSE e) /\ <<s, (IF z[v] \in Referring(d, c) THEN EraseAkick(e, z[v], c) ELSE e)>> \in P
    BY <1>3
<1>5. P \in SUBSET ((SUBSET S) \X DB) /\ <<{}, d>> \in P
    BY <1>2
<1> HIDE DEF P, G
<1>6. Visits(S, DB, P, d, G)
    BY <1>4, <1>5 DEF Visits
<1> HIDE DEF S, z, pick
<1>7. PICK f : Visitor(f, S, pick, DB, P, d, G)
    BY <1>1, <1>6, AnyOrder
<1>8. ASSUME NEW s \in SUBSET S, s # {}, NEW e \in DB, <<s \ {pick[s]}, e>> \in P
      PROVE  /\ G[<<pick[s], e>>] = (IF z[pick[s]] \in Referring(d, c) THEN EraseAkick(e, z[pick[s]], c) ELSE e)
             /\ <<s, (IF z[pick[s]] \in Referring(d, c) THEN EraseAkick(e, z[pick[s]], c) ELSE e)>> \in P
    <2>1. pick[s] \in s
        BY <1>1, <1>8 DEF Picks
    <2> QED
        BY <1>4, <1>8, <2>1
<1>9. ASSUME NEW s \in SUBSET S, s # {}
      PROVE  f[s] = (IF z[pick[s]] \in Referring(d, c) THEN EraseAkick(f[s \ {pick[s]}], z[pick[s]], c) ELSE f[s \ {pick[s]}])
    <2> DEFINE e == f[s \ {pick[s]}]
    <2>1. s \ {pick[s]} \in SUBSET S
        OBVIOUS
    <2>2. e \in DB /\ <<s \ {pick[s]}, e>> \in P /\ f[s] = G[<<pick[s], e>>]
        BY <1>7, <1>9, <2>1 DEF Visitor
    <2> HIDE DEF e
    <2>3. f[s] = (IF z[pick[s]] \in Referring(d, c) THEN EraseAkick(e, z[pick[s]], c) ELSE e)
        BY <1>8, <1>9, <2>2
    <2> QED
        BY <2>3 DEF e
<1>10. Loop(f)
    BY <1>7, <1>9 DEF Visitor, pick
<1>11. Loop(I)
    BY <1>10
<1> USE DEF S, z, pick
<1>12. Unkick(d, c, order) = I[S]
    BY <1>0 DEF Unkick, FoldLeft, MapThenFoldSet
<1> HIDE DEF I, S, z, pick
<1>13. /\ I[{}] = d
       /\ \A s \in SUBSET S : s # {} => I[s] = (IF z[pick[s]] \in Referring(d, c) THEN EraseAkick(I[s \ {pick[s]}], z[pick[s]], c) ELSE I[s \ {pick[s]}])
    BY <1>11 DEF pick
<1>14. ASSUME NEW s \in SUBSET S, s # {}, <<s \ {pick[s]}, I[s \ {pick[s]}]>> \in P
       PROVE  <<s, I[s]>> \in P
    <2> DEFINE e == I[s \ {pick[s]}]
    <2>1. e \in DB /\ <<s \ {pick[s]}, e>> \in P
        BY <1>5, <1>14
    <2> HIDE DEF e
    <2>2. <<s, (IF z[pick[s]] \in Referring(d, c) THEN EraseAkick(e, z[pick[s]], c) ELSE e)>> \in P
        BY <1>8, <1>14, <2>1
    <2> QED
        BY <1>13, <1>14, <2>2 DEF e
<1>15. <<S, I[S]>> \in P
    BY <1>1, <1>5, <1>13, <1>14, AllVisited
<1>16. Fine(S, I[S])
    BY <1>15 DEF P
<1> QED
    <2> DEFINE e == Unkick(d, c, order)
    <2>1. /\ Less(d, e) /\ Open(e) = Open(d)
          /\ \A i \in S : z[i] \in Open(d) => c \notin e.chan[z[i]].akicks
        BY <1>12, <1>16 DEF Fine
    <2> HIDE DEF e, S, z
    <2>2. ASSUME NEW x \in Open(d) PROVE c \notin e.chan[x].akicks
        <3>1. x \in Chans
            BY SoundIs
        <3> QED
            BY <1>0, <2>1, <3>1
    <2> QED
        BY <2>1, <2>2 DEF e

\* An access entry that named the account names nobody.
LEMMA ForgetHits ==
    ASSUME NEW a \in Seq(Entry), NEW c \in Cores, NEW b, b = Unname(a, c)
    PROVE  /\ b \in Seq(Entry) /\ Len(b) = Len(a) /\ DOMAIN b = DOMAIN a
           /\ \A i \in DOMAIN a : b[i].who = IF a[i].who = c THEN NULL ELSE a[i].who
           /\ Hits(b, c) = {}
           /\ \A w \in Cores \cup Chans : w # c => Hits(b, w) = Hits(a, w)
<1>1. DOMAIN a = 1..Len(a) /\ Len(a) \in Nat /\ \A i \in DOMAIN a : a[i] \in Entry
    OBVIOUS
<1>2. \A i \in DOMAIN a : b[i] \in Entry /\ b[i].who = IF a[i].who = c THEN NULL ELSE a[i].who
    BY <1>1 DEF Entry, Unname
<1>3. DOMAIN b = DOMAIN a
    BY DEF Unname
<1>4. b \in Seq(Entry) /\ Len(b) = Len(a)
    <2>1. b \in [1..Len(a) -> Entry]
        BY <1>1, <1>2 DEF Unname
    <2> DEFINE n == Len(a)
    <2> HIDE DEF n
    <2>2. b \in [1..n -> Entry] /\ n \in Nat
        BY <1>1, <2>1 DEF n
    <2>3. b \in Seq(Entry) /\ Len(b) = n
        BY <2>2
    <2> QED
        BY <2>3 DEF n
<1>5. c # NULL /\ \A w \in Cores \cup Chans : w # NULL
    BY Apart
<1> QED
    BY <1>2, <1>3, <1>4, <1>5 DEF Hits

\* What still names the account that is gone reads as null.
LEMMA ForgetIs ==
    ASSUME NEW u, Sound(u), NEW c \in Cores, u.aliases[c] = << >>, LivingBut(u, c),
           \A x \in Open(u) : u.chan[x].founder # c /\ u.chan[x].successor # c /\ c \notin u.chan[x].akicks
    PROVE  LET f == Forget(u, c)
           IN  /\ Sound(f) /\ Living(f) /\ f.aliases = u.aliases
               /\ f.display = [u.display EXCEPT ![c] = NULL] /\ f.na = [u.na EXCEPT ![c] = NULL]
               /\ Open(f) = Open(u) /\ \A x \in Open(u) : f.chan[x].founder = u.chan[x].founder
<1> DEFINE Q(r) == [founder   |-> IF r.founder = c THEN NULL ELSE r.founder,
                    successor |-> IF r.successor = c THEN NULL ELSE r.successor,
                    akicks    |-> r.akicks \ {c},
                    access    |-> Unname(r.access, c)]
           C == [x \in Chans |-> IF u.chan[x] = NULL THEN NULL ELSE Q(u.chan[x])]
           none == [x \in Chans |-> 0]
           R == [u.refs EXCEPT ![c] = none]
           K == [u.count EXCEPT ![c] = 0]
           D == [u.display EXCEPT ![c] = NULL]
           N == [u.na EXCEPT ![c] = NULL]
           A == [u.aliases EXCEPT ![c] = << >>]
           f == [u EXCEPT !.chan = C, !.refs = R, !.count = K, !.display = D, !.na = N, !.aliases = A]
<1>1. Forget(u, c) = f
    <2> DEFINE g == [u EXCEPT !.chan = C, !.refs[c] = none, !.count[c] = 0,
                              !.display[c] = NULL, !.na[c] = NULL, !.aliases[c] = << >>]
    <2>1. g = f
        OBVIOUS
    <2>2. Forget(u, c) = g
        BY Zenon DEF Forget
    <2> QED
        BY <2>1, <2>2
<1>2. u \in DB /\ Open(u) \subseteq Chans /\ c # NULL /\ \A w \in Cores \cup Chans : w # NULL
    BY SoundIs, Apart
<1>3. ASSUME NEW x \in Open(u)
      PROVE  LET r == u.chan[x]
                 q == Q(r)
             IN  /\ r \in ChanInfo /\ q \in ChanInfo /\ q.founder = r.founder /\ q.successor = r.successor
                 /\ q.akicks = r.akicks
                 /\ Len(q.access) = Len(r.access) /\ DOMAIN q.access = DOMAIN r.access
                 /\ \A i \in DOMAIN r.access :
                       q.access[i].who = IF r.access[i].who = c THEN NULL ELSE r.access[i].who
                 /\ Names(q, c) = 0
                 /\ \A w \in Cores \cup Chans : w # c => Names(q, w) = Names(r, w)
    <2> DEFINE r == u.chan[x]
               q == Q(r)
               b == Unname(r.access, c)
    <2>1. r \in ChanInfo /\ r.access \in Seq(Entry) /\ r.founder # c /\ r.successor # c /\ c \notin r.akicks
        BY SoundIs, InfoType
    <2> HIDE DEF r
    <2>3. /\ q.founder = r.founder /\ q.successor = r.successor /\ q.akicks = r.akicks /\ q.access = b
        BY <2>1
    <2> HIDE DEF b
    <2>4. /\ b \in Seq(Entry) /\ Len(b) = Len(r.access) /\ DOMAIN b = DOMAIN r.access
          /\ \A i \in DOMAIN r.access : b[i].who = IF r.access[i].who = c THEN NULL ELSE r.access[i].who
          /\ Hits(b, c) = {}
          /\ \A w \in Cores \cup Chans : w # c => Hits(b, w) = Hits(r.access, w)
        BY <2>1, ForgetHits DEF b
    <2>5. q \in ChanInfo
        <3>1. q = [founder |-> r.founder, successor |-> r.successor, akicks |-> r.akicks, access |-> b]
            BY <2>1 DEF b
        <3> HIDE DEF q
        <3> QED
            BY <2>1, <2>4, <3>1, InfoType DEF ChanInfo
    <2> HIDE DEF q
    <2>6. Names(q, c) = 0
        <3>1. Cardinality(Hits(b, c)) = 0
            BY <2>4, FS_EmptySet
        <3>2. One(r.founder = c) = 0 /\ One(r.successor = c) = 0 /\ One(c \in r.akicks) = 0
            BY <2>1 DEF One
        <3> QED
            BY <2>3, <3>1, <3>2 DEF Names
    <2>7. \A w \in Cores \cup Chans : w # c => Names(q, w) = Names(r, w)
        BY <2>3, <2>4 DEF Names
    <2> QED
        BY <2>1, <2>3, <2>4, <2>5, <2>6, <2>7 DEF q, r
<1> HIDE DEF Q
<1>4. /\ f \in DB /\ f.chan = C /\ f.refs = R /\ f.count = K /\ f.display = D /\ f.na = N /\ f.aliases = A
    <2>1. C \in [Chans -> ChanInfo \cup {NULL}]
        <3>1. ASSUME NEW x \in Chans PROVE C[x] \in ChanInfo \cup {NULL}
            <4>1. CASE u.chan[x] = NULL
                BY <4>1
            <4>2. CASE u.chan[x] # NULL
                <5>1. x \in Open(u)
                    BY <4>2 DEF Open
                <5> QED
                    BY <1>3, <4>2, <5>1
            <4> QED
                BY <4>1, <4>2
        <3> QED
            BY <3>1
    <2>2. /\ R \in [Cores \cup Chans -> [Chans -> Nat]] /\ K \in [Cores -> Nat]
          /\ D \in [Cores -> Nicks \cup {NULL}] /\ N \in [Cores -> Nicks \cup {NULL}]
        BY <1>2 DEF DB
    <2>3. A \in [Cores -> Seq(Nicks)]
        BY <1>2 DEF DB
    <2> HIDE DEF C, R, K, D, N, A
    <2> QED
        BY <1>2, <2>1, <2>2, <2>3 DEF DB
<1>5. A = u.aliases
    BY <1>2 DEF DB
<1> HIDE DEF f
<1>6. /\ Open(f) = Open(u) /\ \A x \in Open(u) : f.chan[x] = Q(u.chan[x])
    <2>1. \A x \in Open(u) : C[x] = Q(u.chan[x]) /\ C[x] \in ChanInfo /\ C[x] # NULL
        BY <1>2, <1>3, Apart DEF Open
    <2>2. \A x \in Chans : x \notin Open(u) => C[x] = NULL
        BY DEF Open
    <2> HIDE DEF C
    <2> QED
        BY <1>2, <1>4, <2>1, <2>2 DEF Open
<1>7. \A w \in Cores \cup Chans : f.refs[w] = IF w = c THEN none ELSE u.refs[w]
    BY <1>2, <1>4 DEF DB
<1>8. ASSUME NEW w \in Cores \cup Chans, NEW x \in Chans PROVE f.refs[w][x] = Uses(f, w, x)
    <2>1. CASE x \notin Open(u)
        <3>1. Uses(f, w, x) = 0 /\ u.refs[w][x] = 0
            BY <1>6, <2>1 DEF Uses, Sound
        <3> QED
            BY <1>7, <3>1
    <2>2. CASE x \in Open(u)
        <3>1. Uses(f, w, x) = Names(Q(u.chan[x]), w) /\ u.refs[w][x] = Names(u.chan[x], w)
            BY <1>6, <2>2, SoundIs DEF Uses
        <3>2. /\ Names(Q(u.chan[x]), c) = 0
              /\ w # c => Names(Q(u.chan[x]), w) = Names(u.chan[x], w)
            BY <1>3, <2>2
        <3> QED
            BY <1>7, <3>1, <3>2
    <2> QED
        BY <2>1, <2>2
<1>9. ASSUME NEW v \in Cores PROVE f.count[v] = Cardinality(Founded(f, v)) /\ f.count[v] <= MaxReg
    <2>1. Founded(f, v) = Founded(u, v)
        BY <1>3, <1>6 DEF Founded
    <2>2. f.count[v] = IF v = c THEN 0 ELSE u.count[v]
        BY <1>2, <1>4 DEF DB
    <2>3. CASE v = c
        <3>1. Founded(u, c) = {}
            BY DEF Founded
        <3> QED
            BY <2>1, <2>2, <2>3, <3>1, FS_EmptySet, Limits
    <2>4. CASE v # c
        BY <2>1, <2>2, <2>4, SoundIs
    <2> QED
        BY <2>3, <2>4
<1>10. ASSUME NEW x \in Open(f) PROVE ListOK(f, f.chan[x].access)
    <2> DEFINE a == u.chan[x].access
               b == Q(u.chan[x]).access
    <2>1. x \in Open(u) /\ f.chan[x].access = b /\ ListOK(u, a)
        BY <1>6, <1>10, SoundIs
    <2>2. /\ Len(b) = Len(a) /\ DOMAIN b = DOMAIN a
          /\ \A i \in DOMAIN a : b[i].who = IF a[i].who = c THEN NULL ELSE a[i].who
        BY <1>3, <2>1
    <2>3. NULL \notin Chans
        BY Apart
    <2> HIDE DEF a, b
    <2>4. ListOK(f, b)
        BY <1>6, <2>1, <2>2, <2>3 DEF ListOK
    <2> QED
        BY <2>1, <2>4
<1>11. Sound(f)
    BY <1>4, <1>8, <1>9, <1>10 DEF Sound, ListOK
<1>12. Alive(u) = Alive(f) /\ c \notin Alive(u)
    BY <1>4, <1>5 DEF Alive
<1>13. ASSUME NEW x \in Open(f)
       PROVE  /\ f.chan[x].founder \in Alive(f) /\ f.chan[x].successor \in Alive(f) \cup {NULL}
              /\ f.chan[x].akicks \subseteq Alive(f)
              /\ \A i \in DOMAIN f.chan[x].access :
                    f.chan[x].access[i].who \in Cores => f.chan[x].access[i].who \in Alive(f)
    <2> DEFINE r == u.chan[x]
               q == Q(r)
    <2>1. x \in Open(u) /\ f.chan[x] = q
        BY <1>6, <1>13
    <2>2. /\ q.founder = r.founder /\ q.successor = r.successor /\ q.akicks = r.akicks
          /\ DOMAIN q.access = DOMAIN r.access
          /\ \A i \in DOMAIN r.access :
                q.access[i].who = IF r.access[i].who = c THEN NULL ELSE r.access[i].who
        BY <1>3, <2>1
    <2>3. /\ r.founder \in Alive(u) \cup {c} /\ r.successor \in Alive(u) \cup {c, NULL}
          /\ r.akicks \subseteq Alive(u) \cup {c}
          /\ \A i \in DOMAIN r.access : r.access[i].who \in Cores => r.access[i].who \in Alive(u) \cup {c}
          /\ r.founder # c /\ r.successor # c /\ c \notin r.akicks
        BY <2>1 DEF LivingBut
    <2>4. NULL \notin Cores
        BY Apart
    <2> HIDE DEF r, q
    <2> QED
        BY <1>12, <2>1, <2>2, <2>3, <2>4
<1>14. Living(f)
    BY <1>13 DEF Living
<1>15. \A x \in Open(u) : f.chan[x].founder = u.chan[x].founder
    BY <1>3, <1>6
<1> QED
    BY <1>1, <1>4, <1>5, <1>6, <1>11, <1>14, <1>15

\* An account without nicknames goes: its channels are handed on to those with
\* room for them, and nobody names it.
LEMMA DelCoreIs ==
    ASSUME NEW d, Sound(d), NEW c \in Cores, d.aliases[c] = << >>, LivingBut(d, c), NEW order \in Orders
    PROVE  LET e == DelCore(d, c, order)
           IN  /\ Sound(e) /\ Living(e) /\ e.aliases = d.aliases
               /\ e.display = [d.display EXCEPT ![c] = NULL] /\ e.na = [d.na EXCEPT ![c] = NULL]
               /\ \A x \in Founded(d, c) :
                     LET h == d.chan[x].successor
                     IN  h \in Cores \ {c} /\ d.count[h] + d.count[c] <= MaxReg
                         => x \in Open(e) /\ e.chan[x].founder = h
<1> DEFINE h == HandOn(d, c, order)
           u == Unkick(h, c, order)
           e == DelCore(d, c, order)
<1>1. e = Forget(u, c)
    BY DEF DelCore, HandOn, Unkick
<1>2. Passing(d, h, c, Chans)
    BY HandOnIs
<1> HIDE DEF h
<1>3. Sound(h)
    BY <1>2 DEF Passing
<1>4. Less(h, u) /\ Open(u) = Open(h) /\ \A x \in Open(h) : c \notin u.chan[x].akicks
    BY <1>3, UnkickIs
<1> HIDE DEF u
<1>5. Sound(u) /\ Beside(d, u) /\ Open(u) \subseteq Chans /\ LivingBut(u, c)
    <2>1. Sound(u) /\ Beside(h, u) /\ Beside(d, h) /\ LivingBut(h, c) /\ \A x \in Open(u) : Fewer(h.chan[x], u.chan[x])
        BY <1>2, <1>4 DEF Less, Passing
    <2>2. LivingBut(u, c)
        BY <1>4, <2>1, FewerBut
    <2> QED
        BY <2>1, <2>2, SoundIs DEF Beside
<1>6. ASSUME NEW x \in Open(u)
      PROVE  /\ u.chan[x].founder # c /\ u.chan[x].successor # c /\ c \notin u.chan[x].akicks
             /\ u.chan[x].founder = h.chan[x].founder
    <2>1. x \in Open(h) \cap Chans
        BY <1>4, <1>5
    <2>2. h.chan[x].founder # c /\ h.chan[x].successor # c
        BY <1>2, <2>1 DEF Passing
    <2> QED
        BY <1>4, <2>1, <2>2 DEF Less, Fewer
<1>7. u.aliases[c] = << >> /\ u.display = d.display /\ u.na = d.na /\ u.aliases = d.aliases
    BY <1>5 DEF Beside
<1> HIDE DEF e
<1>8. /\ Sound(e) /\ Living(e) /\ e.aliases = u.aliases
      /\ e.display = [u.display EXCEPT ![c] = NULL] /\ e.na = [u.na EXCEPT ![c] = NULL]
      /\ Open(e) = Open(u) /\ \A x \in Open(u) : e.chan[x].founder = u.chan[x].founder
    <2> DEFINE g == Forget(u, c)
    <2>1. \A x \in Open(u) : u.chan[x].founder # c /\ u.chan[x].successor # c /\ c \notin u.chan[x].akicks
        BY <1>6
    <2>2. Sound(u) /\ u.aliases[c] = << >> /\ LivingBut(u, c)
        BY <1>5, <1>7
    <2>3. /\ Sound(g) /\ Living(g) /\ g.aliases = u.aliases
          /\ g.display = [u.display EXCEPT ![c] = NULL] /\ g.na = [u.na EXCEPT ![c] = NULL]
          /\ Open(g) = Open(u) /\ \A x \in Open(u) : g.chan[x].founder = u.chan[x].founder
        BY <2>1, <2>2, ForgetIs
    <2> HIDE DEF g
    <2>4. e = g
        BY <1>1 DEF g
    <2> QED
        BY <2>3, <2>4
<1>9. ASSUME NEW x \in Founded(d, c), d.chan[x].successor \in Cores \ {c},
             d.count[d.chan[x].successor] + d.count[c] <= MaxReg
      PROVE  x \in Open(e) /\ e.chan[x].founder = d.chan[x].successor
    <2>1. x \in Founded(d, c) \cap Chans
        BY SoundIs DEF Founded
    <2>2. x \in Open(h) /\ h.chan[x].founder = d.chan[x].successor
        BY <1>2, <1>9, <2>1 DEF Passing
    <2> QED
        BY <1>4, <1>6, <1>8, <2>2
<1> QED
    BY <1>7, <1>8, <1>9 DEF e

-----------------------------------------------------------------------------
(* Nicknames.                                                              *)

\* The values of a sequence.
LEMMA RangeIs ==
    ASSUME NEW X, NEW s \in Seq(X)
    PROVE  /\ DOMAIN s = 1..Len(s) /\ Len(s) \in Nat /\ Range(s) \subseteq X
           /\ \A i \in 1..Len(s) : s[i] \in Range(s)
           /\ \A y \in Range(s) : \E i \in 1..Len(s) : s[i] = y
           /\ Range(s) = {} <=> s = << >>
<1>1. DOMAIN s = 1..Len(s) /\ Len(s) \in Nat /\ \A i \in 1..Len(s) : s[i] \in X
    OBVIOUS
<1>2. Range(s) = {} => s = << >>
    <2> SUFFICES ASSUME s # << >> PROVE Range(s) # {}
        OBVIOUS
    <2>1. 1 \in DOMAIN s
        OBVIOUS
    <2> QED
        BY <2>1 DEF Range
<1>3. s = << >> => Range(s) = {}
    BY DEF Range
<1> QED
    BY <1>1, <1>2, <1>3 DEF Range

\* A nickname leaves a list that has it once.
LEMMA RemoveFirstIs ==
    ASSUME NEW s \in Seq(Nicks), Once(s), NEW n \in Range(s)
    PROVE  LET t == RemoveFirst(s, n)
           IN  t \in Seq(Nicks) /\ Once(t) /\ Range(t) = Range(s) \ {n}
<1> DEFINE I == {i \in 1..Len(s) : s[i] = n}
           k == Min(I)
           t == RemoveAt(s, k)
<1>1. /\ DOMAIN s = 1..Len(s) /\ Len(s) \in Nat /\ \E i \in 1..Len(s) : s[i] = n
    BY RangeIs
<1>2. I # {} /\ I \in SUBSET (1..Len(s))
    BY <1>1
<1>3. RemoveFirst(s, n) = t
    BY <1>1, <1>2 DEF RemoveFirst, SelectInSeq
<1>4. k \in 1..Len(s) /\ s[k] = n
    <2>1. k \in I
        <3> HIDE DEF I
        <3> QED
            BY <1>1, <1>2, MinOf
    <2> QED
        BY <2>1
<1> HIDE DEF k, I
<1>5. /\ t \in Seq(Nicks) /\ Len(t) = Len(s) - 1
      /\ \A j \in 1..(Len(s) - 1) : t[j] = IF j < k THEN s[j] ELSE s[j + 1]
    BY <1>4, RemoveAtIs
<1> HIDE DEF t
<1>6. DOMAIN t = 1..(Len(s) - 1)
    BY <1>5
<1> DEFINE g(j) == IF j < k THEN j ELSE j + 1
<1>7. /\ \A j \in DOMAIN t : g(j) \in DOMAIN s /\ g(j) # k /\ t[j] = s[g(j)]
      /\ \A j, l \in DOMAIN t : g(j) = g(l) => j = l
      /\ \A i \in DOMAIN s : i # k => \E j \in DOMAIN t : g(j) = i
    <2>1. \A j \in DOMAIN t : g(j) \in DOMAIN s /\ g(j) # k /\ t[j] = s[g(j)]
        BY <1>1, <1>4, <1>5, <1>6
    <2>2. \A j, l \in DOMAIN t : g(j) = g(l) => j = l
        BY <1>1, <1>4, <1>6
    <2>3. ASSUME NEW i \in DOMAIN s, i # k PROVE \E j \in DOMAIN t : g(j) = i
        <3>1. CASE i < k
            <4>1. i \in DOMAIN t /\ g(i) = i
                BY <1>1, <1>4, <1>6, <3>1
            <4> QED
                BY <4>1
        <3>2. CASE ~(i < k)
            <4>1. i - 1 \in DOMAIN t /\ g(i - 1) = i
                BY <1>1, <1>4, <1>6, <2>3, <3>2
            <4> QED
                BY <4>1
        <3> QED
            BY <3>1, <3>2
    <2> QED
        BY <2>1, <2>2, <2>3
<1> HIDE DEF g
<1>8. Once(t)
    BY <1>7 DEF Once
<1>9. Range(t) \subseteq Range(s) \ {n}
    BY <1>1, <1>4, <1>7 DEF Once, Range
<1>10. Range(s) \ {n} \subseteq Range(t)
    BY <1>1, <1>4, <1>7 DEF Range
<1> QED
    BY <1>3, <1>5, <1>8, <1>9, <1>10

\* A nickname is added at the end of a list that has not got it.
LEMMA AppendIs ==
    ASSUME NEW s \in Seq(Nicks), Once(s), NEW n \in Nicks, n \notin Range(s)
    PROVE  LET t == Append(s, n)
           IN  t \in Seq(Nicks) /\ Once(t) /\ Range(t) = Range(s) \cup {n}
<1> DEFINE t == Append(s, n)
<1>1. /\ DOMAIN s = 1..Len(s) /\ Len(s) \in Nat /\ t \in Seq(Nicks) /\ DOMAIN t = 1..(Len(s) + 1)
      /\ t[Len(s) + 1] = n /\ \A i \in 1..Len(s) : t[i] = s[i]
    OBVIOUS
<1> HIDE DEF t
<1>2. \A i \in 1..Len(s) : s[i] # n
    BY <1>1 DEF Range
<1>3. \A i \in 1..(Len(s) + 1) : i = Len(s) + 1 \/ i \in 1..Len(s)
    BY <1>1
<1>4. \A i \in 1..Len(s) : i \in 1..(Len(s) + 1)
    BY <1>1
<1>5. Len(s) + 1 \in 1..(Len(s) + 1)
    BY <1>1
<1>6. Once(t)
    BY <1>1, <1>2, <1>3 DEF Once
<1>7. Range(t) = Range(s) \cup {n}
    BY <1>1, <1>3, <1>4, <1>5 DEF Range
<1> QED
    BY <1>1, <1>6, <1>7 DEF t

\* The account of a registered nickname, of which there is one.
LEMMA OwnerIs ==
    ASSUME NEW d \in DB, Named(d), NEW n, Registered(d, n)
    PROVE  LET c == Owner(d, n)
           IN  /\ c \in Cores /\ n \in Range(d.aliases[c]) /\ c \in Alive(d) /\ n \in Nicks
               /\ d.aliases[c] \in Seq(Nicks) /\ Once(d.aliases[c])
               /\ \A e \in Cores : n \in Range(d.aliases[e]) => e = c
<1>1. Owner(d, n) \in Owners(d, n)
    BY DEF Registered, Owner
<1> DEFINE c == Owner(d, n)
<1>2. c \in Cores /\ n \in Range(d.aliases[c])
    BY <1>1 DEF Owners
<1> HIDE DEF c
<1>3. d.aliases[c] \in Seq(Nicks)
    BY <1>2 DEF DB
<1>4. n \in Nicks /\ d.aliases[c] # << >>
    BY <1>2, <1>3, RangeIs
<1>5. \A e \in Cores : n \in Range(d.aliases[e]) => e = c
    BY <1>2 DEF Named
<1> QED
    BY <1>2, <1>3, <1>4, <1>5 DEF c, Alive, Named

\* The channels do not notice a change of the accounts' nicknames.
LEMMA NicksChange ==
    ASSUME NEW d, Sound(d), NEW e \in DB, e.refs = d.refs, e.chan = d.chan, e.count = d.count
    PROVE  /\ Sound(e) /\ Open(e) = Open(d) /\ \A c \in Cores : Founded(e, c) = Founded(d, c)
           /\ Living(d) /\ Alive(d) \subseteq Alive(e) => Living(e)
           /\ \A c : Living(d) /\ Alive(d) \subseteq Alive(e) \cup {c} => LivingBut(e, c)
<1>1. Open(e) = Open(d)
    BY DEF Open
<1>2. \A c \in Cores : Founded(e, c) = Founded(d, c)
    BY <1>1 DEF Founded
<1>3. \A w, x : Uses(e, w, x) = Uses(d, w, x)
    BY <1>1 DEF Uses
<1>4. Sound(e)
    BY <1>1, <1>2, <1>3 DEF Sound
<1>5. Living(d) /\ Alive(d) \subseteq Alive(e) => Living(e)
    BY <1>1 DEF Living
<1>6. ASSUME NEW c, Living(d), Alive(d) \subseteq Alive(e) \cup {c} PROVE LivingBut(e, c)
    BY <1>1, <1>6 DEF Living, LivingBut
<1> QED
    BY <1>1, <1>2, <1>4, <1>5, <1>6

\* The parts of Sound, Living and Named that the commands keep.
Consistent(d) == Sound(d) /\ Living(d) /\ Named(d)

\* What happens to the channels of an account that goes from d to e.
Transfer(d, e) ==
    \A x \in Open(d) :
       LET c == d.chan[x].founder
           s == d.chan[x].successor
       IN ( /\ c \in Alive(d) /\ e.aliases[c] = << >>
            /\ s \in Alive(d) \ {c} /\ d.count[s] + d.count[c] <= MaxReg )
          => x \in Open(e) /\ e.chan[x].founder = s

\* What SetDisplay() changes, and what it leaves alone.
LEMMA SetDisplayIs ==
    ASSUME NEW d \in DB, NEW c \in Cores, NEW n \in Nicks
    PROVE  LET e == SetDisplay(d, c, n)
           IN  /\ e \in DB /\ e.refs = d.refs /\ e.chan = d.chan /\ e.count = d.count /\ e.aliases = d.aliases
               /\ \A b \in Cores \ {c} : e.display[b] = d.display[b] /\ e.na[b] = d.na[b]
               /\ e.display[c] = n
               /\ e.na[c] = IF n = d.display[c] THEN d.na[c] ELSE n
<1> DEFINE e == SetDisplay(d, c, n)
<1>1. CASE n = d.display[c]
    BY <1>1 DEF SetDisplay
<1>2. CASE n # d.display[c]
    <2> DEFINE D == [d.display EXCEPT ![c] = n]
               N == [d.na EXCEPT ![c] = n]
    <2>1. e = [d EXCEPT !.display = D, !.na = N]
        BY <1>2 DEF SetDisplay
    <2>2. /\ D \in [Cores -> Nicks \cup {NULL}] /\ N \in [Cores -> Nicks \cup {NULL}]
          /\ D[c] = n /\ N[c] = n /\ \A b \in Cores \ {c} : D[b] = d.display[b] /\ N[b] = d.na[b]
        BY DEF DB
    <2> HIDE DEF D, N, e
    <2>3. /\ e \in DB /\ e.refs = d.refs /\ e.chan = d.chan /\ e.count = d.count /\ e.aliases = d.aliases
          /\ e.display = D /\ e.na = N
        BY <2>1, <2>2 DEF DB
    <2> QED
        BY <1>2, <2>2, <2>3 DEF e
<1> QED
    BY <1>1, <1>2

\* A nickname goes, and with the last one its account.
LEMMA DelNickIs ==
    ASSUME NEW d, Consistent(d), NEW n, Registered(d, n), NEW order \in Orders
    PROVE  LET e == DelNick(d, n, order)
           IN  /\ Consistent(e) /\ Transfer(d, e) /\ ~Registered(e, n)
               /\ \A c \in Cores : Range(e.aliases[c]) = Range(d.aliases[c]) \ {n}
<1> DEFINE c == Owner(d, n)
           t == RemoveFirst(d.aliases[c], n)
           A == [d.aliases EXCEPT ![c] = t]
           left == [d EXCEPT !.aliases = A]
           e == DelNick(d, n, order)
<1>1. Sound(d) /\ Living(d) /\ Named(d) /\ d \in DB
    BY SoundIs DEF Consistent
<1>2. /\ c \in Cores /\ n \in Range(d.aliases[c]) /\ c \in Alive(d) /\ n \in Nicks
      /\ d.aliases[c] \in Seq(Nicks) /\ Once(d.aliases[c])
      /\ \A b \in Cores : n \in Range(d.aliases[b]) => b = c
    BY <1>1, OwnerIs
<1>3. /\ e = IF left.aliases[c] = << >> THEN DelCore(left, c, order)
             ELSE IF d.na[c] = n THEN SetDisplay(left, c, Oldest(left, c)) ELSE left
    BY DEF DelNick
<1> HIDE DEF c
<1>4. t \in Seq(Nicks) /\ Once(t) /\ Range(t) = Range(d.aliases[c]) \ {n}
    BY <1>2, RemoveFirstIs
<1> HIDE DEF t
<1>5. /\ A \in [Cores -> Seq(Nicks)] /\ A[c] = t /\ \A b \in Cores \ {c} : A[b] = d.aliases[b]
    BY <1>1, <1>2, <1>4 DEF DB
<1> HIDE DEF A
<1>6. /\ left \in DB /\ left.refs = d.refs /\ left.chan = d.chan /\ left.count = d.count
      /\ left.display = d.display /\ left.na = d.na /\ left.aliases = A
    BY <1>1, <1>5 DEF DB
<1> HIDE DEF left, e
<1>7. /\ Sound(left) /\ Open(left) = Open(d) /\ Founded(left, c) = Founded(d, c)
      /\ Alive(d) \subseteq Alive(left) \cup {c} /\ LivingBut(left, c)
      /\ t # << >> => Living(left) /\ Alive(left) = Alive(d)
    <2>1. Alive(d) \subseteq Alive(left) \cup {c}
        BY <1>5, <1>6 DEF Alive
    <2>2. t # << >> => Alive(left) = Alive(d)
        BY <1>2, <1>5, <1>6 DEF Alive
    <2> QED
        BY <1>1, <1>2, <1>6, <2>1, <2>2, NicksChange
<1>8. \A b \in Cores : Once(A[b]) /\ Range(A[b]) = Range(d.aliases[b]) \ {n}
    BY <1>1, <1>2, <1>4, <1>5 DEF Named
<1>9. \A b, f \in Cores : b # f => Range(A[b]) \cap Range(A[f]) = {}
    BY <1>1, <1>8 DEF Named
<1>10. ASSUME e.aliases = A PROVE ~Registered(e, n) /\ \A b \in Cores : Range(e.aliases[b]) = Range(d.aliases[b]) \ {n}
    BY <1>8, <1>10 DEF Registered, Owners
<1>11. \A b \in Cores \ {c} : A[b] = d.aliases[b] /\ (d.na[b] # NULL => d.na[b] = d.display[b] /\ d.display[b] \in Range(A[b]))
    BY <1>1, <1>5 DEF Named
<1>12. CASE t = << >>
    <2>1. e = DelCore(left, c, order)
        BY <1>3, <1>5, <1>6, <1>12
    <2>2. /\ Sound(e) /\ Living(e) /\ e.aliases = left.aliases
          /\ e.display = [left.display EXCEPT ![c] = NULL] /\ e.na = [left.na EXCEPT ![c] = NULL]
          /\ \A x \in Founded(left, c) :
                LET h == left.chan[x].successor
                IN  h \in Cores \ {c} /\ left.count[h] + left.count[c] <= MaxReg
                    => x \in Open(e) /\ e.chan[x].founder = h
        <3>1. left.aliases[c] = << >>
            BY <1>5, <1>6, <1>12
        <3>2. c \in Cores /\ Sound(left) /\ LivingBut(left, c)
            BY <1>2, <1>7
        <3> QED
            BY <2>1, <3>1, <3>2, DelCoreIs
    <2>3. /\ e.aliases = A /\ e.display[c] = NULL /\ e.na[c] = NULL
          /\ \A b \in Cores \ {c} : e.display[b] = d.display[b] /\ e.na[b] = d.na[b]
        BY <1>1, <1>2, <1>6, <2>2 DEF DB
    <2>4. Named(e)
        <3>1. \A b \in Cores : e.na[b] # NULL => e.na[b] = e.display[b] /\ e.display[b] \in Range(e.aliases[b])
            BY <1>11, <2>3
        <3>2. \A b \in Cores \ Alive(e) : e.display[b] = NULL /\ e.na[b] = NULL
            BY <1>1, <1>11, <2>3 DEF Named, Alive
        <3> QED
            BY <1>8, <1>9, <2>3, <3>1, <3>2 DEF Named
    <2>5. Transfer(d, e)
        <3> SUFFICES ASSUME NEW x \in Open(d), d.chan[x].founder \in Alive(d), e.aliases[d.chan[x].founder] = << >>,
                            d.chan[x].successor \in Alive(d) \ {d.chan[x].founder},
                            d.count[d.chan[x].successor] + d.count[d.chan[x].founder] <= MaxReg
                     PROVE  x \in Open(e) /\ e.chan[x].founder = d.chan[x].successor
            BY DEF Transfer
        <3>1. d.chan[x].founder = c
            BY <1>5, <2>3 DEF Alive
        <3>2. x \in Founded(left, c) /\ d.chan[x].successor \in Cores \ {c}
            BY <1>7, <3>1 DEF Founded, Alive
        <3> QED
            BY <1>6, <2>2, <3>1, <3>2
    <2> QED
        BY <1>10, <2>2, <2>3, <2>4, <2>5 DEF Consistent, e
<1>13. CASE t # << >>
    <2>1. Transfer(d, e) \/ e.aliases # A
        <3> SUFFICES ASSUME e.aliases = A PROVE Transfer(d, e)
            OBVIOUS
        <3>1. \A b \in Alive(d) : A[b] # << >>
            BY <1>2, <1>5, <1>13 DEF Alive
        <3> QED
            BY <3>1 DEF Transfer
    <2>2. CASE d.na[c] # n
        <3>1. e = left
            BY <1>3, <1>5, <1>6, <1>13, <2>2
        <3>2. Named(e)
            <4>1. \A b \in Cores : d.na[b] # NULL => d.na[b] = d.display[b] /\ d.display[b] \in Range(A[b])
                BY <1>1, <1>8, <1>11, <2>2 DEF Named
            <4>2. \A b \in Cores \ Alive(e) : d.display[b] = NULL /\ d.na[b] = NULL
                BY <1>1, <1>7, <1>13, <3>1 DEF Named
            <4> QED
                BY <1>6, <1>8, <1>9, <3>1, <4>1, <4>2 DEF Named
        <3> QED
            BY <1>6, <1>7, <1>10, <1>13, <2>1, <3>1, <3>2 DEF Consistent, e
    <2>3. CASE d.na[c] = n
        <3> DEFINE o == Oldest(left, c)
        <3>1. e = SetDisplay(left, c, o)
            BY <1>3, <1>5, <1>6, <1>13, <2>3
        <3>2. o \in Range(t) /\ o \in Nicks /\ o # n
            <4>1. o = t[1] /\ 1 \in 1..Len(t)
                BY <1>4, <1>5, <1>6, <1>13 DEF Oldest
            <4> QED
                BY <1>4, <4>1, RangeIs
        <3> HIDE DEF o
        <3>3. d.display[c] = n
            BY <1>1, <1>2, <2>3, Apart DEF Named
        <3>4. /\ e \in DB /\ e.refs = left.refs /\ e.chan = left.chan /\ e.count = left.count /\ e.aliases = left.aliases
              /\ \A b \in Cores \ {c} : e.display[b] = left.display[b] /\ e.na[b] = left.na[b]
              /\ e.display[c] = o /\ e.na[c] = o
            <4> HIDE DEF left, e
            <4>1. left \in DB /\ left.display[c] = n /\ c \in Cores
                BY <1>2, <1>6, <3>3
            <4> QED
                BY <3>1, <3>2, <4>1, SetDisplayIs
        <3>5. Alive(e) = Alive(left)
            BY <3>4 DEF Alive
        <3>6. Sound(e) /\ Living(e)
            BY <1>7, <1>13, <3>4, <3>5, NicksChange
        <3>7. Named(e)
            <4>1. \A b \in Cores : e.na[b] # NULL => e.na[b] = e.display[b] /\ e.display[b] \in Range(e.aliases[b])
                BY <1>5, <1>6, <1>11, <3>2, <3>4
            <4>2. \A b \in Cores \ Alive(e) : e.display[b] = NULL /\ e.na[b] = NULL
                BY <1>1, <1>2, <1>6, <1>7, <1>13, <3>4, <3>5 DEF Named
            <4> QED
                BY <1>6, <1>8, <1>9, <3>4, <4>1, <4>2 DEF Named
        <3> QED
            BY <1>6, <1>10, <2>1, <3>4, <3>6, <3>7 DEF Consistent, e
    <2> QED
        BY <2>2, <2>3
<1> QED
    BY <1>12, <1>13

\* A nickname that nobody has joins an account.
LEMMA NewAliasIs ==
    ASSUME NEW d, Consistent(d), NEW n \in Nicks, ~Registered(d, n), NEW c \in Alive(d)
    PROVE  LET e == NewAlias(d, n, c)
           IN  /\ Consistent(e) /\ e.chan = d.chan
               /\ Range(e.aliases[c]) = Range(d.aliases[c]) \cup {n}
               /\ \A b \in Cores \ {c} : e.aliases[b] = d.aliases[b]
<1> DEFINE t == Append(d.aliases[c], n)
           A == [d.aliases EXCEPT ![c] = t]
           N == [d.na EXCEPT ![c] = IF d.display[c] = n THEN n ELSE d.na[c]]
           e == [d EXCEPT !.aliases = A, !.na = N]
<1>1. Sound(d) /\ Living(d) /\ Named(d) /\ d \in DB /\ c \in Cores
    BY SoundIs DEF Consistent, Alive
<1>2. NewAlias(d, n, c) = e
    BY DEF NewAlias
<1>3. d.aliases[c] \in Seq(Nicks) /\ Once(d.aliases[c]) /\ \A b \in Cores : n \notin Range(d.aliases[b])
    BY <1>1 DEF DB, Named, Registered, Owners
<1>4. t \in Seq(Nicks) /\ Once(t) /\ Range(t) = Range(d.aliases[c]) \cup {n} /\ t # << >>
    <2>1. t \in Seq(Nicks) /\ Once(t) /\ Range(t) = Range(d.aliases[c]) \cup {n}
        BY <1>1, <1>3, AppendIs
    <2> HIDE DEF t
    <2> QED
        BY <2>1, RangeIs
<1> HIDE DEF t
<1>5. A \in [Cores -> Seq(Nicks)] /\ A[c] = t /\ \A b \in Cores \ {c} : A[b] = d.aliases[b]
    BY <1>1, <1>4 DEF DB
<1>6. /\ N \in [Cores -> Nicks \cup {NULL}] /\ N[c] = (IF d.display[c] = n THEN n ELSE d.na[c])
      /\ \A b \in Cores \ {c} : N[b] = d.na[b]
    BY <1>1 DEF DB
<1> HIDE DEF A, N
<1>7. /\ e \in DB /\ e.refs = d.refs /\ e.chan = d.chan /\ e.count = d.count
      /\ e.display = d.display /\ e.na = N /\ e.aliases = A
    BY <1>1, <1>5, <1>6 DEF DB
<1> HIDE DEF e
<1>8. Alive(e) = Alive(d)
    BY <1>4, <1>5, <1>7 DEF Alive
<1>9. Sound(e) /\ Living(e)
    BY <1>1, <1>7, <1>8, NicksChange
<1>10. \A b \in Cores : Once(A[b]) /\ Range(A[b]) = IF b = c THEN Range(d.aliases[b]) \cup {n} ELSE Range(d.aliases[b])
    BY <1>1, <1>4, <1>5 DEF Named
<1>11. ASSUME NEW b \in Cores, NEW f \in Cores, b # f PROVE Range(A[b]) \cap Range(A[f]) = {}
    <2>1. /\ Range(d.aliases[b]) \cap Range(d.aliases[f]) = {}
          /\ n \notin Range(d.aliases[b]) /\ n \notin Range(d.aliases[f])
        BY <1>1, <1>3, <1>11 DEF Named
    <2>2. CASE b # c /\ f # c
        BY <1>10, <2>1, <2>2
    <2>3. CASE b = c
        BY <1>10, <1>11, <2>1, <2>3
    <2>4. CASE f = c
        BY <1>10, <1>11, <2>1, <2>4
    <2> QED
        BY <2>2, <2>3, <2>4
<1>12. ASSUME NEW b \in Cores, N[b] # NULL PROVE N[b] = d.display[b] /\ d.display[b] \in Range(A[b])
    <2>1. d.na[b] # NULL => d.na[b] = d.display[b] /\ d.display[b] \in Range(d.aliases[b])
        BY <1>1 DEF Named
    <2>2. CASE b # c
        BY <1>6, <1>10, <1>12, <2>1, <2>2
    <2>3. CASE b = c
        <3>1. CASE d.display[c] = n
            BY <1>6, <1>10, <2>3, <3>1
        <3>2. CASE d.display[c] # n
            BY <1>6, <1>10, <1>12, <2>1, <2>3, <3>2
        <3> QED
            BY <3>1, <3>2
    <2> QED
        BY <2>2, <2>3
<1>13. \A b \in Cores \ Alive(e) : d.display[b] = NULL /\ N[b] = NULL
    BY <1>1, <1>6, <1>8 DEF Named
<1>14. Named(e)
    BY <1>7, <1>10, <1>11, <1>12, <1>13 DEF Named
<1> QED
    BY <1>2, <1>4, <1>5, <1>7, <1>9, <1>14 DEF Consistent

-----------------------------------------------------------------------------
(* Commands that delete no account.                                        *)

\* Everything that an account or a channel was named by stays.
Steady(d, e) ==
    /\ Consistent(e) /\ \A c \in Alive(d) : e.aliases[c] # << >>
    /\ \A n : Registered(d, n) => Registered(e, n)

\* Then no channel has to be handed on.
LEMMA SteadyTransfer == ASSUME NEW d, NEW e, Steady(d, e) PROVE Transfer(d, e)
BY DEF Steady, Transfer

\* A command that leaves the nicknames alone.
LEMMA SteadyIs ==
    ASSUME NEW d, Consistent(d), NEW e, Sound(e), Living(e), Beside(d, e)
    PROVE  Steady(d, e)
<1>1. Named(d) /\ e.aliases = d.aliases /\ e.display = d.display /\ e.na = d.na
    BY DEF Consistent, Beside
<1>2. Alive(e) = Alive(d)
    BY <1>1 DEF Alive
<1>3. Named(e)
    BY <1>1, <1>2 DEF Named
<1>4. \A c \in Alive(d) : e.aliases[c] # << >>
    BY <1>1 DEF Alive
<1>5. \A n : Registered(d, n) => Registered(e, n)
    BY <1>1 DEF Registered, Owners
<1> QED
    BY <1>3, <1>4, <1>5 DEF Consistent, Steady

\* The accounts that the record of a channel names have nicknames.
AllAlive(d, r) ==
    /\ r.founder \in Alive(d) /\ r.successor \in Alive(d) \cup {NULL} /\ r.akicks \subseteq Alive(d)
    /\ \A i \in DOMAIN r.access : r.access[i].who \in Cores => r.access[i].who \in Alive(d)

\* A channel whose record is replaced by one that names accounts with nicknames.
LEMMA PutLiving ==
    ASSUME NEW d, Sound(d), Living(d), NEW x \in Open(d), NEW r \in ChanInfo, NEW e, Put(d, e, x, r),
           AllAlive(d, r)
    PROVE  Living(e)
<1>1. /\ Open(e) = Open(d) /\ Beside(d, e) /\ e.chan[x] = r
      /\ \A y \in Chans : y # x => e.chan[y] = d.chan[y]
    BY PutIs
<1>2. Alive(e) = Alive(d)
    BY <1>1 DEF Alive, Beside
<1>3. \A y \in Open(d) : AllAlive(d, d.chan[y])
    BY DEF Living, AllAlive
<1>4. ASSUME NEW y \in Open(e) PROVE AllAlive(d, e.chan[y])
    <2>1. y \in Chans /\ y \in Open(d)
        BY <1>1, SoundIs
    <2> QED
        BY <1>1, <1>3, <2>1
<1>5. \A y \in Open(e) : AllAlive(e, e.chan[y])
    BY <1>2, <1>4 DEF AllAlive
<1> QED
    BY <1>5 DEF Living, AllAlive

\* Where channels only lose entries, no dead account comes in.
LEMMA LessLiving == ASSUME NEW d, NEW e, Less(d, e), Living(d) PROVE Living(e)
<1>1. Alive(e) = Alive(d)
    BY DEF Less, Beside, Alive
<1>2. ASSUME NEW x \in Open(e) PROVE AllAlive(d, e.chan[x])
    <2>1. AllAlive(d, d.chan[x]) /\ Fewer(d.chan[x], e.chan[x])
        BY DEF Less, Living, AllAlive
    <2> DEFINE r == d.chan[x]
               q == e.chan[x]
               A == Alive(d)
    <2>2. AllAlive(d, r) /\ Fewer(r, q)
        BY <2>1
    <2> HIDE DEF r, q
    <2>3. AllAlive(d, q)
        BY <2>2 DEF AllAlive, Fewer
    <2> QED
        BY <2>3 DEF q
<1>3. \A y \in Open(e) : AllAlive(e, e.chan[y])
    BY <1>1, <1>2 DEF AllAlive
<1> QED
    BY <1>3 DEF Living, AllAlive

\* A command that only takes away from channels.
LEMMA LessSteady == ASSUME NEW d, Consistent(d), NEW e, Less(d, e) PROVE Steady(d, e)
BY LessLiving, SteadyIs DEF Consistent, Less

\* A command that rewrites one channel.
LEMMA PutSteady ==
    ASSUME NEW d, Consistent(d), NEW x \in Open(d), NEW r \in ChanInfo, NEW e, Put(d, e, x, r), AllAlive(d, r)
    PROVE  Steady(d, e)
BY PutLiving, SteadyIs DEF Consistent, Put

-----------------------------------------------------------------------------
(* The commands for one channel.                                           *)

\* SET FOUNDER.
LEMMA GiveChanIs ==
    ASSUME NEW d, Consistent(d), NEW x \in Open(d), NEW c \in Alive(d), Below(d, c)
    PROVE  Steady(d, SetFounder(d, x, c))
<1> DEFINE r == [d.chan[x] EXCEPT !.founder = c]
<1>1. Sound(d) /\ c \in Cores /\ AllAlive(d, d.chan[x]) /\ d.chan[x] \in ChanInfo
    BY SoundIs DEF Consistent, Living, AllAlive, Alive
<1>2. Put(d, SetFounder(d, x, c), x, r)
    BY <1>1, SetFounderIs
<1>3. r \in ChanInfo /\ AllAlive(d, r)
    BY <1>1 DEF ChanInfo, AllAlive
<1> HIDE DEF r
<1> QED
    BY <1>2, <1>3, PutSteady

\* SET SUCCESSOR.
LEMMA NameSuccessorIs ==
    ASSUME NEW d, Consistent(d), NEW x \in Open(d), NEW c \in Alive(d) \cup {NULL}
    PROVE  Steady(d, SetSuccessor(d, x, c))
<1> DEFINE r == [d.chan[x] EXCEPT !.successor = c]
<1>1. Sound(d) /\ c \in Cores \cup {NULL} /\ AllAlive(d, d.chan[x]) /\ d.chan[x] \in ChanInfo
    BY SoundIs DEF Consistent, Living, AllAlive, Alive
<1>2. Put(d, SetSuccessor(d, x, c), x, r)
    BY <1>1, SetSuccessorIs
<1>3. r \in ChanInfo /\ AllAlive(d, r)
    BY <1>1 DEF ChanInfo, AllAlive
<1> HIDE DEF r
<1> QED
    BY <1>2, <1>3, PutSteady

\* AKICK ADD.
LEMMA AkickIs ==
    ASSUME NEW d, Consistent(d), NEW x \in Open(d), NEW c \in Alive(d), c \notin d.chan[x].akicks
    PROVE  Steady(d, AddAkick(d, x, c))
<1> DEFINE r == [d.chan[x] EXCEPT !.akicks = @ \cup {c}]
<1>1. Sound(d) /\ c \in Cores /\ AllAlive(d, d.chan[x]) /\ d.chan[x] \in ChanInfo
    BY SoundIs DEF Consistent, Living, AllAlive, Alive
<1>2. Put(d, AddAkick(d, x, c), x, r)
    BY <1>1, AddAkickIs
<1>3. r \in ChanInfo /\ AllAlive(d, r)
    BY <1>1 DEF ChanInfo, AllAlive
<1> HIDE DEF r
<1> QED
    BY <1>2, <1>3, PutSteady

\* AKICK DEL.
LEMMA AkickDelIs ==
    ASSUME NEW d, Consistent(d), NEW x \in Open(d), NEW c
    PROVE  Steady(d, EraseAkick(d, x, c))
BY EraseAkickLess, LessSteady DEF Consistent

\* DROP and the expiry of a channel.
LEMMA DropChanIs ==
    ASSUME NEW d, Consistent(d), NEW x \in Open(d)
    PROVE  Steady(d, DelChan(d, x))
BY DelChanIs, LessSteady DEF Consistent

\* One entry of an access list is erased.
LEMMA EraseIs ==
    ASSUME NEW d, Consistent(d), NEW x \in Open(d), NEW i \in 1..Len(d.chan[x].access)
    PROVE  LET e == EraseEntry(d, x, i)
           IN  /\ Less(d, e) /\ Open(e) = Open(d) /\ Steady(d, e)
               /\ e.chan[x].access = RemoveAt(d.chan[x].access, i)
<1> DEFINE a == d.chan[x].access
           r == [d.chan[x] EXCEPT !.access = RemoveAt(a, i)]
           e == EraseEntry(d, x, i)
<1>1. Sound(d) /\ d.chan[x] \in ChanInfo /\ a \in Seq(Entry) /\ ListOK(d, a)
    BY SoundIs, InfoType DEF Consistent
<1>2. Put(d, e, x, r)
    BY <1>1, EraseEntryIs
<1>3. /\ RemoveAt(a, i) \in Seq(Entry)
      /\ \A j \in DOMAIN RemoveAt(a, i) : \E k \in DOMAIN a : k # i /\ RemoveAt(a, i)[j] = a[k]
    BY <1>1, ListRemove
<1>4. r \in ChanInfo /\ Fewer(d.chan[x], r) /\ r.access = RemoveAt(a, i)
    BY <1>1, <1>3 DEF ChanInfo, Fewer
<1> HIDE DEF r, e
<1>5. Less(d, e) /\ Open(e) = Open(d) /\ e.chan[x] = r
    BY <1>1, <1>2, <1>4, PutLess, PutIs
<1> QED
    BY <1>4, <1>5, LessSteady DEF e

\* Two parts of a command.
LEMMA SteadyAgain == ASSUME NEW d, NEW e, NEW f, Steady(d, e), Steady(e, f) PROVE Steady(d, f)
BY DEF Steady, Alive

\* A command that changes nothing.
LEMMA SteadySame == ASSUME NEW d, Consistent(d) PROVE Steady(d, d)
BY DEF Steady, Alive

\* What SetMask() makes of a name: an account with nicknames, an open channel, a
\* nickname that nobody has, or nothing.
LEMMA SetMaskIs ==
    ASSUME NEW d, Consistent(d), NEW m \in Nicks \cup Chans \cup {NULL}, m \in Chans => m \in Open(d)
    PROVE  /\ SetMask(d, m) \in Cores \cup Chans \cup Nicks \cup {NULL}
           /\ SetMask(d, m) \in Cores => SetMask(d, m) \in Alive(d)
           /\ SetMask(d, m) \in Chans => SetMask(d, m) \in Open(d) /\ SetMask(d, m) = m
           /\ m \in Chans => SetMask(d, m) = m
<1>1. d \in DB /\ Named(d)
    BY SoundIs DEF Consistent
<1>2. CASE m \in Nicks /\ Registered(d, m)
    <2>1. SetMask(d, m) = Owner(d, m)
        BY <1>2 DEF SetMask
    <2>2. Owner(d, m) \in Cores /\ Owner(d, m) \in Alive(d)
        BY <1>1, <1>2, OwnerIs
    <2> QED
        BY <1>2, <2>1, <2>2, Apart
<1>3. CASE ~(m \in Nicks /\ Registered(d, m))
    <2>1. SetMask(d, m) = m
        BY <1>3 DEF SetMask
    <2> QED
        BY <2>1, Apart
<1> QED
    BY <1>2, <1>3

\* An entry is added to a list that does not name the same channel.
LEMMA AddIs ==
    ASSUME NEW d, Consistent(d), NEW x \in Open(d), NEW m \in Nicks \cup Chans \cup {NULL}, m \in Chans => m \in Open(d),
           NEW level \in Levels, Len(d.chan[x].access) < MaxAccess,
           m \in Chans => Hits(d.chan[x].access, m) = {}
    PROVE  Steady(d, AddEntry(d, x, m, level)) /\ Open(AddEntry(d, x, m, level)) = Open(d)
<1> DEFINE w == SetMask(d, m)
           a == d.chan[x].access
           e == [who |-> w, level |-> level]
           b == Append(a, e)
           r == [d.chan[x] EXCEPT !.access = b]
<1>1. Sound(d) /\ AllAlive(d, d.chan[x]) /\ d.chan[x] \in ChanInfo /\ a \in Seq(Entry)
    BY SoundIs, InfoType DEF Consistent, Living, AllAlive
<1>2. /\ w \in Cores \cup Chans \cup Nicks \cup {NULL}
      /\ w \in Cores => w \in Alive(d)
      /\ w \in Chans => w \in Open(d) /\ Hits(a, w) = {}
    BY SetMaskIs
<1>3. Put(d, AddEntry(d, x, m, level), x, r)
    BY <1>1, <1>2, AddEntryIs
<1> HIDE DEF w
<1>4. e \in Entry /\ e.who = w
    BY <1>2 DEF Entry
<1> HIDE DEF e, a
<1>5. b \in Seq(Entry) /\ \A i \in DOMAIN b : b[i] = e \/ \E k \in DOMAIN a : b[i] = a[k]
    BY <1>1, <1>4
<1>6. /\ r \in ChanInfo /\ r.founder = d.chan[x].founder /\ r.successor = d.chan[x].successor
      /\ r.akicks = d.chan[x].akicks /\ r.access = b
    BY <1>1, <1>5 DEF ChanInfo
<1> HIDE DEF b, r
<1>7. \A i \in DOMAIN b : b[i].who \in Cores => b[i].who \in Alive(d)
    BY <1>1, <1>2, <1>4, <1>5 DEF AllAlive, a
<1>8. AllAlive(d, r)
    BY <1>1, <1>6, <1>7 DEF AllAlive
<1> QED
    BY <1>1, <1>3, <1>6, <1>8, PutSteady, PutIs

\* An entry for the same name makes way first.
LEMMA ReplaceIs ==
    ASSUME NEW d, Consistent(d), NEW x \in Open(d), NEW m \in Nicks \cup Chans, m \in Chans => m \in Open(d),
           NEW level \in Levels, NEW i \in 0..Len(d.chan[x].access),
           m \in Chans => IF i = 0 THEN Hits(d.chan[x].access, m) = {} ELSE d.chan[x].access[i].who = m
    PROVE  LET rid == IF i = 0 THEN d ELSE EraseEntry(d, x, i)
           IN  Steady(d, IF Len(rid.chan[x].access) >= MaxAccess THEN rid ELSE AddEntry(rid, x, m, level))
<1> DEFINE a == d.chan[x].access
           rid == IF i = 0 THEN d ELSE EraseEntry(d, x, i)
           e == IF Len(rid.chan[x].access) >= MaxAccess THEN rid ELSE AddEntry(rid, x, m, level)
<1>1. a \in Seq(Entry) /\ ListOK(d, a) /\ Open(d) \subseteq Chans /\ Sound(d)
    BY SoundIs, InfoType DEF Consistent
<1>2. Steady(d, rid) /\ Open(rid) = Open(d) /\ (m \in Chans => Hits(rid.chan[x].access, m) = {})
    <2>1. CASE i = 0
        BY <2>1, SteadySame
    <2>2. CASE i # 0
        <3>1. i \in 1..Len(a)
            BY <1>1, <2>2
        <3>2. /\ Open(rid) = Open(d) /\ Steady(d, rid) /\ rid.chan[x].access = RemoveAt(a, i)
            BY <2>2, <3>1, EraseIs
        <3>3. ASSUME m \in Chans PROVE Hits(RemoveAt(a, i), m) = {}
            <4>1. \A j \in DOMAIN RemoveAt(a, i) : \E k \in DOMAIN a : k # i /\ RemoveAt(a, i)[j] = a[k]
                BY <1>1, <3>1, ListRemove
            <4>2. a[i].who = m /\ i \in DOMAIN a
                BY <1>1, <2>2, <3>1, <3>3
            <4>3. \A k \in DOMAIN a : a[k].who = m => k = i
                BY <1>1, <3>3, <4>2 DEF ListOK
            <4> QED
                BY <4>1, <4>3 DEF Hits
        <3> QED
            BY <3>2, <3>3
    <2> QED
        BY <2>1, <2>2
<1> HIDE DEF rid
<1>3. Consistent(rid) /\ Sound(rid) /\ rid.chan[x] \in ChanInfo /\ rid.chan[x].access \in Seq(Entry)
    BY <1>2, SoundIs, InfoType DEF Steady, Consistent
<1>4. Steady(rid, e)
    <2> DEFINE n == Len(rid.chan[x].access)
    <2>1. n \in Nat /\ MaxAccess \in Nat
        BY <1>3, Limits
    <2> HIDE DEF n
    <2>2. CASE n >= MaxAccess
        BY <1>3, <2>2, SteadySame DEF n
    <2>3. CASE n < MaxAccess
        <3>1. ~(n >= MaxAccess)
            BY <2>1, <2>3
        <3>2. Steady(rid, AddEntry(rid, x, m, level))
            BY <1>2, <1>3, <2>3, AddIs DEF n
        <3> QED
            BY <3>1, <3>2 DEF n
    <2> QED
        BY <2>1, <2>2, <2>3
<1> HIDE DEF e
<1>5. Steady(d, e)
    BY <1>2, <1>4, SteadyAgain
<1> QED
    BY <1>5 DEF e, rid

-----------------------------------------------------------------------------
(* CLONE.                                                                  *)

\* One entry of CLONE ACCESS.
CopyOne(e, y, entry) ==
    LET m == Mask(e, entry.who) IN
    IF \/ Len(e.chan[y].access) >= MaxAccess
       \/ \E i \in DOMAIN e.chan[y].access : Mask(e, e.chan[y].access[i].who) = m
    THEN e ELSE AddEntry(e, y, m, entry.level)

\* An entry that is copied is added unless the list has one that reads the same.
LEMMA CopyOneIs ==
    ASSUME NEW d, Consistent(d), NEW y \in Open(d), NEW entry \in Entry,
           entry.who \in Chans => entry.who \in Open(d)
    PROVE  LET e == CopyOne(d, y, entry)
           IN  Steady(d, e) /\ Open(e) = Open(d)
<1> DEFINE a == d.chan[y].access
           m == Mask(d, entry.who)
           e == CopyOne(d, y, entry)
           Refused == Len(a) >= MaxAccess \/ \E i \in DOMAIN a : Mask(d, a[i].who) = m
<1>1. d \in DB /\ a \in Seq(Entry) /\ Len(a) \in Nat /\ Sound(d) /\ DOMAIN a = 1..Len(a)
    BY SoundIs, InfoType DEF Consistent
<1>2. CASE Refused
    <2>1. e = d
        BY <1>2 DEF CopyOne
    <2> QED
        BY <2>1, SteadySame
<1>3. CASE ~Refused
    <2>1. e = AddEntry(d, y, m, entry.level)
        BY <1>3 DEF CopyOne
    <2>2. /\ m \in Nicks \cup Chans \cup {NULL} /\ entry.level \in Levels
          /\ m \in Chans => m = entry.who
        BY <1>1, Apart DEF Mask, DB, Entry
    <2>3. ASSUME m \in Chans PROVE Hits(a, m) = {}
        BY <1>3, <2>3, Apart DEF Hits, Mask
    <2>4. Len(a) < MaxAccess
        <3> DEFINE n == Len(a)
        <3>1. n \in Nat /\ MaxAccess \in Nat /\ ~(n >= MaxAccess)
            BY <1>1, <1>3, Limits
        <3> HIDE DEF n
        <3>2. n < MaxAccess
            BY <3>1
        <3> QED
            BY <3>2 DEF n
    <2> HIDE DEF m, e
    <2> QED
        BY <2>1, <2>2, <2>3, <2>4, AddIs DEF e
<1> QED
    BY <1>2, <1>3

\* The access list of one channel is copied to another.
LEMMA CopyAccessIs ==
    ASSUME NEW d, Consistent(d), NEW x \in Open(d), NEW y \in Open(d)
    PROVE  LET e == CopyAccess(d, x, y)
           IN  Steady(d, e) /\ Open(e) = Open(d)
<1> DEFINE S == 1..Len(d.chan[x].access)
           z == d.chan[x].access
           pick == [s \in SUBSET S |-> Max(s)]
           Fine(s, e) == Steady(d, e) /\ Open(e) = Open(d)
           P == {p \in (SUBSET S) \X DB : Fine(p[1], p[2])}
           G == [p \in S \X DB |-> CopyOne(p[2], y, z[p[1]])]
           Loop(f) == f = [s \in SUBSET S |-> IF s = {} THEN d
                             ELSE CopyOne(f[s \ {Max(s)}], y, z[Max(s)])]
           I == CHOOSE f : Loop(f)
<1>0. /\ DOMAIN z = S /\ IsFiniteSet(S) /\ d \in DB
      /\ \A s \in SUBSET S : s # {} => Max(s) \in s
      /\ \A i \in S : z[i] \in Entry /\ (z[i].who \in Chans => z[i].who \in Open(d))
    <2>1. z \in Seq(Entry) /\ ListOK(d, z) /\ d \in DB
        BY SoundIs, InfoType DEF Consistent
    <2> DEFINE n == Len(d.chan[x].access)
    <2>2. n \in Nat /\ DOMAIN z = 1..n /\ \A i \in 1..n : z[i] \in Entry /\ (z[i].who \in Chans => z[i].who \in Open(d))
        BY <2>1 DEF ListOK
    <2> HIDE DEF n, z
    <2>3. IsFiniteSet(1..n) /\ \A s \in SUBSET (1..n) : s # {} => Max(s) \in s
        <3>1. IsFiniteSet(1..n)
            BY <2>2, FS_Interval
        <3>2. \A s \in SUBSET (1..n) : s # {} => Max(s) \in s
            BY <2>2, MaxOf
        <3> QED
            BY <3>1, <3>2
    <2> QED
        BY <2>1, <2>2, <2>3 DEF n
<1>1. IsFiniteSet(S) /\ Picks(S, pick)
    BY <1>0 DEF Picks
<1>2. d \in DB /\ Fine({}, d)
    BY <1>0, SteadySame
<1>3. ASSUME NEW s \in SUBSET S, NEW v \in s, NEW e \in DB, Fine(s \ {v}, e)
      PROVE  CopyOne(e, y, z[v]) \in DB /\ Fine(s, CopyOne(e, y, z[v]))
    <2> DEFINE g == CopyOne(e, y, z[v])
    <2>1. Consistent(e) /\ y \in Open(e)
        BY <1>3 DEF Steady
    <2>2. z[v] \in Entry /\ (z[v].who \in Chans => z[v].who \in Open(e))
        BY <1>0, <1>3
    <2> HIDE DEF z
    <2>3. Steady(e, g) /\ Open(g) = Open(e)
        BY <2>1, <2>2, CopyOneIs
    <2> HIDE DEF g
    <2>4. Steady(d, g) /\ g \in DB
        BY <1>3, <2>3, SteadyAgain, SoundIs DEF Steady, Consistent
    <2> QED
        BY <1>3, <2>3, <2>4 DEF g
<1> HIDE DEF Fine
<1>4. \A s \in SUBSET S : \A v \in s : \A e \in DB : <<s \ {v}, e>> \in P
         => G[<<v, e>>] = CopyOne(e, y, z[v]) /\ <<s, CopyOne(e, y, z[v])>> \in P
    BY <1>3
<1>5. P \in SUBSET ((SUBSET S) \X DB) /\ <<{}, d>> \in P
    BY <1>2
<1> HIDE DEF P, G
<1>6. Visits(S, DB, P, d, G)
    BY <1>4, <1>5 DEF Visits
<1> HIDE DEF S, z, pick
<1>7. PICK f : Visitor(f, S, pick, DB, P, d, G)
    BY <1>1, <1>6, AnyOrder
<1>8. ASSUME NEW s \in SUBSET S, s # {}, NEW e \in DB, <<s \ {pick[s]}, e>> \in P
      PROVE  /\ G[<<pick[s], e>>] = CopyOne(e, y, z[pick[s]])
             /\ <<s, CopyOne(e, y, z[pick[s]])>> \in P
    <2>1. pick[s] \in s
        BY <1>1, <1>8 DEF Picks
    <2> QED
        BY <1>4, <1>8, <2>1
<1>9. ASSUME NEW s \in SUBSET S, s # {}
      PROVE  f[s] = CopyOne(f[s \ {pick[s]}], y, z[pick[s]])
    <2> DEFINE e == f[s \ {pick[s]}]
    <2>1. s \ {pick[s]} \in SUBSET S
        OBVIOUS
    <2>2. e \in DB /\ <<s \ {pick[s]}, e>> \in P /\ f[s] = G[<<pick[s], e>>]
        BY <1>7, <1>9, <2>1 DEF Visitor
    <2> HIDE DEF e
    <2>3. f[s] = CopyOne(e, y, z[pick[s]])
        BY <1>8, <1>9, <2>2
    <2> QED
        BY <2>3 DEF e
<1>10. Loop(f)
    BY <1>7, <1>9 DEF Visitor, pick
<1>11. Loop(I)
    BY <1>10
<1> USE DEF S, z, pick
<1>12. CopyAccess(d, x, y) = I[S]
    BY <1>0 DEF CopyAccess, CopyOne, FoldLeft, MapThenFoldSet
<1> HIDE DEF I, S, z, pick
<1>13. /\ I[{}] = d
       /\ \A s \in SUBSET S : s # {} => I[s] = CopyOne(I[s \ {pick[s]}], y, z[pick[s]])
    BY <1>11 DEF pick
<1>14. ASSUME NEW s \in SUBSET S, s # {}, <<s \ {pick[s]}, I[s \ {pick[s]}]>> \in P
       PROVE  <<s, I[s]>> \in P
    <2> DEFINE e == I[s \ {pick[s]}]
    <2>1. e \in DB /\ <<s \ {pick[s]}, e>> \in P
        BY <1>5, <1>14
    <2> HIDE DEF e
    <2>2. <<s, CopyOne(e, y, z[pick[s]])>> \in P
        BY <1>8, <1>14, <2>1
    <2> QED
        BY <1>13, <1>14, <2>2 DEF e
<1>15. <<S, I[S]>> \in P
    BY <1>1, <1>5, <1>13, <1>14, AllVisited
<1>16. Fine(S, I[S])
    BY <1>15 DEF P
<1> QED
    BY <1>12, <1>16 DEF Fine

\* The autokicks of one channel replace those of another.
LEMMA CopyAkickIs ==
    ASSUME NEW d, Consistent(d), NEW x \in Open(d), NEW y \in Open(d)
    PROVE  LET e == CopyAkick(d, x, y)
           IN  Steady(d, e) /\ Open(e) = Open(d)
<1> DEFINE clear == ClearAkick(d, y)
           S == d.chan[x].akicks
           pick == [s \in SUBSET S |-> CHOOSE u \in s : TRUE]
           Fine(s, e) == Steady(d, e) /\ Open(e) = Open(d) /\ e.chan[y].akicks = s
           P == {p \in (SUBSET S) \X DB : Fine(p[1], p[2])}
           G == [p \in S \X DB |-> AddAkick(p[2], y, p[1])]
           Loop(f) == f = [s \in SUBSET S |-> IF s = {} THEN clear
                             ELSE AddAkick(f[s \ {CHOOSE u \in s : TRUE}], y, (CHOOSE u \in s : TRUE))]
           I == CHOOSE f : Loop(f)
<1>0. /\ Steady(d, clear) /\ Open(clear) = Open(d) /\ clear.chan[y].akicks = {} /\ clear \in DB
      /\ S \subseteq Alive(d) /\ S \subseteq Cores
    <2>1. Less(d, clear) /\ Open(clear) = Open(d) /\ clear.chan[y].akicks = {}
        BY ClearAkickIs DEF Consistent
    <2>2. Steady(d, clear) /\ clear \in DB
        BY <2>1, LessSteady, SoundIs DEF Less
    <2>3. S \subseteq Alive(d) /\ Alive(d) \subseteq Cores
        BY DEF Consistent, Living, Alive
    <2> QED
        BY <2>1, <2>2, <2>3
<1> HIDE DEF clear
<1>1. IsFiniteSet(S) /\ Picks(S, pick)
    <2>1. IsFiniteSet(S)
        BY SoundIs, InfoType DEF Consistent
    <2>2. Picks(S, pick)
        BY DEF Picks
    <2> HIDE DEF S, pick
    <2> QED
        BY <2>1, <2>2
<1>2. clear \in DB /\ Fine({}, clear)
    BY <1>0
<1>3. ASSUME NEW s \in SUBSET S, NEW v \in s, NEW e \in DB, Fine(s \ {v}, e)
      PROVE  AddAkick(e, y, v) \in DB /\ Fine(s, AddAkick(e, y, v))
    <2> DEFINE g == AddAkick(e, y, v)
               r == [e.chan[y] EXCEPT !.akicks = @ \cup {v}]
    <2>1. Consistent(e) /\ y \in Open(e) /\ v \in Alive(e) /\ v \notin e.chan[y].akicks
        BY <1>0, <1>3 DEF Steady, Alive
    <2>2. Sound(e) /\ v \in Cores /\ e.chan[y] \in ChanInfo
        BY <2>1, SoundIs DEF Consistent, Alive
    <2>3. Steady(e, g)
        BY <2>1, AkickIs
    <2>4. Put(e, g, y, r)
        BY <2>1, <2>2, AddAkickIs
    <2>5. r \in ChanInfo /\ r.akicks = e.chan[y].akicks \cup {v}
        BY <2>2 DEF ChanInfo
    <2> HIDE DEF g, r
    <2>6. Open(g) = Open(e) /\ g.chan[y] = r
        BY <2>1, <2>2, <2>4, <2>5, PutIs
    <2>7. Steady(d, g) /\ g \in DB
        BY <1>3, <2>3, SteadyAgain, SoundIs DEF Steady, Consistent
    <2>8. g.chan[y].akicks = s
        BY <1>3, <2>5, <2>6
    <2> QED
        BY <1>3, <2>6, <2>7, <2>8 DEF g
<1> HIDE DEF Fine
<1>4. \A s \in SUBSET S : \A v \in s : \A e \in DB : <<s \ {v}, e>> \in P
         => G[<<v, e>>] = AddAkick(e, y, v) /\ <<s, AddAkick(e, y, v)>> \in P
    BY <1>3
<1>5. P \in SUBSET ((SUBSET S) \X DB) /\ <<{}, clear>> \in P
    BY <1>2
<1> HIDE DEF P, G
<1>6. Visits(S, DB, P, clear, G)
    BY <1>4, <1>5 DEF Visits
<1> HIDE DEF S, pick
<1>7. PICK f : Visitor(f, S, pick, DB, P, clear, G)
    BY <1>1, <1>6, AnyOrder
<1>8. ASSUME NEW s \in SUBSET S, s # {}, NEW e \in DB, <<s \ {pick[s]}, e>> \in P
      PROVE  /\ G[<<pick[s], e>>] = AddAkick(e, y, pick[s])
             /\ <<s, AddAkick(e, y, pick[s])>> \in P
    <2>1. pick[s] \in s
        BY <1>1, <1>8 DEF Picks
    <2> QED
        BY <1>4, <1>8, <2>1
<1>9. ASSUME NEW s \in SUBSET S, s # {}
      PROVE  f[s] = AddAkick(f[s \ {pick[s]}], y, pick[s])
    <2> DEFINE e == f[s \ {pick[s]}]
    <2>1. s \ {pick[s]} \in SUBSET S
        OBVIOUS
    <2>2. e \in DB /\ <<s \ {pick[s]}, e>> \in P /\ f[s] = G[<<pick[s], e>>]
        BY <1>7, <1>9, <2>1 DEF Visitor
    <2> HIDE DEF e
    <2>3. f[s] = AddAkick(e, y, pick[s])
        BY <1>8, <1>9, <2>2
    <2> QED
        BY <2>3 DEF e
<1>10. Loop(f)
    BY <1>7, <1>9 DEF Visitor, pick
<1>11. Loop(I)
    BY <1>10
<1> USE DEF S, pick
<1>12. CopyAkick(d, x, y) = I[S]
    BY DEF clear, CopyAkick, FoldSet, MapThenFoldSet
<1> HIDE DEF I, S, pick
<1>13. /\ I[{}] = clear
       /\ \A s \in SUBSET S : s # {} => I[s] = AddAkick(I[s \ {pick[s]}], y, pick[s])
    BY <1>11 DEF pick
<1>14. ASSUME NEW s \in SUBSET S, s # {}, <<s \ {pick[s]}, I[s \ {pick[s]}]>> \in P
       PROVE  <<s, I[s]>> \in P
    <2> DEFINE e == I[s \ {pick[s]}]
    <2>1. e \in DB /\ <<s \ {pick[s]}, e>> \in P
        BY <1>5, <1>14
    <2> HIDE DEF e
    <2>2. <<s, AddAkick(e, y, pick[s])>> \in P
        BY <1>8, <1>14, <2>1
    <2> QED
        BY <1>13, <1>14, <2>2 DEF e
<1>15. <<S, I[S]>> \in P
    BY <1>1, <1>5, <1>13, <1>14, AllVisited
<1>16. Fine(S, I[S])
    BY <1>15 DEF P
<1> QED
    BY <1>12, <1>16 DEF Fine

\* A channel is registered.
LEMMA RegisterChanIs ==
    ASSUME NEW d, Consistent(d), NEW x \in Chans, x \notin Open(d), NEW c \in Alive(d), Below(d, c)
    PROVE  LET blank == [founder |-> NULL, successor |-> NULL, akicks |-> {}, access |-> << >>]
           IN  Steady(d, SetFounder([d EXCEPT !.chan[x] = blank], x, c))
<1> DEFINE blank == [founder |-> NULL, successor |-> NULL, akicks |-> {}, access |-> << >>]
           C == [d.chan EXCEPT ![x] = blank]
           b == [d EXCEPT !.chan = C]
           r == [blank EXCEPT !.founder = c]
           e == SetFounder(b, x, c)
<1>1. Sound(d) /\ d \in DB /\ Open(d) \subseteq Chans /\ c \in Cores
    BY SoundIs DEF Consistent, Alive
<1>2. /\ blank \in ChanInfo /\ r \in ChanInfo /\ blank.access = << >> /\ r.access = << >> /\ blank.akicks = {}
      /\ r.akicks = {} /\ blank.founder = NULL /\ blank.successor = NULL /\ r.founder = c /\ r.successor = NULL
    <2>1. blank.access = << >> /\ blank.akicks = {} /\ blank.founder = NULL /\ blank.successor = NULL
        OBVIOUS
    <2>2. << >> \in Seq(Entry) /\ {} \in SUBSET Cores
        OBVIOUS
    <2>3. blank \in ChanInfo
        BY <1>1, <2>2 DEF ChanInfo
    <2> HIDE DEF blank
    <2>4. /\ r \in ChanInfo /\ r.access = blank.access /\ r.akicks = blank.akicks /\ r.founder = c
          /\ r.successor = blank.successor
        BY <1>1, <2>3 DEF ChanInfo
    <2> QED
        BY <2>1, <2>3, <2>4
<1> HIDE DEF blank
<1>3. C \in [Chans -> ChanInfo \cup {NULL}] /\ C[x] = blank /\ \A y \in Chans : y # x => C[y] = d.chan[y]
    BY <1>1, <1>2 DEF DB
<1> HIDE DEF C
<1>4. /\ b \in DB /\ b.chan = C /\ b.refs = d.refs /\ b.count = d.count /\ Beside(d, b)
    BY <1>1, <1>3 DEF DB, Beside
<1> HIDE DEF b
<1>5. Open(b) = Open(d) \cup {x}
    BY <1>2, <1>3, <1>4, Apart DEF Open
<1>6. ASSUME NEW w \in Cores \cup Chans PROVE Names(blank, w) = 0
    <2>1. Hits(blank.access, w) = {}
        BY <1>2 DEF Hits
    <2>2. Cardinality(Hits(blank.access, w)) = 0
        BY <2>1, FS_EmptySet
    <2>3. blank.founder # w /\ blank.successor # w /\ w \notin blank.akicks
        BY <1>2, Apart
    <2>4. One(blank.founder = w) = 0 /\ One(blank.successor = w) = 0 /\ One(w \in blank.akicks) = 0
        BY <2>3 DEF One
    <2> QED
        BY <2>2, <2>4 DEF Names
<1>7. ASSUME NEW w \in Cores \cup Chans, NEW y \in Chans PROVE b.refs[w][y] = Uses(b, w, y)
    <2>1. b.refs[w][y] = Uses(d, w, y)
        BY <1>1, <1>4 DEF Sound
    <2>2. CASE y = x
        BY <1>3, <1>4, <1>5, <1>6, <2>1, <2>2 DEF Uses
    <2>3. CASE y # x
        BY <1>3, <1>4, <1>5, <2>1, <2>3 DEF Uses
    <2> QED
        BY <2>2, <2>3
<1>8. ASSUME NEW h \in Cores PROVE b.count[h] = Cardinality(Founded(b, h)) /\ b.count[h] <= MaxReg
    <2>1. Founded(b, h) = Founded(d, h)
        BY <1>1, <1>2, <1>3, <1>4, <1>5, Apart DEF Founded
    <2> QED
        BY <1>1, <1>4, <2>1 DEF Sound
<1>9. ASSUME NEW y \in Open(b) PROVE ListOK(b, b.chan[y].access)
    <2>1. CASE y = x
        BY <1>2, <1>3, <1>4, <2>1, Limits DEF ListOK
    <2>2. CASE y # x
        <3>1. y \in Open(d) /\ y \in Chans /\ b.chan[y] = d.chan[y]
            BY <1>1, <1>3, <1>4, <1>5, <2>2
        <3> QED
            BY <1>1, <1>5, <3>1, SoundIs DEF ListOK
    <2> QED
        BY <2>1, <2>2
<1>10. Sound(b)
    BY <1>4, <1>7, <1>8, <1>9 DEF Sound, ListOK
<1>11. Put(b, e, x, r)
    <2>1. b.chan[x] = blank /\ x \in Open(b) /\ Below(b, c)
        BY <1>3, <1>4, <1>5 DEF Below
    <2> QED
        BY <1>1, <1>10, <2>1, SetFounderIs
<1> HIDE DEF r, e
<1>12. /\ Sound(e) /\ Open(e) = Open(b) /\ Beside(b, e) /\ e.chan[x] = r
       /\ \A y \in Chans : y # x => e.chan[y] = b.chan[y]
    BY <1>2, <1>5, <1>10, <1>11, PutIs
<1>13. Beside(d, e) /\ Alive(e) = Alive(d)
    BY <1>4, <1>12 DEF Beside, Alive
<1>14. ASSUME NEW y \in Open(e) PROVE AllAlive(e, e.chan[y])
    <2>1. CASE y = x
        BY <1>2, <1>12, <1>13, <2>1 DEF AllAlive
    <2>2. CASE y # x
        <3>1. y \in Open(d) /\ y \in Chans /\ e.chan[y] = d.chan[y]
            BY <1>1, <1>3, <1>4, <1>5, <1>12, <2>2
        <3>2. AllAlive(d, d.chan[y])
            BY <3>1 DEF Consistent, Living, AllAlive
        <3> QED
            BY <1>13, <3>1, <3>2 DEF AllAlive
    <2> QED
        BY <2>1, <2>2
<1>15. Living(e)
    BY <1>14 DEF Living, AllAlive
<1>16. Steady(d, e)
    BY <1>12, <1>13, <1>15, SteadyIs
<1>17. b = [d EXCEPT !.chan[x] = blank]
    BY DEF b, C
<1> QED
    BY <1>16, <1>17 DEF e, blank

-----------------------------------------------------------------------------
(* The commands for nicknames.                                             *)

\* A nickname moves from no account, or from one that keeps another, to an account
\* that had none.
LEMMA NewCoreIs ==
    ASSUME NEW d, Consistent(d), NEW n \in Nicks, ~Registered(d, n), NEW f \in Cores \ Alive(d),
           NEW e \in DB, e.refs = d.refs, e.chan = d.chan, e.count = d.count,
           e.aliases = [d.aliases EXCEPT ![f] = << n >>], e.display = [d.display EXCEPT ![f] = n],
           e.na[f] \in {n, NULL}, \A b \in Cores \ {f} : e.na[b] = d.na[b]
    PROVE  Steady(d, e) /\ Registered(e, n)
<1>1. Sound(d) /\ Living(d) /\ Named(d) /\ d \in DB
    BY SoundIs DEF Consistent
<1>2. /\ e.aliases[f] = << n >> /\ \A b \in Cores \ {f} : e.aliases[b] = d.aliases[b] /\ e.display[b] = d.display[b]
      /\ e.display[f] = n
    BY <1>1 DEF DB
<1>3. Range(<< n >>) = {n} /\ Once(<< n >>) /\ << n >> # << >>
    <2>1. << n >> \in Seq(Nicks) /\ Len(<< n >>) = 1 /\ << n >>[1] = n /\ DOMAIN << n >> = {1}
        OBVIOUS
    <2> DEFINE s == << n >>
    <2> HIDE DEF s
    <2>2. Range(s) = {n} /\ Once(s)
        BY <2>1 DEF s, Range, Once
    <2>3. s # << >>
        BY <2>1 DEF s
    <2> QED
        BY <2>2, <2>3 DEF s
<1>4. Alive(e) = Alive(d) \cup {f} /\ d.aliases[f] = << >>
    BY <1>2, <1>3 DEF Alive
<1>5. Sound(e) /\ Living(e)
    BY <1>1, <1>4, NicksChange
<1>6. Range(d.aliases[f]) = {}
    BY <1>1, <1>4, RangeIs DEF DB
<1>7. \A b \in Cores : n \notin Range(d.aliases[b])
    BY DEF Registered, Owners
<1>8. \A b \in Cores : Once(e.aliases[b])
    BY <1>1, <1>2, <1>3 DEF Named
<1>9. ASSUME NEW b \in Cores, NEW g \in Cores, b # g PROVE Range(e.aliases[b]) \cap Range(e.aliases[g]) = {}
    <2>1. Range(d.aliases[b]) \cap Range(d.aliases[g]) = {}
        BY <1>1, <1>9 DEF Named
    <2>2. CASE b # f /\ g # f
        BY <1>2, <2>1, <2>2
    <2>3. CASE b = f
        BY <1>2, <1>3, <1>7, <1>9, <2>3
    <2>4. CASE g = f
        BY <1>2, <1>3, <1>7, <1>9, <2>4
    <2> QED
        BY <2>2, <2>3, <2>4
<1>10. ASSUME NEW b \in Cores, e.na[b] # NULL PROVE e.na[b] = e.display[b] /\ e.display[b] \in Range(e.aliases[b])
    <2>1. CASE b = f
        BY <1>2, <1>3, <1>10, <2>1
    <2>2. CASE b # f
        BY <1>1, <1>2, <1>10, <2>2 DEF Named
    <2> QED
        BY <2>1, <2>2
<1>11. ASSUME NEW b \in Cores \ Alive(e) PROVE e.display[b] = NULL /\ e.na[b] = NULL
    BY <1>1, <1>2, <1>4, <1>11 DEF Named
<1>12. Named(e)
    BY <1>8, <1>9, <1>10, <1>11 DEF Named
<1>13. \A c \in Alive(d) : e.aliases[c] # << >>
    BY <1>2 DEF Alive
<1>14. ASSUME NEW k, Registered(d, k) PROVE Registered(e, k)
    <2>1. PICK c \in Cores : k \in Range(d.aliases[c])
        BY <1>14 DEF Registered, Owners
    <2>2. c # f
        BY <1>6, <2>1
    <2> QED
        BY <1>2, <2>1, <2>2 DEF Registered, Owners
<1>15. Registered(e, n)
    BY <1>2, <1>3 DEF Registered, Owners
<1> QED
    BY <1>5, <1>12, <1>13, <1>14, <1>15 DEF Steady, Consistent

\* The nickname of a new account.
LEMMA RegisterIs ==
    ASSUME NEW d, Consistent(d), NEW n \in Nicks, ~Registered(d, n), NEW f \in Cores \ Alive(d)
    PROVE  Steady(d, NewAlias([d EXCEPT !.display[f] = n], n, f))
<1> DEFINE D == [d.display EXCEPT ![f] = n]
           A == [d.aliases EXCEPT ![f] = << n >>]
           N == [d.na EXCEPT ![f] = n]
           b == [d EXCEPT !.display = D]
           e == [d EXCEPT !.display = D, !.aliases = A, !.na = N]
<1>1. d \in DB /\ d.aliases[f] = << >>
    BY SoundIs DEF Consistent, Alive
<1>2. /\ D \in [Cores -> Nicks \cup {NULL}] /\ A \in [Cores -> Seq(Nicks)] /\ N \in [Cores -> Nicks \cup {NULL}]
      /\ D[f] = n /\ N[f] = n /\ \A c \in Cores \ {f} : N[c] = d.na[c]
    BY <1>1 DEF DB
<1>3. Append(d.aliases[f], n) = << n >>
    BY <1>1
<1>4. NewAlias(b, n, f) = e
    <2>1. b.display[f] = n /\ b.aliases[f] = << >>
        BY <1>1, <1>2 DEF DB
    <2> QED
        BY <1>3, <2>1 DEF NewAlias
<1> HIDE DEF N, D, A
<1>5. /\ e \in DB /\ e.refs = d.refs /\ e.chan = d.chan /\ e.count = d.count
      /\ e.aliases = A /\ e.display = D /\ e.na = N
    BY <1>1, <1>2 DEF DB
<1> HIDE DEF e
<1>6. Steady(d, e)
    BY <1>2, <1>5, NewCoreIs DEF A, D
<1> QED
    BY <1>4, <1>6 DEF D

\* The channels have addresses, in some order.
LEMMA SomeOrder == \E order \in Orders : TRUE
<1> DEFINE n == Cardinality(Chans)
<1>1. n \in Nat /\ ExistsBijection(1..n, Chans)
    BY Limits, FS_CardinalityType
<1>2. PICK f \in Bijection(1..n, Chans) : TRUE
    BY <1>1 DEF ExistsBijection
<1>3. f \in [1..n -> Chans] /\ \A i, j \in 1..n : i # j => f[i] # f[j]
    BY <1>2 DEF Bijection, Injection, IsInjective
<1>4. f \in Orders
    BY <1>3 DEF Orders, SetToSeqs
<1> QED
    BY <1>4

\* A nickname leaves its account for one of its own.
LEMMA UngroupIs ==
    ASSUME NEW d, Consistent(d), NEW n, Registered(d, n), Len(d.aliases[Owner(d, n)]) > 1,
           NEW f \in Cores \ Alive(d)
    PROVE  LET c    == Owner(d, n)
               left == [d EXCEPT !.aliases[c] = RemoveFirst(@, n)]
               old  == IF d.na[c] = n THEN SetDisplay(left, c, Oldest(left, c)) ELSE left
           IN  Steady(d, [old EXCEPT !.display[f] = n, !.aliases[f] = << n >>])
<1> DEFINE c == Owner(d, n)
           s == d.aliases[c]
           left == [d EXCEPT !.aliases[c] = RemoveFirst(s, n)]
           old == IF d.na[c] = n THEN SetDisplay(left, c, Oldest(left, c)) ELSE left
           D == [old.display EXCEPT ![f] = n]
           A == [old.aliases EXCEPT ![f] = << n >>]
           e == [old EXCEPT !.display = D, !.aliases = A]
<1>1. Sound(d) /\ Named(d) /\ d \in DB
    BY SoundIs DEF Consistent
<1>2. /\ c \in Cores /\ n \in Range(s) /\ c \in Alive(d) /\ n \in Nicks /\ s \in Seq(Nicks) /\ Once(s)
      /\ \A b \in Cores : n \in Range(d.aliases[b]) => b = c
    BY <1>1, OwnerIs
<1> HIDE DEF c
<1>3. RemoveFirst(s, n) # << >> /\ RemoveFirst(s, n) \in Seq(Nicks) /\ Range(RemoveFirst(s, n)) = Range(s) \ {n}
    <2>1. Len(s) > 1
        BY DEF c
    <2> HIDE DEF s
    <2>2. 1 \in 1..Len(s) /\ 2 \in 1..Len(s) /\ s[1] # s[2] /\ s[1] \in Range(s) /\ s[2] \in Range(s)
        <3>1. Len(s) \in Nat /\ DOMAIN s = 1..Len(s) /\ \A i \in 1..Len(s) : s[i] \in Range(s)
            BY <1>2, RangeIs
        <3>2. 1 \in 1..Len(s) /\ 2 \in 1..Len(s)
            BY <2>1, <3>1
        <3>3. s[1] # s[2]
            BY <1>2, <3>1, <3>2 DEF Once
        <3> QED
            BY <3>1, <3>2, <3>3
    <2>3. RemoveFirst(s, n) \in Seq(Nicks) /\ Range(RemoveFirst(s, n)) = Range(s) \ {n}
        BY <1>2, RemoveFirstIs
    <2> DEFINE t == RemoveFirst(s, n)
    <2> HIDE DEF t
    <2>4. Range(t) # {}
        BY <2>2, <2>3 DEF t
    <2>5. t # << >>
        BY <2>3, <2>4, RangeIs DEF t
    <2> QED
        BY <2>3, <2>5 DEF t
<1>4. PICK order \in Orders : TRUE
    BY SomeOrder
<1>5. old = DelNick(d, n, order)
    <2>1. left.aliases[c] = RemoveFirst(s, n)
        BY <1>1, <1>2 DEF DB
    <2>2. left.aliases[c] # << >>
        BY <1>3, <2>1
    <2>3. left = [d EXCEPT !.aliases[c] = RemoveFirst(@, n)]
        OBVIOUS
    <2> HIDE DEF left
    <2> QED
        BY <2>2, <2>3 DEF DelNick, c
<1> HIDE DEF old, left, s
<1>6. Consistent(old) /\ ~Registered(old, n) /\ \A b \in Cores : Range(old.aliases[b]) = Range(d.aliases[b]) \ {n}
    BY <1>5, DelNickIs
<1>7. old \in DB /\ Named(old)
    BY <1>6, SoundIs DEF Consistent
<1>8. f \notin Alive(old)
    <2>1. d.aliases[f] \in Seq(Nicks) /\ d.aliases[f] = << >> /\ old.aliases[f] \in Seq(Nicks)
        BY <1>1, <1>7 DEF DB, Alive
    <2>2. Range(old.aliases[f]) = {}
        <3>1. Range(d.aliases[f]) = {}
            BY <2>1, RangeIs
        <3> QED
            BY <1>6, <3>1
    <2> QED
        BY <2>1, <2>2, RangeIs DEF Alive
<1>9. D \in [Cores -> Nicks \cup {NULL}] /\ A \in [Cores -> Seq(Nicks)]
    BY <1>2, <1>7 DEF DB
<1> HIDE DEF D, A
<1>10. /\ e \in DB /\ e.refs = old.refs /\ e.chan = old.chan /\ e.count = old.count
       /\ e.aliases = A /\ e.display = D /\ e.na = old.na
    BY <1>7, <1>9 DEF DB
<1>11. old.na[f] = NULL
    BY <1>7, <1>8 DEF Named
<1> HIDE DEF e
<1>12. Steady(old, e) /\ Registered(e, n)
    BY <1>2, <1>6, <1>8, <1>10, <1>11, NewCoreIs DEF A, D
<1>13. ASSUME NEW b \in Alive(d) PROVE b \in Alive(old)
    <2>1. /\ b \in Cores /\ d.aliases[b] \in Seq(Nicks) /\ old.aliases[b] \in Seq(Nicks) /\ d.aliases[b] # << >>
          /\ Range(old.aliases[b]) = Range(d.aliases[b]) \ {n}
        BY <1>1, <1>6, <1>7 DEF Alive, DB
    <2>2. CASE b = c
        <3>1. Range(s) \ {n} # {}
            BY <1>3, RangeIs
        <3> QED
            BY <2>1, <2>2, <3>1, RangeIs DEF Alive, s
    <2>3. CASE b # c
        <3>1. Range(old.aliases[b]) = Range(d.aliases[b]) /\ Range(d.aliases[b]) # {}
            BY <1>2, <2>1, <2>3, RangeIs
        <3> QED
            BY <2>1, <3>1, RangeIs DEF Alive
    <2> QED
        BY <2>2, <2>3
<1>14. \A b \in Alive(d) : e.aliases[b] # << >>
    BY <1>12, <1>13 DEF Steady
<1>15. ASSUME NEW k, Registered(d, k) PROVE Registered(e, k)
    <2>1. CASE k = n
        BY <1>12, <2>1
    <2>2. CASE k # n
        <3>1. Registered(old, k)
            BY <1>6, <1>15, <2>2 DEF Registered, Owners
        <3> QED
            BY <1>12, <3>1 DEF Steady
    <2> QED
        BY <2>1, <2>2
<1>16. Steady(d, e)
    BY <1>12, <1>14, <1>15 DEF Steady
<1>17. e = [old EXCEPT !.display[f] = n, !.aliases[f] = << n >>]
    BY DEF e, D, A
<1> QED
    BY <1>16, <1>17 DEF old, left, c, s

\* The owner of a nickname chooses it as the display.
LEMMA ChooseDisplayIs ==
    ASSUME NEW d, Consistent(d), NEW n, Registered(d, n)
    PROVE  Steady(d, SetDisplay(d, Owner(d, n), n))
<1> DEFINE c == Owner(d, n)
           e == SetDisplay(d, c, n)
<1>1. Sound(d) /\ Living(d) /\ Named(d) /\ d \in DB
    BY SoundIs DEF Consistent
<1>2. c \in Cores /\ n \in Range(d.aliases[c]) /\ c \in Alive(d) /\ n \in Nicks
    BY <1>1, OwnerIs
<1> HIDE DEF c
<1>3. /\ e \in DB /\ e.refs = d.refs /\ e.chan = d.chan /\ e.count = d.count /\ e.aliases = d.aliases
      /\ \A b \in Cores \ {c} : e.display[b] = d.display[b] /\ e.na[b] = d.na[b]
      /\ e.display[c] = n /\ e.na[c] = IF n = d.display[c] THEN d.na[c] ELSE n
    BY <1>1, <1>2, SetDisplayIs
<1> HIDE DEF e
<1>4. Alive(e) = Alive(d)
    BY <1>3 DEF Alive
<1>5. Sound(e) /\ Living(e)
    BY <1>1, <1>3, <1>4, NicksChange
<1>6. ASSUME NEW b \in Cores, e.na[b] # NULL PROVE e.na[b] = e.display[b] /\ e.display[b] \in Range(e.aliases[b])
    <2>1. d.na[b] # NULL => d.na[b] = d.display[b] /\ d.display[b] \in Range(d.aliases[b])
        BY <1>1 DEF Named
    <2>2. CASE b # c
        BY <1>3, <1>6, <2>1, <2>2
    <2>3. CASE b = c /\ n = d.display[c]
        BY <1>2, <1>3, <1>6, <2>1, <2>3
    <2>4. CASE b = c /\ n # d.display[c]
        BY <1>2, <1>3, <1>6, <2>4
    <2> QED
        BY <2>2, <2>3, <2>4
<1>7. ASSUME NEW b \in Cores \ Alive(e) PROVE e.display[b] = NULL /\ e.na[b] = NULL
    BY <1>1, <1>2, <1>3, <1>4 DEF Named
<1>8. Named(e)
    BY <1>1, <1>3, <1>6, <1>7 DEF Named
<1>9. \A b \in Alive(d) : e.aliases[b] # << >>
    BY <1>3 DEF Alive
<1>10. \A k : Registered(d, k) => Registered(e, k)
    BY <1>3 DEF Registered, Owners
<1> QED
    BY <1>5, <1>8, <1>9, <1>10 DEF Steady, Consistent, e, c

\* The last step of joining an account: what the nickname was goes, and the account
\* that is joined stays.
LEMMA JoinIs ==
    ASSUME NEW d, Consistent(d), NEW n \in Nicks, NEW t, t # n, Registered(d, t), NEW order \in Orders
    PROVE  LET gone == IF Registered(d, n) THEN DelNick(d, n, order) ELSE d
               e    == NewAlias(gone, n, Owner(d, t))
           IN  /\ Consistent(e) /\ Transfer(d, e)
               /\ \A k : Registered(d, k) => Registered(e, k)
<1> DEFINE gone == IF Registered(d, n) THEN DelNick(d, n, order) ELSE d
           o == Owner(d, t)
           e == NewAlias(gone, n, o)
<1>1. Named(d) /\ d \in DB
    BY SoundIs DEF Consistent
<1>2. o \in Cores /\ t \in Range(d.aliases[o]) /\ o \in Alive(d)
    BY <1>1, OwnerIs
<1>3. /\ Consistent(gone) /\ Transfer(d, gone) /\ ~Registered(gone, n)
      /\ \A c \in Cores : Range(gone.aliases[c]) = Range(d.aliases[c]) \ {n}
    <2>1. CASE Registered(d, n)
        BY <2>1, DelNickIs
    <2>2. CASE ~Registered(d, n)
        <3>1. \A c \in Cores : n \notin Range(d.aliases[c])
            BY <2>2 DEF Registered, Owners
        <3> QED
            BY <2>2, <3>1, SteadySame, SteadyTransfer
    <2> QED
        BY <2>1, <2>2
<1> HIDE DEF gone, o
<1>4. o \in Alive(gone) /\ gone \in DB
    <2>1. gone \in DB
        BY <1>3, SoundIs DEF Consistent
    <2>2. t \in Range(gone.aliases[o]) /\ gone.aliases[o] \in Seq(Nicks)
        BY <1>2, <1>3, <2>1 DEF DB
    <2> QED
        BY <1>2, <2>1, <2>2, RangeIs DEF Alive
<1>5. /\ Consistent(e) /\ e.chan = gone.chan /\ Range(e.aliases[o]) = Range(gone.aliases[o]) \cup {n}
      /\ \A b \in Cores \ {o} : e.aliases[b] = gone.aliases[b]
    BY <1>3, <1>4, NewAliasIs
<1> HIDE DEF e
<1>6. ASSUME NEW c \in Alive(d), e.aliases[c] = << >> PROVE gone.aliases[c] = << >>
    <2>1. c # o
        <3>1. e.aliases[o] \in Seq(Nicks)
            BY <1>2, <1>5, SoundIs DEF Consistent, DB
        <3> QED
            <4>1. n \in Range(e.aliases[o])
                BY <1>5
            <4>2. Range(e.aliases[o]) # {}
                BY <4>1
            <4>3. e.aliases[o] # << >>
                BY <3>1, <4>2, RangeIs
            <4> QED
                BY <1>6, <4>3
    <2> QED
        BY <1>5, <1>6, <2>1 DEF Alive
<1>7. Transfer(d, e)
    BY <1>3, <1>5, <1>6 DEF Transfer, Open
<1>8. ASSUME NEW k, Registered(d, k) PROVE Registered(e, k)
    <2>1. PICK c \in Cores : k \in Range(d.aliases[c])
        BY <1>8 DEF Registered, Owners
    <2>2. CASE k = n
        BY <1>2, <1>5, <2>2 DEF Registered, Owners
    <2>3. CASE k # n
        <3>1. k \in Range(gone.aliases[c])
            BY <1>3, <2>1, <2>3
        <3>2. k \in Range(e.aliases[c])
            BY <1>5, <2>1, <3>1
        <3> QED
            BY <2>1, <3>2 DEF Registered, Owners
    <2> QED
        BY <2>2, <2>3
<1> QED
    BY <1>5, <1>7, <1>8 DEF e, gone, o

\* The entry that a new one replaces: for a channel, the one that names it.
LEMMA FoundIs ==
    ASSUME Consistent(db), NEW x \in Open(db), NEW m \in Nicks \cup Chans, NEW i,
           \/ i = SelectInSeq(db.chan[x].access, LAMBDA e : Same(m, e))
           \/ i = SelectLastInSeq(db.chan[x].access, LAMBDA e : Same(m, e))
    PROVE  /\ i \in 0..Len(db.chan[x].access)
           /\ m \in Chans => IF i = 0 THEN Hits(db.chan[x].access, m) = {} ELSE db.chan[x].access[i].who = m
<1> DEFINE a == db.chan[x].access
           I == {j \in 1..Len(a) : Same(m, a[j])}
<1>1. db \in DB /\ a \in Seq(Entry) /\ Len(a) \in Nat /\ DOMAIN a = 1..Len(a) /\ \A j \in 1..Len(a) : a[j] \in Entry
    BY SoundIs, InfoType DEF Consistent
<1>2. i = (IF I # {} THEN Min(I) ELSE 0) \/ i = (IF I # {} THEN Max(I) ELSE 0)
    BY DEF SelectInSeq, SelectLastInSeq
<1>3. I \in SUBSET (1..Len(a))
    OBVIOUS
<1>4. ASSUME m \in Chans, NEW j \in 1..Len(a) PROVE j \in I <=> a[j].who = m
    <2>1. SetMask(db, m) = m
        BY <1>4, Apart DEF SetMask
    <2>2. Mask(db, a[j].who) = m <=> a[j].who = m
        BY <1>1, <1>4, Apart DEF Mask, DB
    <2> QED
        BY <2>1, <2>2 DEF Same
<1>5. CASE I = {}
    <2>1. i = 0
        BY <1>2, <1>5
    <2>2. m \in Chans => Hits(a, m) = {}
        BY <1>1, <1>4, <1>5 DEF Hits
    <2> QED
        BY <1>1, <2>1, <2>2
<1>6. CASE I # {}
    <2> HIDE DEF I
    <2>1. Min(I) \in I /\ Max(I) \in I
        BY <1>1, <1>3, <1>6, MinOf, MaxOf
    <2>2. i \in I
        BY <1>2, <1>6, <2>1
    <2>3. i \in 1..Len(a) /\ i # 0
        BY <1>1, <1>3, <2>2
    <2> QED
        BY <1>1, <1>4, <2>2, <2>3
<1> QED
    BY <1>5, <1>6

-----------------------------------------------------------------------------
(* Every step.                                                             *)

\* What the proofs by induction keep.
IInv == Consistent(db) /\ Asked

\* CLONE copies lists, never a whole channel: such a copy is not counted among the
\* references of its founder and of its successor (the copy constructor of
\* ChannelInfo, regchannel.cpp), so RefsExact fails with it.
NoCopies == CloneKinds \subseteq {"ACCESS", "AKICK"}

\* A command that deletes no account keeps the invariant.
LEMMA SteadyStep ==
    ASSUME Consistent(db), Asked, Steady(db, db'), requests' \subseteq requests
    PROVE  IInv' /\ Transfer(db, db')
<1>1. Consistent(db') /\ Transfer(db, db')
    BY SteadyTransfer DEF Steady
<1>2. Asked'
    BY DEF Asked, Steady
<1> QED
    BY <1>1, <1>2 DEF IInv

\* A nickname is dropped or expires.
LEMMA DropStep ==
    ASSUME IInv, NEW n \in Nicks, Drop(n)
    PROVE  IInv' /\ Transfer(db, db')
<1>1. PICK order \in Orders : db' = DelNick(db, n, order)
    BY DEF Drop
<1>2. Registered(db, n) /\ requests' = Without(n)
    BY DEF Drop
<1>3. /\ Consistent(db') /\ Transfer(db, db')
      /\ \A c \in Cores : Range((db').aliases[c]) = Range(db.aliases[c]) \ {n}
    BY <1>1, <1>2, DelNickIs DEF IInv
<1>4. ASSUME NEW k, k # n, Registered(db, k) PROVE Registered(db', k)
    BY <1>3, <1>4 DEF Registered, Owners
<1>5. Asked'
    BY <1>2, <1>4 DEF IInv, Asked, Without
<1> QED
    BY <1>3, <1>5 DEF IInv

\* A user joins an account.
LEMMA GroupStep ==
    ASSUME IInv, NEW r \in requests, GroupSuccess(r)
    PROVE  IInv' /\ Transfer(db, db')
<1>1. r.nick \in Nicks /\ r.target # r.nick /\ Registered(db, r.target)
    BY DEF IInv, Asked
<1>2. PICK order \in Orders :
         db' = NewAlias(IF Registered(db, r.nick) THEN DelNick(db, r.nick, order) ELSE db,
                        r.nick, Owner(db, r.target))
    BY DEF GroupSuccess
<1>3. requests' \subseteq requests
    BY DEF GroupSuccess
<1>4. /\ Consistent(db') /\ Transfer(db, db')
      /\ \A k : Registered(db, k) => Registered(db', k)
    BY <1>1, <1>2, JoinIs DEF IInv
<1>5. Asked'
    BY <1>3, <1>4 DEF IInv, Asked
<1> QED
    BY <1>4, <1>5 DEF IInv

\* A command for nicknames that deletes no account.
LEMMA NickStep ==
    ASSUME IInv, NEW n \in Nicks, Register(n) \/ Ungroup(n) \/ SetDisplayTo(n)
    PROVE  IInv' /\ Transfer(db, db')
<1>1. Consistent(db) /\ Asked
    BY DEF IInv
<1>2. requests' \subseteq requests
    BY DEF Register, Ungroup, SetDisplayTo
<1>3. CASE Register(n)
    <2>1. PICK c \in Cores \ Alive(db) : db' = NewAlias([db EXCEPT !.display[c] = n], n, c)
        BY <1>3 DEF Register
    <2>2. ~Registered(db, n)
        BY <1>3 DEF Register
    <2>3. Steady(db, db')
        BY <1>1, <2>1, <2>2, RegisterIs
    <2> QED
        BY <1>1, <1>2, <2>3, SteadyStep
<1>4. CASE Ungroup(n)
    <2> DEFINE c    == Owner(db, n)
               left == [db EXCEPT !.aliases[c] = RemoveFirst(@, n)]
               old  == IF db.na[c] = n THEN SetDisplay(left, c, Oldest(left, c)) ELSE left
    <2>1. PICK f \in Cores \ Alive(db) : db' = [old EXCEPT !.display[f] = n, !.aliases[f] = << n >>]
        BY <1>4 DEF Ungroup
    <2>2. Registered(db, n) /\ Len(db.aliases[Owner(db, n)]) > 1
        BY <1>4 DEF Ungroup
    <2>3. Steady(db, [old EXCEPT !.display[f] = n, !.aliases[f] = << n >>])
        BY <1>1, <2>2, UngroupIs
    <2> HIDE DEF old
    <2> QED
        BY <1>1, <1>2, <2>1, <2>3, SteadyStep
<1>5. CASE SetDisplayTo(n)
    <2>1. Registered(db, n) /\ db' = SetDisplay(db, Owner(db, n), n)
        BY <1>5 DEF SetDisplayTo
    <2>2. Steady(db, db')
        BY <1>1, <2>1, ChooseDisplayIs
    <2> QED
        BY <1>1, <1>2, <2>2, SteadyStep
<1> QED
    BY <1>3, <1>4, <1>5

\* ACCESS ADD, SOP and its kin.
LEMMA AddStep ==
    ASSUME IInv, NEW x \in Open(db), NEW m \in Nicks \cup Chans, NEW l \in Levels,
           AccessAdd(x, m, l) \/ XopAdd(x, m, l)
    PROVE  IInv' /\ Transfer(db, db')
<1>1. Consistent(db) /\ Asked
    BY DEF IInv
<1>2. PICK i : /\ Replace(x, m, l, i)
               /\ \/ i = SelectInSeq(db.chan[x].access, LAMBDA e : Same(m, e))
                  \/ i = SelectLastInSeq(db.chan[x].access, LAMBDA e : Same(m, e))
    <2>1. CASE AccessAdd(x, m, l)
        <3> DEFINE i == SelectLastInSeq(db.chan[x].access, LAMBDA e : Same(m, e))
        <3>1. Replace(x, m, l, i)
            BY <2>1 DEF AccessAdd
        <3> QED
            BY <3>1
    <2>2. CASE XopAdd(x, m, l)
        <3> DEFINE i == SelectInSeq(db.chan[x].access, LAMBDA e : Same(m, e))
        <3>1. Replace(x, m, l, i)
            BY <2>2 DEF XopAdd
        <3> QED
            BY <3>1
    <2> QED
        BY <2>1, <2>2
<1>3. /\ i \in 0..Len(db.chan[x].access)
      /\ m \in Chans => IF i = 0 THEN Hits(db.chan[x].access, m) = {} ELSE db.chan[x].access[i].who = m
    BY <1>1, <1>2, FoundIs
<1> DEFINE rid == IF i = 0 THEN db ELSE EraseEntry(db, x, i)
<1>4. /\ m \in Chans => m \in Open(db)
      /\ db' = IF Len(rid.chan[x].access) >= MaxAccess THEN rid ELSE AddEntry(rid, x, m, l)
      /\ requests' \subseteq requests
    BY <1>2 DEF Replace
<1>5. Steady(db, IF Len(rid.chan[x].access) >= MaxAccess THEN rid ELSE AddEntry(rid, x, m, l))
    BY <1>1, <1>3, <1>4, ReplaceIs
<1> HIDE DEF rid
<1>6. Steady(db, db')
    BY <1>4, <1>5
<1> QED
    BY <1>1, <1>4, <1>6, SteadyStep

\* The other commands for channels.
LEMMA ChanStep ==
    ASSUME NoCopies, IInv, NEW x \in Open(db),
           \/ DropChan(x) \/ ExpireChan(x)
           \/ \E c \in Alive(db) : GiveChan(x, c) \/ Akick(x, c) \/ AkickDel(x, c)
           \/ \E c \in Alive(db) \cup {NULL} : NameSuccessor(x, c)
           \/ \E i \in DOMAIN db.chan[x].access : AccessDel(x, i)
           \/ \E y \in Open(db), what \in CloneKinds : Clone(x, y, what)
    PROVE  IInv' /\ Transfer(db, db')
<1>1. Consistent(db) /\ Asked
    BY DEF IInv
<1>2. requests' \subseteq requests
    BY DEF DropChan, ExpireChan, GiveChan, Akick, AkickDel, NameSuccessor, AccessDel, Clone
<1>3. Steady(db, db')
    <2>1. CASE DropChan(x) \/ ExpireChan(x)
        BY <1>1, <2>1, DropChanIs DEF DropChan, ExpireChan
    <2>2. ASSUME NEW c \in Alive(db), GiveChan(x, c) PROVE Steady(db, db')
        BY <1>1, <2>2, GiveChanIs DEF GiveChan
    <2>3. ASSUME NEW c \in Alive(db), Akick(x, c) PROVE Steady(db, db')
        BY <1>1, <2>3, AkickIs DEF Akick
    <2>4. ASSUME NEW c \in Alive(db), AkickDel(x, c) PROVE Steady(db, db')
        BY <1>1, <2>4, AkickDelIs DEF AkickDel
    <2>5. ASSUME NEW c \in Alive(db) \cup {NULL}, NameSuccessor(x, c) PROVE Steady(db, db')
        BY <1>1, <2>5, NameSuccessorIs DEF NameSuccessor
    <2>6. ASSUME NEW i \in DOMAIN db.chan[x].access, AccessDel(x, i) PROVE Steady(db, db')
        <3>1. i \in 1..Len(db.chan[x].access)
            BY <1>1, <2>6, SoundIs, InfoType DEF Consistent
        <3> QED
            BY <1>1, <2>6, <3>1, EraseIs DEF AccessDel
    <2>7. ASSUME NEW y \in Open(db), NEW what \in CloneKinds, Clone(x, y, what) PROVE Steady(db, db')
        <3>1. CASE what = "ACCESS"
            <4>1. db' = CopyAccess(db, x, y)
                BY <2>7, <3>1 DEF Clone
            <4> QED
                BY <1>1, <4>1, CopyAccessIs
        <3>2. CASE what = "AKICK"
            <4>1. db' = CopyAkick(db, x, y)
                BY <2>7, <3>2 DEF Clone
            <4> QED
                BY <1>1, <4>1, CopyAkickIs
        <3> QED
            BY <2>7, <3>1, <3>2 DEF NoCopies
    <2> QED
        BY <2>1, <2>2, <2>3, <2>4, <2>5, <2>6, <2>7
<1> QED
    BY <1>1, <1>2, <1>3, SteadyStep

\* Every step keeps the invariant, and hands on the channels of an account that goes.
LEMMA Step ==
    ASSUME NoCopies, IInv, [Next]_vars
    PROVE  IInv' /\ (UNCHANGED vars \/ Transfer(db, db'))
<1>1. CASE UNCHANGED vars
    BY <1>1 DEF IInv, Asked, vars
<1>2. ASSUME NEW n \in Nicks,
             \/ Register(n) /\ Within
             \/ Drop(n) \/ Expire(n) \/ Ungroup(n) \/ SetDisplayTo(n)
      PROVE  IInv' /\ Transfer(db, db')
    BY <1>2, NickStep, DropStep DEF Expire
<1>3. ASSUME NEW n \in Nicks, NEW t \in Nicks, Group(n, t) PROVE IInv' /\ Transfer(db, db')
    <2>1. db' = db /\ requests' = requests \cup {[nick |-> n, target |-> t]}
          /\ Registered(db, t) /\ (Registered(db, n) => Owner(db, n) # Owner(db, t))
        BY <1>3 DEF Group
    <2>2. n # t
        BY <2>1
    <2>3. Consistent(db') /\ Transfer(db, db')
        BY <2>1, SteadySame, SteadyTransfer DEF IInv
    <2>4. Asked'
        BY <2>1, <2>2 DEF IInv, Asked
    <2> QED
        BY <2>3, <2>4 DEF IInv
<1>4. ASSUME NEW r \in requests, GroupSuccess(r) \/ GroupFails(r) PROVE IInv' /\ Transfer(db, db')
    <2>1. CASE GroupSuccess(r)
        BY <2>1, GroupStep
    <2>2. CASE GroupFails(r)
        <3>1. db' = db /\ requests' \subseteq requests
            BY <2>2 DEF GroupFails
        <3>2. Steady(db, db')
            BY <3>1, SteadySame DEF IInv
        <3> QED
            BY <3>1, <3>2, SteadyStep DEF IInv
    <2> QED
        BY <1>4, <2>1, <2>2
<1>5. ASSUME NEW x \in Chans, NEW c \in Alive(db), RegisterChan(x, c) PROVE IInv' /\ Transfer(db, db')
    <2>1. x \notin Open(db) /\ Below(db, c) /\ requests' \subseteq requests
        BY <1>5 DEF RegisterChan
    <2>2. db' = SetFounder([db EXCEPT !.chan[x] =
             [founder |-> NULL, successor |-> NULL, akicks |-> {}, access |-> << >>]], x, c)
        BY <1>5 DEF RegisterChan
    <2>3. Steady(db, db')
        BY <2>1, <2>2, RegisterChanIs DEF IInv
    <2> QED
        BY <2>1, <2>3, SteadyStep DEF IInv
<1>6. ASSUME NEW x \in Open(db),
             \/ DropChan(x) \/ ExpireChan(x)
             \/ \E c \in Alive(db) : GiveChan(x, c) \/ (Akick(x, c) /\ Within) \/ AkickDel(x, c)
             \/ \E c \in Alive(db) \cup {NULL} : NameSuccessor(x, c)
             \/ \E m \in Nicks \cup Chans, l \in Levels :
                   (AccessAdd(x, m, l) \/ XopAdd(x, m, l)) /\ Within
             \/ \E i \in DOMAIN db.chan[x].access : AccessDel(x, i)
             \/ \E y \in Open(db), what \in CloneKinds : Clone(x, y, what) /\ Within
      PROVE  IInv' /\ Transfer(db, db')
    <2>1. ASSUME NEW m \in Nicks \cup Chans, NEW l \in Levels, AccessAdd(x, m, l) \/ XopAdd(x, m, l)
          PROVE  IInv' /\ Transfer(db, db')
        BY <2>1, AddStep
    <2>2. CASE ~\E m \in Nicks \cup Chans, l \in Levels : AccessAdd(x, m, l) \/ XopAdd(x, m, l)
        <3>1. \/ DropChan(x) \/ ExpireChan(x)
              \/ \E c \in Alive(db) : GiveChan(x, c) \/ Akick(x, c) \/ AkickDel(x, c)
              \/ \E c \in Alive(db) \cup {NULL} : NameSuccessor(x, c)
              \/ \E i \in DOMAIN db.chan[x].access : AccessDel(x, i)
              \/ \E y \in Open(db), what \in CloneKinds : Clone(x, y, what)
            BY <1>6, <2>2
        <3> QED
            BY <3>1, ChanStep
    <2> QED
        BY <2>1, <2>2
<1>7. CASE Next
    BY <1>2, <1>3, <1>4, <1>5, <1>6, <1>7 DEF Next
<1> QED
    BY <1>1, <1>7

\* Nothing is registered at first.
LEMMA Starts == Init => IInv
<1> SUFFICES ASSUME Init PROVE IInv
    OBVIOUS
<1>1. db = [aliases |-> [c \in Cores |-> << >>],
            display |-> [c \in Cores |-> NULL],
            na      |-> [c \in Cores |-> NULL],
            count   |-> [c \in Cores |-> 0],
            refs    |-> [w \in Cores \cup Chans |-> [x \in Chans |-> 0]],
            chan    |-> [x \in Chans |-> NULL]]
    BY DEF Init
<1>2. /\ \A c \in Cores : db.aliases[c] = << >> /\ db.display[c] = NULL /\ db.na[c] = NULL /\ db.count[c] = 0
      /\ \A w \in Cores \cup Chans, x \in Chans : db.refs[w][x] = 0
      /\ \A x \in Chans : db.chan[x] = NULL
    BY <1>1
<1>3. db \in DB
    <2>1. << >> \in Seq(Nicks)
        OBVIOUS
    <2> QED
        BY <1>1, <2>1 DEF DB
<1>4. Open(db) = {} /\ Alive(db) = {}
    BY <1>2 DEF Open, Alive
<1>5. ASSUME NEW c \in Cores PROVE db.count[c] = Cardinality(Founded(db, c)) /\ db.count[c] <= MaxReg
    <2>1. Founded(db, c) = {}
        BY <1>4 DEF Founded
    <2> QED
        BY <1>2, <2>1, FS_EmptySet, LimitsAssumption
<1>6. Sound(db)
    BY <1>2, <1>3, <1>4, <1>5 DEF Sound, Uses
<1>7. Living(db)
    BY <1>4 DEF Living
<1>8. Range(<< >>) = {} /\ Once(<< >>)
    BY DEF Range, Once
<1>9. Named(db)
    BY <1>2, <1>8 DEF Named
<1>10. Asked
    BY DEF Init, Asked
<1> QED
    BY <1>6, <1>7, <1>9, <1>10 DEF IInv, Consistent

-----------------------------------------------------------------------------
(* What the invariant says.                                                *)

\* A list without repetitions is no longer than what it is taken from.
LEMMA OnceLength ==
    ASSUME NEW s \in Seq(Nicks), Once(s)
    PROVE  s \in BoundedSeq(Nicks, Cardinality(Nicks))
<1> DEFINE n == Len(s)
<1>1. n \in Nat /\ s \in [1..n -> Nicks] /\ DOMAIN s = 1..n
    OBVIOUS
<1> HIDE DEF n
<1>2. IsFiniteSet(1..n) /\ Cardinality(1..n) = n
    BY <1>1, FS_Interval
<1>3. s \in Injection(1..n, Nicks)
    BY <1>1 DEF Once, Injection, IsInjective
<1>4. n <= Cardinality(Nicks) /\ Cardinality(Nicks) \in Nat
    BY <1>2, <1>3, Limits, FS_Injection, FS_CardinalityType
<1> QED
    BY <1>1, <1>4 DEF BoundedSeq, SeqOf

\* The invariant implies the type invariant.
LEMMA TypeIs == IInv => TypeOK
<1> SUFFICES ASSUME IInv PROVE TypeOK
    OBVIOUS
<1>1. Sound(db) /\ Living(db) /\ Named(db) /\ db \in DB /\ Asked
    BY SoundIs DEF IInv, Consistent
<1>2. db.aliases \in [Cores -> BoundedSeq(Nicks, Cardinality(Nicks))]
    <2>1. \A c \in Cores : db.aliases[c] \in BoundedSeq(Nicks, Cardinality(Nicks))
        BY <1>1, OnceLength DEF DB, Named
    <2> QED
        BY <1>1, <2>1 DEF DB
<1>3. db.count \in [Cores -> 0..Cardinality(Chans)]
    <2>1. ASSUME NEW c \in Cores PROVE db.count[c] \in 0..Cardinality(Chans)
        <3>1. db.count[c] = Cardinality(Founded(db, c)) /\ db.count[c] \in Nat /\ Founded(db, c) \subseteq Chans
            BY <1>1, SoundIs DEF Founded
        <3>2. Cardinality(Founded(db, c)) <= Cardinality(Chans) /\ Cardinality(Chans) \in Nat
            BY <3>1, Limits, FS_Subset, FS_CardinalityType
        <3> QED
            BY <3>1, <3>2
    <2> QED
        BY <1>1, <2>1 DEF DB
<1>4. ASSUME NEW x \in Open(db)
      PROVE  /\ db.chan[x].founder \in Cores \cup {NULL} /\ db.chan[x].successor \in Cores \cup {NULL}
             /\ db.chan[x].akicks \subseteq Cores /\ db.chan[x].access \in BoundedSeq(Entry, MaxAccess)
    <2>1. db.chan[x] \in ChanInfo /\ ListOK(db, db.chan[x].access)
        BY <1>1, SoundIs
    <2> DEFINE a == db.chan[x].access
               n == Len(a)
    <2>2. a \in Seq(Entry)
        BY <2>1, InfoType
    <2>3. n \in Nat /\ a \in [1..n -> Entry] /\ n <= MaxAccess
        BY <2>1, <2>2 DEF ListOK
    <2> HIDE DEF a, n
    <2>4. a \in BoundedSeq(Entry, MaxAccess)
        BY <2>3, Limits DEF BoundedSeq, SeqOf
    <2> QED
        BY <2>1, <2>4, InfoType DEF a
<1>5. ASSUME NEW c \in Cores \ Alive(db) PROVE db.display[c] = NULL /\ db.na[c] = NULL /\ db.count[c] = 0
    <2>1. Founded(db, c) = {}
        BY <1>1 DEF Living, Founded
    <2>2. db.count[c] = 0
        BY <1>1, <2>1, FS_EmptySet DEF Sound
    <2> QED
        BY <1>1, <2>2 DEF Named
<1> QED
    BY <1>1, <1>2, <1>3, <1>4, <1>5 DEF TypeOK, DB, Asked

\* The invariant implies that the references are exact.
LEMMA RefsAre == IInv => RefsExact
BY DEF IInv, Consistent, Sound, Living, RefsExact, Alive, Open

\* The invariant implies that channelcount is exact.
LEMMA CountIs == IInv => CountExact
BY DEF IInv, Consistent, Sound, CountExact, Founded, Alive

\* The invariant implies what is known of display nicknames.
LEMMA DisplayIs == IInv => DisplayFollows
<1> SUFFICES ASSUME IInv PROVE DisplayFollows
    OBVIOUS
<1>1. Named(db)
    BY DEF IInv, Consistent
<1>2. ASSUME NEW n \in Nicks PROVE Cardinality(Owners(db, n)) <= 1
    <2>1. \A b, c \in Owners(db, n) : b = c
        BY <1>1 DEF Named, Owners
    <2>2. CASE Owners(db, n) = {}
        BY <2>2, FS_EmptySet
    <2>3. CASE Owners(db, n) # {}
        <3>1. PICK c \in Owners(db, n) : TRUE
            BY <2>3
        <3>2. Owners(db, n) = {c}
            BY <2>1, <3>1
        <3>3. Cardinality(Owners(db, n)) = 1
            BY <3>2, FS_Singleton
        <3> QED
            BY <3>3
    <2> QED
        BY <2>2, <2>3
<1> QED
    BY <1>1, <1>2 DEF Named, DisplayFollows, Alive

\* The body of Inherited: the channels of an account that goes without a nickname
\* left pass to a successor with room for all of them.
LEMMA InheritedIs == ASSUME Transfer(db, db') \/ UNCHANGED vars
    PROVE [\A x \in Open(db) :
             LET c == db.chan[x].founder
                 s == db.chan[x].successor
             IN ( /\ c \in Alive(db) /\ db'.aliases[c] = << >>
                  /\ s \in Alive(db) \ {c} /\ db.count[s] + db.count[c] <= MaxReg )
                => x \in Open(db') /\ db'.chan[x].founder = s]_vars
BY DEF Transfer

-----------------------------------------------------------------------------
(* The theorems.                                                           *)

\* The invariant holds in every state, as long as no command copies whole channels.
THEOREM Invariant == ASSUME NoCopies PROVE Spec => []IInv
<1>1. IInv /\ [Next]_vars => IInv'
    BY Step
<1> QED
    BY <1>1, Starts, PTL DEF Spec

\* Accounts and channels keep their shape, access lists their limit.
THEOREM TypeCorrect == ASSUME NoCopies PROVE Spec => []TypeOK
BY Invariant, TypeIs, PTL

\* Accounts and channels know exactly the channels that name them, and no channel
\* is left to an account that is gone.
THEOREM RefsKept == ASSUME NoCopies PROVE Spec => []RefsExact
BY Invariant, RefsAre, PTL

\* channelcount is exact and within chanserv:maxregistered.
THEOREM CountKept == ASSUME NoCopies PROVE Spec => []CountExact
BY Invariant, CountIs, PTL

\* No nickname has two owners, and a display that is known is one of the account's.
THEOREM DisplayKept == ASSUME NoCopies PROVE Spec => []DisplayFollows
BY Invariant, DisplayIs, PTL

\* A channel passes to a successor with room for all that the founder had.
THEOREM ChannelsPassOn == ASSUME NoCopies PROVE Spec => Inherited
<1>1. IInv /\ [Next]_vars
      => [\A x \in Open(db) :
            LET c == db.chan[x].founder
                s == db.chan[x].successor
            IN ( /\ c \in Alive(db) /\ db'.aliases[c] = << >>
                 /\ s \in Alive(db) \ {c} /\ db.count[s] + db.count[c] <= MaxReg )
               => x \in Open(db') /\ db'.chan[x].founder = s]_vars
    BY Step, InheritedIs
<1> QED
    BY <1>1, Invariant, PTL DEF Spec, Inherited

-----------------------------------------------------------------------------
(***************************************************************************)
(* The database file.                                                      *)
(***************************************************************************)

\* No daily backup is of a day to come.
Newest == \A s \in Stamps : s > today => backups["daily"][s] = Missing

\* What is in the database file, and when it cannot be read.  Services that
\* save over a file they could not read have gone on without its data.
FileOK ==
    /\ main.state = "good" => main.data = hist.saved
    /\ main.state = "missing" => hist.saved = Empty
    /\ run.pc = "daily" => main.state # "missing"
    /\ run.pc \in {"daily", "monthly", "open"} /\ main.state = "damaged" => hist.blank
    /\ run.pc = "write" => main.state = "damaged"

\* Where the last complete save is.  That it is somewhere does not carry over a
\* step: it has to be in the daily backups before the file is opened.
Held == \E s \in Stamps : backups["daily"][s] = Good(hist.saved)
Safe ==
    hist.saved # Empty /\ ~hist.blank /\ ~hist.failed =>
        \/ main.state = "good" /\ run.pc \in {"down", "idle", "daily"}
        \/ Held

\* The copy of the file that modules are given their objects from.
Fresh ==
    /\ run.pc = "idle" /\ ~run.quitting /\ store.loaded => store.data = hist.saved
    /\ run.pc = "down" => ~store.loaded

\* Unless services went on without the data of a file, that copy has of the types
\* that are not known what the file has of them; and of the others as well until
\* a save has failed.
StoreApart ==
    ~hist.blank =>
        /\ run.pc = "idle" /\ ~run.quitting => store.data = hist.saved
        /\ Preserve /\ run.pc # "down" => \A t \in Types \ known : store.data[t] = hist.saved[t]

\* The inductive invariant of the file, its backups and the copy in memory.
StoreIInv == StoreTypeOK /\ Newest /\ FileOK /\ Safe /\ Fresh /\ StoreApart

-----------------------------------------------------------------------------
\* What is assumed of the configuration.
LEMMA Constants ==
    /\ Keep \in Nat \ {0} /\ MonthLength \in Nat \ {0} /\ LastDay \in Nat /\ MaxChanges \in Nat
    /\ Core \subseteq Types /\ Freed \subseteq Types /\ Full \in BOOLEAN /\ Ignore \in BOOLEAN /\ Preserve \in BOOLEAN
BY KeepAssumption, BoundsAssumption, TypesAssumption, SwitchAssumption

\* The empty database, and what is left of one for some types, are data.
LEMMA EmptyIsData == Empty \in Data /\ \A S : \A d \in Data : Only(S, d) \in Data
<1>1. << >> \in Seq(1 .. MaxChanges)
    OBVIOUS
<1> DEFINE D == Seq(1 .. MaxChanges)
<1>2. << >> \in D
    BY <1>1
<1> HIDE DEF D
<1>3. Empty \in [Types -> D] /\ \A S : \A d \in [Types -> D] : Only(S, d) \in [Types -> D]
    BY <1>2 DEF Empty, Only
<1> QED
    BY <1>3 DEF Data, D

\* What there is in memory of a type.
LEMMA InMemoryType ==
    ASSUME mem \in Data, orphans \in Data, NEW t \in Types PROVE InMemory(t) \in Seq(1 .. MaxChanges)
<1>1. mem[t] \in Seq(1 .. MaxChanges) /\ orphans[t] \in Seq(1 .. MaxChanges)
    BY DEF Data
<1> QED
    BY <1>1 DEF InMemory

\* A missing, a damaged and a good file are files.
LEMMA FileTypes ==
    /\ Missing \in FileType /\ Damaged \in FileType
    /\ \A d \in Data : Good(d) \in FileType
    /\ Missing.state = "missing" /\ Damaged.state = "damaged"
    /\ \A d : Good(d).state = "good" /\ Good(d).data = d
BY EmptyIsData DEF Missing, Damaged, Good, File, FileType

\* The stamp of a backup is no later than the day it is made.
LEMMA StampType ==
    ASSUME NEW kind \in Kinds, NEW d \in 0 .. LastDay PROVE Stamp(kind, d) \in Stamps
<1>1. d \div MonthLength \in 0 .. d
    BY Constants
<1>2. d \in Stamps /\ d \div MonthLength \in Stamps
    BY <1>1, Constants DEF Stamps
<1> QED
    BY <1>2 DEF Stamp

\* The oldest copies go, and never the newest: at least one is kept.
LEMMA RotateOK ==
    ASSUME NEW c \in [Stamps -> FileType]
    PROVE  /\ Rotate(c) \in [Stamps -> FileType]
           /\ \A s \in Stamps : Rotate(c)[s] \in {c[s], Missing}
           /\ \A s \in Stamps : c[s].state # "missing" /\ (\A r \in Stamps : r > s => c[r] = Missing)
                 => Rotate(c)[s] = c[s]
<1>1. /\ Rotate(c) \in [Stamps -> FileType]
      /\ \A s \in Stamps : Rotate(c)[s] \in {c[s], Missing}
    BY FileTypes DEF Rotate
<1>2. ASSUME NEW s \in Stamps, c[s].state # "missing", \A r \in Stamps : r > s => c[r] = Missing
      PROVE  Rotate(c)[s] = c[s]
    <2>1. {r \in There(c) : r >= s} = {s}
        BY <1>2, FileTypes, Constants DEF There, Stamps
    <2>2. Cardinality({r \in There(c) : r >= s}) = 1
        BY <2>1, FS_Singleton
    <2> QED
        BY <2>2, Constants DEF Rotate
<1> QED
    BY <1>1, <1>2

\* One backup: the file is copied or not, and the oldest copies go.
LEMMA BackupOK ==
    ASSUME backups \in [Kinds -> [Stamps -> FileType]], today \in 0 .. LastDay,
           NEW kind \in Kinds, NEW copy \in FileType, Newest
    PROVE  LET B == CreateBackup(kind, copy)
           IN  /\ B \in [Kinds -> [Stamps -> FileType]]
               /\ kind # "daily" => B["daily"] = backups["daily"]
               /\ \A s \in Stamps : s > today => B["daily"][s] = Missing
               /\ kind = "daily" /\ copy.state # "missing" => B["daily"][today] = copy
<1> DEFINE st == Stamp(kind, today)
           c == [backups[kind] EXCEPT ![st] = copy]
           B == CreateBackup(kind, copy)
<1>1. st \in Stamps /\ "daily" \in Kinds
    BY StampType DEF Kinds
<1>2. B = [backups EXCEPT ![kind] = Rotate(c)]
    BY DEF CreateBackup
<1>3. c \in [Stamps -> FileType] /\ c[st] = copy /\ \A s \in Stamps : s # st => c[s] = backups[kind][s]
    BY <1>1
<1>4. kind = "daily" => st = today
    BY DEF Stamp
<1> HIDE DEF c, st, B
<1>5. B \in [Kinds -> [Stamps -> FileType]] /\ B[kind] = Rotate(c)
      /\ (kind # "daily" => B["daily"] = backups["daily"])
    BY <1>1, <1>2, <1>3, RotateOK
<1>6. ASSUME kind = "daily"
      PROVE  /\ \A s \in Stamps : s > today => B["daily"][s] = Missing
             /\ copy.state # "missing" => B["daily"][today] = copy
    <2>1. \A s \in Stamps : s > today => c[s] = Missing
        BY <1>1, <1>3, <1>4, <1>6 DEF Newest, Stamps
    <2>2. \A s \in Stamps : Rotate(c)[s] \in {c[s], Missing}
        BY <1>3, RotateOK
    <2>3. copy.state # "missing" => Rotate(c)[today] = copy
        BY <1>1, <1>3, <1>4, <1>6, <2>1, RotateOK
    <2> QED
        BY <1>5, <1>6, <2>1, <2>2, <2>3
<1> QED
    BY <1>5, <1>6 DEF Newest, B

-----------------------------------------------------------------------------
\* A new installation: there is no file yet.
LEMMA Start0 == ASSUME StoreInit PROVE StoreIInv
<1>1. StoreTypeOK
    <2>1. backups \in [Kinds -> [Stamps -> FileType]] /\ main \in FileType
        BY FileTypes DEF StoreInit
    <2>2. mem \in Data /\ \A t \in Types : mem[t] = << >>
        BY EmptyIsData DEF StoreInit, Empty
    <2>5. orphans \in Data /\ \A t \in Types : orphans[t] = << >>
        BY EmptyIsData DEF StoreInit, Empty
    <2>3. /\ store \in [opened : BOOLEAN, loaded : BOOLEAN, data : Data]
          /\ hist \in [changes : 0 .. MaxChanges, saved : Data, blank : BOOLEAN, failed : BOOLEAN]
        BY EmptyIsData, Constants DEF StoreInit, Closed
    <2>4. /\ run \in [pc : {"down", "idle", "open", "write"} \cup Kinds, quitting : BOOLEAN]
          /\ known \subseteq Types /\ today \in 0 .. LastDay
        BY Constants DEF StoreInit
    <2> QED
        BY <2>1, <2>2, <2>3, <2>4, <2>5, Constants DEF StoreTypeOK
<1>2. /\ run.pc = "down" /\ main = Missing /\ hist.saved = Empty /\ ~store.loaded
      /\ \A s \in Stamps : backups["daily"][s] = Missing
    BY DEF StoreInit, Closed, Kinds
<1>3. Newest /\ FileOK /\ Safe /\ Fresh /\ StoreApart
    BY <1>2, FileTypes DEF Newest, FileOK, Safe, Fresh, StoreApart
<1> QED
    BY <1>1, <1>3 DEF StoreIInv

\* Services start: only a file that can be read is loaded.
LEMMA StartOK == ASSUME StoreIInv, NEW S \in SUBSET Types, Start(S) PROVE StoreIInv'
<1>1. /\ run.pc = "down" /\ run' = [pc |-> "idle", quitting |-> FALSE] /\ known' = S
      /\ main' = main /\ backups' = backups /\ today' = today /\ orphans' = orphans /\ Load(S)
    BY DEF Start
<1>2. /\ StoreTypeOK /\ main \in FileType
    BY DEF StoreIInv, StoreTypeOK
<1>3. /\ hist' \in [changes : 0 .. MaxChanges, saved : Data, blank : BOOLEAN, failed : BOOLEAN]
      /\ hist'.saved = hist.saved /\ hist'.failed = hist.failed
      /\ hist.blank => hist'.blank
      /\ main.state = "damaged" => hist'.blank
    BY <1>1, <1>2 DEF Load, StoreTypeOK
<1>4. /\ store' \in [opened : BOOLEAN, loaded : BOOLEAN, data : Data]
      /\ mem' \in Data /\ \A t \in Types \ S : mem'[t] = << >>
      /\ store'.loaded => main.state = "good" /\ store'.data = main.data
      /\ main.state = "good" => store'.data = main.data
      /\ main.state = "missing" => store'.data = Empty
    <2>1. CASE main.state = "good"
        <3>1. /\ store' = [opened |-> TRUE, loaded |-> TRUE, data |-> main.data]
              /\ mem' = Only(S, main.data) /\ main.data \in Data
            BY <1>1, <1>2, <2>1 DEF Load, FileType
        <3>2. \A t \in Types \ S : mem'[t] = << >>
            BY <3>1 DEF Only
        <3> QED
            BY <2>1, <3>1, <3>2, EmptyIsData
    <2>2. CASE main.state # "good"
        <3>1. store' = Closed /\ mem' = Empty
            BY <1>1, <2>2 DEF Load
        <3>2. \A t \in Types \ S : mem'[t] = << >>
            BY <3>1 DEF Empty
        <3> QED
            BY <2>2, <3>1, <3>2, EmptyIsData DEF Closed
    <2> QED
        BY <2>1, <2>2
<1>5. StoreTypeOK'
    BY <1>1, <1>2, <1>3, <1>4 DEF StoreTypeOK
<1>6. Newest' /\ FileOK' /\ Safe' /\ Fresh'
    BY <1>1, <1>3, <1>4 DEF StoreIInv, Newest, FileOK, Safe, Held, Fresh
<1>7. StoreApart'
    <2>1. ~hist'.blank => store'.data = hist'.saved
        BY <1>2, <1>3, <1>4 DEF StoreIInv, FileOK, FileType
    <2> QED
        BY <2>1 DEF StoreApart
<1> QED
    BY <1>5, <1>6, <1>7 DEF StoreIInv

\* What Exit and Crash leave in memory.
LEMMA DownOK ==
    ASSUME StoreIInv, Down, main' = main,
           backups' \in [Kinds -> [Stamps -> FileType]], Newest', Safe'
    PROVE  StoreIInv'
<1>1. /\ run' = [pc |-> "down", quitting |-> FALSE] /\ known' = {} /\ mem' = Empty
      /\ orphans' = Empty /\ store' = Closed /\ today' = today /\ hist' = hist
    BY DEF Down
<1>2. StoreTypeOK'
    BY <1>1, EmptyIsData, Constants DEF StoreIInv, StoreTypeOK, Closed, Empty
<1>3. FileOK' /\ Fresh' /\ StoreApart'
    BY <1>1 DEF StoreIInv, FileOK, Fresh, Closed, StoreApart
<1> QED
    BY <1>2, <1>3 DEF StoreIInv

\* Services end once they are quitting and no save is under way.
LEMMA ExitOK == ASSUME StoreIInv, Exit PROVE StoreIInv'
<1>1. Down /\ main' = main /\ backups' = backups /\ run.pc = "idle"
    BY DEF Exit, Up
<1>2. Newest' /\ Safe'
    BY <1>1 DEF StoreIInv, Newest, Safe, Held, Down
<1>3. backups' \in [Kinds -> [Stamps -> FileType]]
    BY <1>1 DEF StoreIInv, StoreTypeOK
<1> QED
    BY <1>1, <1>2, <1>3, DownOK

\* A copy that was being made when services died is damaged; the file it was
\* made of is not, because the file is opened only when both copies are there.
LEMMA CrashOK == ASSUME StoreIInv, Crash PROVE StoreIInv'
<1>1. Down /\ main' = main /\ run.pc # "down"
    BY DEF Crash
<1>2. /\ backups \in [Kinds -> [Stamps -> FileType]] /\ today \in 0 .. LastDay
    BY DEF StoreIInv, StoreTypeOK
<1>3. CASE backups' = backups
    <2>1. Newest' /\ Safe'
        BY <1>1, <1>3 DEF StoreIInv, Newest, Safe, Held, Down
    <2> QED
        BY <1>1, <1>2, <1>3, <2>1, DownOK
<1>4. CASE run.pc \in Kinds /\ backups' = [backups EXCEPT ![run.pc][Stamp(run.pc, today)] = Damaged]
    <2> DEFINE st == Stamp(run.pc, today)
    <2>1. st \in Stamps /\ (run.pc = "daily" => st = today)
        BY <1>2, <1>4, StampType DEF Stamp
    <2> HIDE DEF st
    <2>2. backups' = [backups EXCEPT ![run.pc] = [backups[run.pc] EXCEPT ![st] = Damaged]]
        BY <1>4 DEF st
    <2>3. /\ backups' \in [Kinds -> [Stamps -> FileType]]
          /\ run.pc # "daily" => backups'["daily"] = backups["daily"]
          /\ \A s \in Stamps : run.pc = "daily" /\ s # st => backups'["daily"][s] = backups["daily"][s]
        <3> DEFINE c == [backups[run.pc] EXCEPT ![st] = Damaged]
        <3>1. /\ c \in [Stamps -> FileType]
              /\ \A s \in Stamps : s # st => c[s] = backups[run.pc][s]
            BY <1>2, <1>4, <2>1, FileTypes
        <3>2. "daily" \in Kinds
            BY DEF Kinds
        <3> HIDE DEF c
        <3> QED
            BY <1>2, <1>4, <2>2, <3>1, <3>2 DEF c
    <2>4. Newest'
        BY <1>1, <1>2, <2>1, <2>3 DEF StoreIInv, Newest, Down, Stamps
    <2>5. Safe'
        <3>1. CASE run.pc = "daily"
            <4>1. main.state = "good" \/ hist.blank
                BY <3>1 DEF StoreIInv, FileOK, StoreTypeOK, FileType
            <4>2. run'.pc = "down" /\ hist' = hist
                BY <1>1 DEF Down
            <4> QED
                BY <1>1, <4>1, <4>2 DEF Safe
        <3>2. CASE run.pc = "monthly"
            BY <1>1, <2>3, <3>2 DEF StoreIInv, Safe, Held, Down
        <3> QED
            BY <1>4, <3>1, <3>2 DEF Kinds
    <2> QED
        BY <1>1, <2>3, <2>4, <2>5, DownOK
<1> QED
    BY <1>3, <1>4 DEF Crash

-----------------------------------------------------------------------------
(* Changes, modules and days.                                              *)

\* A step, outside a save, that touches only what is in memory.
LEMMA MemoryOK ==
    ASSUME StoreIInv, run' = run, store' = store, main' = main, backups' = backups, today' = today,
           known' \subseteq Types, mem' \in Data, \A t \in Types \ known' : mem'[t] = << >>,
           orphans' \in Data, \A t \in Freed \cup Core : orphans'[t] = << >>,
           hist' \in [changes : 0 .. MaxChanges, saved : Data, blank : BOOLEAN, failed : BOOLEAN],
           hist'.saved = hist.saved, hist'.blank = hist.blank, hist'.failed = hist.failed,
           run.pc = "idle", ~run.quitting
    PROVE  StoreIInv'
<1>1. StoreTypeOK'
    BY DEF StoreIInv, StoreTypeOK
<1>2. Newest' /\ FileOK' /\ Safe' /\ Fresh' /\ StoreApart'
    BY DEF StoreIInv, Newest, FileOK, Safe, Held, Fresh, StoreApart
<1> QED
    BY <1>1, <1>2 DEF StoreIInv

\* Data changes, and modules come and go.
LEMMA ModulesOK ==
    ASSUME StoreIInv, NEW t \in Types, Change(t) \/ UnloadModule(t) \/ LoadModule(t)
    PROVE  StoreIInv'
<1>1. /\ mem \in Data /\ orphans \in Data /\ known \subseteq Types /\ store.data \in Data
      /\ \A u \in Types \ known : mem[u] = << >>
      /\ \A u \in Freed \cup Core : orphans[u] = << >>
      /\ hist \in [changes : 0 .. MaxChanges, saved : Data, blank : BOOLEAN, failed : BOOLEAN]
    BY DEF StoreIInv, StoreTypeOK
<1> run.pc = "idle" /\ ~run.quitting
    BY DEF Change, UnloadModule, LoadModule, Up
<1>2. CASE Change(t)
    <2>1. /\ mem' = [mem EXCEPT ![t] = <<hist.changes + 1>>]
          /\ hist' = [hist EXCEPT !.changes = @ + 1]
          /\ hist.changes + 1 \in 1 .. MaxChanges /\ t \in known
          /\ run' = run /\ known' = known /\ orphans' = orphans /\ store' = store /\ main' = main
          /\ backups' = backups /\ today' = today
        BY <1>1, <1>2, Constants DEF Change
    <2>2. mem' \in Data /\ \A u \in Types \ known' : mem'[u] = << >>
        BY <1>1, <2>1 DEF Data
    <2> QED
        BY <1>1, <2>1, <2>2, MemoryOK
<1>3. CASE UnloadModule(t)
    <2>1. /\ mem' = [mem EXCEPT ![t] = << >>] /\ known' = known \ {t} /\ hist' = hist
          /\ orphans' = [orphans EXCEPT ![t] = IF t \in Freed THEN orphans[t] ELSE InMemory(t)] /\ t \notin Core
          /\ run' = run /\ store' = store /\ main' = main /\ backups' = backups /\ today' = today
        BY <1>3 DEF UnloadModule
    <2>2. mem' \in Data /\ \A u \in Types \ known' : mem'[u] = << >>
        BY <1>1, <2>1, Constants DEF Data
    <2>3. InMemory(t) \in Seq(1 .. MaxChanges)
        BY <1>1, InMemoryType
    <2>4. orphans' \in Data /\ \A u \in Freed \cup Core : orphans'[u] = << >>
        BY <1>1, <2>1, <2>3, Constants DEF Data
    <2> QED
        BY <1>1, <2>1, <2>2, <2>4, MemoryOK
<1>4. CASE LoadModule(t)
    <2>1. /\ mem' = [mem EXCEPT ![t] = IF store.loaded THEN store.data[t] ELSE << >>]
          /\ known' = known \cup {t} /\ hist' = hist /\ orphans' = orphans
          /\ run' = run /\ store' = store /\ main' = main /\ backups' = backups /\ today' = today
        BY <1>4 DEF LoadModule
    <2> DEFINE D == Seq(1 .. MaxChanges)
               new == IF store.loaded THEN store.data[t] ELSE << >>
    <2>3. << >> \in D /\ mem \in [Types -> D] /\ store.data \in [Types -> D]
        BY <1>1 DEF Data
    <2> HIDE DEF D
    <2>4. new \in D
        BY <2>3
    <2> HIDE DEF new
    <2>5. mem' = [mem EXCEPT ![t] = new]
        BY <2>1 DEF new
    <2>6. mem' \in [Types -> D] /\ \A u \in Types \ known' : mem'[u] = << >>
        BY <1>1, <2>1, <2>3, <2>4, <2>5
    <2>2. mem' \in Data /\ \A u \in Types \ known' : mem'[u] = << >>
        BY <2>6 DEF Data, D
    <2> QED
        BY <1>1, <2>1, <2>2, MemoryOK
<1> QED
    BY <1>2, <1>3, <1>4

\* The day changes: there is no backup of the new one yet.
LEMMA NextDayOK == ASSUME StoreIInv, NextDay PROVE StoreIInv'
<1>1. /\ today' = today + 1 /\ today < LastDay /\ today \in 0 .. LastDay /\ run' = run
      /\ known' = known /\ mem' = mem /\ orphans' = orphans /\ store' = store /\ main' = main /\ backups' = backups
      /\ hist' = hist
    BY DEF NextDay, StoreIInv, StoreTypeOK
<1>2. StoreTypeOK'
    <2>1. today' \in 0 .. LastDay
        BY <1>1, Constants
    <2> QED
        BY <1>1, <2>1 DEF StoreIInv, StoreTypeOK
<1>3. Newest'
    BY <1>1, Constants DEF StoreIInv, Newest, Stamps
<1>4. FileOK' /\ Safe' /\ Fresh' /\ StoreApart'
    BY <1>1 DEF StoreIInv, FileOK, Safe, Held, Fresh, StoreApart
<1> QED
    BY <1>2, <1>3, <1>4 DEF StoreIInv

-----------------------------------------------------------------------------
(* A save.                                                                 *)

\* A save begins: what is known is collected, the rest comes from the file.
LEMMA SaveOK == ASSUME StoreIInv, NEW quit \in BOOLEAN, Save(quit) PROVE StoreIInv'
<1>1. /\ run.pc = "idle" /\ store' = [store EXCEPT !.opened = TRUE, !.data = Collect(store.data)]
      /\ run' = [pc |-> IF main.state = "missing" THEN "open" ELSE "daily",
                 quitting |-> run.quitting \/ quit]
      /\ hist' = [hist EXCEPT !.blank = hist.blank \/ main.state = "damaged"]
      /\ known' = known /\ mem' = mem /\ orphans' = orphans /\ main' = main /\ backups' = backups /\ today' = today
    BY DEF Save, Up
<1>2. StoreTypeOK /\ main \in FileType
    BY DEF StoreIInv, StoreTypeOK
<1>3. Collect(store.data) \in Data
    <2>1. store.data \in Data /\ \A t \in Types : InMemory(t) \in Seq(1 .. MaxChanges)
        BY <1>2, InMemoryType DEF StoreTypeOK
    <2> DEFINE D == Seq(1 .. MaxChanges)
    <2>2. << >> \in D /\ store.data \in [Types -> D] /\ \A t \in Types : InMemory(t) \in D
        BY <2>1 DEF Data
    <2> HIDE DEF D
    <2>3. Collect(store.data) \in [Types -> D]
        BY <2>2 DEF Collect
    <2> QED
        BY <2>3 DEF Data, D
<1>4. /\ hist' \in [changes : 0 .. MaxChanges, saved : Data, blank : BOOLEAN, failed : BOOLEAN]
      /\ hist'.saved = hist.saved /\ hist'.failed = hist.failed
      /\ hist'.blank = (hist.blank \/ main.state = "damaged")
    BY <1>1, <1>2 DEF StoreTypeOK
<1>5. StoreTypeOK'
    BY <1>1, <1>2, <1>3, <1>4 DEF StoreTypeOK, Kinds
<1>6. Newest' /\ FileOK' /\ Fresh'
    BY <1>1, <1>4 DEF StoreIInv, Newest, FileOK, Fresh
<1>7. Safe'
    <2>1. main.state \in {"good", "damaged", "missing"}
        BY <1>2 DEF FileType
    <2> QED
        BY <1>1, <1>4, <2>1 DEF StoreIInv, Safe, Held, FileOK
<1>8. StoreApart'
    <2>1. Preserve => \A t \in Types \ known : Collect(store.data)[t] = store.data[t]
        BY DEF Collect
    <2>2. store'.data = Collect(store.data) /\ run'.pc # "idle"
        BY <1>1, <1>2 DEF StoreTypeOK
    <2> QED
        BY <1>1, <1>4, <2>1, <2>2 DEF StoreIInv, StoreApart
<1> QED
    BY <1>5, <1>6, <1>7, <1>8 DEF StoreIInv

\* One of the two backups is made, or fails.
LEMMA BackupsOK ==
    ASSUME StoreIInv, NEW kind \in Kinds, Backup(kind) \/ BackupFails(kind)
    PROVE  StoreIInv'
<1>1. /\ StoreTypeOK /\ main \in FileType /\ backups \in [Kinds -> [Stamps -> FileType]]
      /\ today \in 0 .. LastDay /\ Newest
    BY DEF StoreIInv, StoreTypeOK
<1>2. /\ run.pc = kind /\ run'.pc = AfterBackup(kind) /\ known' = known /\ mem' = mem /\ orphans' = orphans
      /\ store' = store /\ main' = main /\ today' = today
      /\ run' \in [pc : {"down", "idle", "open", "write"} \cup Kinds, quitting : BOOLEAN]
      /\ run'.pc \in {"monthly", "open"} /\ (kind = "daily" => run'.pc = "monthly")
    BY <1>1, Constants DEF Backup, BackupFails, AfterBackup, Kinds, StoreTypeOK
<1>3. /\ hist' \in [changes : 0 .. MaxChanges, saved : Data, blank : BOOLEAN, failed : BOOLEAN]
      /\ hist'.saved = hist.saved /\ hist'.blank = hist.blank
      /\ hist'.failed = hist.failed \/ hist'.failed
    BY <1>1 DEF Backup, BackupFails, StoreTypeOK
<1>4. PICK copy \in FileType : backups' = CreateBackup(kind, copy) /\ (copy = main \/ hist'.failed)
    <2>1. CASE Backup(kind)
        BY <1>1, <2>1 DEF Backup
    <2>2. CASE BackupFails(kind)
        <3>1. backups[kind][Stamp(kind, today)] \in FileType /\ Damaged \in FileType
            BY <1>1, StampType, FileTypes
        <3> QED
            BY <1>1, <2>2, <3>1 DEF BackupFails, StoreTypeOK
    <2> QED
        BY <2>1, <2>2
<1>5. /\ backups' \in [Kinds -> [Stamps -> FileType]]
      /\ kind # "daily" => backups'["daily"] = backups["daily"]
      /\ \A s \in Stamps : s > today => backups'["daily"][s] = Missing
      /\ kind = "daily" /\ copy.state # "missing" => backups'["daily"][today] = copy
    BY <1>1, <1>4, BackupOK
<1>6. StoreTypeOK'
    BY <1>1, <1>2, <1>3, <1>5 DEF StoreTypeOK
<1>7. Newest' /\ Fresh' /\ StoreApart'
    BY <1>2, <1>3, <1>5 DEF StoreIInv, Newest, Fresh, StoreApart, Kinds
<1>8. FileOK'
    BY <1>2, <1>3 DEF StoreIInv, FileOK, Kinds
<1>9. Safe'
    <2> SUFFICES ASSUME hist'.saved # Empty, ~hist'.blank, ~hist'.failed PROVE Held'
        BY DEF Safe
    <2>1. copy = main /\ ~hist.blank /\ ~hist.failed /\ hist.saved # Empty
        BY <1>1, <1>3, <1>4 DEF Backup, BackupFails, StoreTypeOK
    <2>2. CASE kind = "daily"
        <3>1. main.state = "good" /\ main.data = hist.saved
            BY <1>1, <1>2, <2>1, <2>2 DEF StoreIInv, FileOK, FileType
        <3>2. main = Good(hist.saved)
            BY <1>1, <3>1 DEF FileType, Good, File
        <3>3. backups'["daily"][today] = Good(hist'.saved) /\ today \in Stamps
            BY <1>1, <1>3, <1>5, <2>1, <2>2, <3>1, <3>2 DEF Stamps
        <3> QED
            BY <3>3 DEF Held
    <2>3. CASE kind # "daily"
        BY <1>2, <1>3, <1>5, <2>1, <2>3 DEF StoreIInv, Safe, Held, Kinds
    <2> QED
        BY <2>2, <2>3
<1> QED
    BY <1>6, <1>7, <1>8, <1>9 DEF StoreIInv

\* From here on the file is of no use until it is written to the end.
LEMMA OpenFileOK == ASSUME StoreIInv, OpenFile PROVE StoreIInv'
<1>1. /\ run.pc = "open" /\ main' = Damaged /\ run' = [run EXCEPT !.pc = "write"]
      /\ known' = known /\ mem' = mem /\ orphans' = orphans /\ store' = store /\ backups' = backups
      /\ today' = today /\ hist' = hist
    BY DEF OpenFile
<1>2. StoreTypeOK' /\ run'.pc = "write"
    BY <1>1, FileTypes DEF StoreIInv, StoreTypeOK
<1>3. Newest' /\ FileOK' /\ Fresh' /\ StoreApart'
    BY <1>1, <1>2, FileTypes DEF StoreIInv, Newest, FileOK, Fresh, StoreApart
<1>4. Safe'
    BY <1>1, <1>2 DEF StoreIInv, Safe, Held
<1> QED
    BY <1>2, <1>3, <1>4 DEF StoreIInv

\* The file is complete.
LEMMA WriteOK == ASSUME StoreIInv, Write PROVE StoreIInv'
<1>1. /\ run.pc = "write" /\ main' = Good(store.data) /\ run' = [run EXCEPT !.pc = "idle"]
      /\ hist' = [hist EXCEPT !.saved = store.data]
      /\ known' = known /\ mem' = mem /\ orphans' = orphans /\ store' = store /\ backups' = backups /\ today' = today
    BY DEF Write
<1>2. StoreTypeOK' /\ run'.pc = "idle" /\ hist'.saved = store.data
    BY <1>1, FileTypes DEF StoreIInv, StoreTypeOK
<1>3. main'.state = "good" /\ main'.data = store.data
    BY <1>1, FileTypes
<1>4. Newest' /\ FileOK' /\ Safe' /\ Fresh' /\ StoreApart'
    BY <1>1, <1>2, <1>3 DEF StoreIInv, Newest, FileOK, Safe, Fresh, StoreApart, Kinds
<1> QED
    BY <1>2, <1>4 DEF StoreIInv

\* The disk is full: the file stays damaged, and the backups are what is left.
LEMMA WriteFailsOK == ASSUME StoreIInv, WriteFails PROVE StoreIInv'
<1>1. /\ run.pc = "write" /\ run' = [pc |-> "idle", quitting |-> TRUE] /\ hist' = hist
      /\ known' = known /\ mem' = mem /\ orphans' = orphans /\ store' = store /\ main' = main
      /\ backups' = backups /\ today' = today
    BY DEF WriteFails
<1>2. StoreTypeOK'
    BY <1>1 DEF StoreIInv, StoreTypeOK
<1>3. Newest' /\ FileOK' /\ Safe' /\ Fresh' /\ StoreApart'
    BY <1>1 DEF StoreIInv, Newest, FileOK, Safe, Held, Fresh, StoreApart, Kinds
<1> QED
    BY <1>2, <1>3 DEF StoreIInv

\* One step of services, or of the machine they run on.
LEMMA StoreStep == ASSUME StoreIInv, [StoreNext]_storeVars PROVE StoreIInv'
<1>1. CASE UNCHANGED storeVars
    BY <1>1 DEF storeVars, StoreIInv, StoreTypeOK, Newest, FileOK, Safe, Held, Fresh, StoreApart
<1> QED
    BY <1>1, StartOK, ExitOK, CrashOK, ModulesOK, NextDayOK, SaveOK, BackupsOK,
       OpenFileOK, WriteOK, WriteFailsOK DEF StoreNext

-----------------------------------------------------------------------------
\* Every reachable state satisfies the inductive invariant.
THEOREM StoreInvariant == StoreSpec => []StoreIInv
<1>1. StoreInit => StoreIInv
    BY Start0
<1>2. StoreIInv /\ [StoreNext]_storeVars => StoreIInv'
    BY StoreStep
<1> QED
    BY <1>1, <1>2, PTL DEF StoreSpec

\* Wherever a crash hits a save, what was saved before is in the database file
\* or in one of its backups (OnSaveDatabase in db_json.cpp).
THEOREM AlwaysRecoverable == StoreSpec => []Recoverable
<1>1. StoreIInv => Recoverable
    <2> SUFFICES ASSUME StoreIInv PROVE Recoverable
        OBVIOUS
    <2>1. StoreTypeOK /\ main \in FileType
        BY DEF StoreIInv, StoreTypeOK
    <2>2. ASSUME hist.saved # Empty, ~hist.blank, ~hist.failed PROVE Good(hist.saved) \in Files
        <3>1. CASE main.state = "good"
            <4>1. main = Good(hist.saved)
                BY <2>1, <3>1 DEF StoreIInv, FileOK, FileType, Good, File
            <4> QED
                BY <4>1 DEF Files
        <3>2. CASE Held
            BY <3>2 DEF Held, Files, Kinds
        <3> QED
            BY <2>2, <3>1, <3>2 DEF StoreIInv, Safe
    <2> QED
        BY <2>1, <2>2 DEF Recoverable
<1> QED
    BY <1>1, StoreInvariant, PTL

\* A module that is loaded again works with what was last saved of its types, and
\* if it deletes its objects when it goes there is nothing else of them in memory
\* (OnSerializeTypeCreate).
THEOREM AlwaysRestored == StoreSpec => ReloadRestores
<1>1. StoreIInv /\ [StoreNext]_storeVars =>
        [store.loaded => \A t \in known' \ known :
            /\ mem'[t] = hist.saved[t]
            /\ t \in Freed => InMemory(t)' = hist.saved[t]]_storeVars
    <2> SUFFICES ASSUME StoreIInv, StoreNext, store.loaded, NEW t \in known' \ known
                 PROVE  mem'[t] = hist.saved[t] /\ (t \in Freed => InMemory(t)' = hist.saved[t])
        OBVIOUS
    <2>1. CASE \E S \in SUBSET Types : Start(S)
        <3>1. run.pc = "down"
            BY <2>1 DEF Start
        <3> QED
            BY <3>1 DEF StoreIInv, Fresh
    <2>2. CASE \E u \in Types : LoadModule(u)
        <3>1. PICK u \in Types : LoadModule(u)
            BY <2>2
        <3>2. /\ t = u /\ run.pc = "idle" /\ ~run.quitting /\ mem \in Data /\ orphans' = orphans
              /\ mem' = [mem EXCEPT ![u] = IF store.loaded THEN store.data[u] ELSE << >>]
              /\ store.data \in Data /\ (t \in Freed => orphans[t] = << >>)
            BY <3>1 DEF LoadModule, Up, StoreIInv, StoreTypeOK
        <3>3. mem'[t] = hist.saved[t] /\ hist.saved[t] \in Seq(1 .. MaxChanges)
            BY <3>2 DEF StoreIInv, Fresh, Data
        <3>4. InMemory(t)' = orphans'[t] \o mem'[t]
            BY DEF InMemory
        <3>5. \A q \in Seq(1 .. MaxChanges) : << >> \o q = q
            OBVIOUS
        <3> QED
            BY <3>2, <3>3, <3>4, <3>5
    <2>3. CASE /\ ~ \E S \in SUBSET Types : Start(S)
               /\ ~ \E u \in Types : LoadModule(u)
        <3>1. known' \subseteq known
            BY <2>3 DEF StoreNext, Exit, Crash, Down, OpenFile, Write, WriteFails, NextDay, Change,
                        UnloadModule, Save, Backup, BackupFails
        <3> QED
            BY <3>1
    <2> QED
        BY <2>1, <2>2, <2>3
<1> QED
    BY <1>1, StoreInvariant, PTL DEF StoreSpec, ReloadRestores

-----------------------------------------------------------------------------
(* What a rotation takes away.                                             *)

\* There are finitely many copies, and of some of them one is the newest.
LEMMA Newer ==
    ASSUME NEW T \in SUBSET Stamps
    PROVE  /\ IsFiniteSet(T) /\ Cardinality(T) \in Nat
           /\ T # {} => \E w \in T : \A r \in T : w >= r
<1>1. IsFiniteSet(Stamps)
    BY Constants, FS_Interval DEF Stamps
<1>2. IsFiniteSet(T) /\ Cardinality(T) \in Nat
    BY <1>1, FS_Subset, FS_CardinalityType
<1>3. ASSUME T # {} PROVE \E w \in T : \A r \in T : w >= r
    <2> DEFINE n == LastDay + 1
               s == {r + 1 : r \in T}
    <2>1. n \in Nat /\ s \in SUBSET (1 .. n) /\ s # {}
        <3>1. LastDay \in Nat /\ \A r \in T : r \in 0 .. LastDay
            BY Constants DEF Stamps
        <3>2. \A r \in T : r + 1 \in 1 .. n
            BY <3>1
        <3> QED
            BY <1>3, <3>1, <3>2
    <2>2. \A r \in T : r + 1 \in s /\ r \in Int
        BY DEF Stamps
    <2>3. \A x \in s : \E r \in T : x = r + 1
        OBVIOUS
    <2> HIDE DEF n, s
    <2>4. Max(s) \in s /\ \A y \in s : Max(s) >= y
        BY <2>1, MaxOf
    <2> QED
        BY <2>2, <2>3, <2>4
<1> QED
    BY <1>2, <1>3

\* A copy that goes leaves as many newer ones as are to be kept.
LEMMA RotateKeeps ==
    ASSUME NEW c \in [Stamps -> FileType], NEW s \in There(c), Rotate(c)[s] # c[s]
    PROVE  Cardinality({r \in There(Rotate(c)) : r > s}) >= Keep
<1> DEFINE T == There(c)
           From(w) == {r \in T : r >= w}
           Past(w) == {r \in T : r > w}
           W == {w \in T : Cardinality(From(w)) > Keep}
           L == {r \in There(Rotate(c)) : r > s}
<1>1. T \in SUBSET Stamps /\ Stamps \subseteq Int /\ s \in W
    BY DEF There, Stamps, Rotate
<1>2. \A r \in T : c[r].state # "missing" /\ (r \notin W => Rotate(c)[r] = c[r])
    BY DEF There, Rotate
<1>3. L \in SUBSET Stamps
    BY DEF There, Rotate
<1>4. There(Rotate(c)) = {r \in Stamps : Rotate(c)[r].state # "missing"}
    <2>1. DOMAIN Rotate(c) = Stamps
        BY DEF Rotate
    <2> QED
        BY DEF There
<1> HIDE DEF T
<1>5. PICK w \in W : \A r \in W : w >= r
    <2>1. W \in SUBSET Stamps /\ W # {}
        BY <1>1
    <2> HIDE DEF W
    <2> QED
        BY <2>1, Newer
<1>6. Past(w) \subseteq L
    <2> SUFFICES ASSUME NEW r \in T, r > w PROVE r \in L
        OBVIOUS
    <2>1. r \in Int /\ s \in Int /\ w \in Int /\ w >= s /\ ~(w >= r)
        BY <1>1, <1>5
    <2>2. Rotate(c)[r].state # "missing"
        BY <1>2, <1>5, <2>1
    <2> QED
        BY <1>1, <1>4, <2>1, <2>2
<1>7. From(w) = Past(w) \cup {w} /\ w \notin Past(w)
    <2>1. w \in T /\ \A r \in T : r \in Int
        BY <1>1, <1>5
    <2> QED
        BY <2>1
<1>8. Cardinality(From(w)) > Keep
    BY <1>5
<1>9. Past(w) \in SUBSET Stamps
    BY <1>1
<1> HIDE DEF From, Past, W, L
<1>10. Cardinality(From(w)) = Cardinality(Past(w)) + 1 /\ Cardinality(Past(w)) \in Nat
    BY <1>7, <1>9, Newer, FS_AddElement
<1>11. Cardinality(Past(w)) <= Cardinality(L) /\ Cardinality(L) \in Nat
    BY <1>3, <1>6, Newer, FS_Subset
<1> QED
    BY <1>8, <1>10, <1>11, Constants DEF L

\* A backup of an earlier day or month is not written again, and goes only for
\* newer ones (CreateBackup in db_json.cpp).
LEMMA EarlierDays ==
    ASSUME StoreIInv, StoreNext, NEW kind \in Kinds, NEW s \in There(backups[kind]),
           s < Stamp(kind, today), backups'[kind][s] # backups[kind][s]
    PROVE  Cardinality({r \in There(backups'[kind]) : r > s}) >= Keep
<1>1. /\ backups \in [Kinds -> [Stamps -> FileType]] /\ today \in 0 .. LastDay
      /\ main \in FileType
    BY DEF StoreIInv, StoreTypeOK
<1>2. s \in Stamps /\ s # Stamp(kind, today) /\ Stamp(kind, today) \in Stamps
    BY <1>1, StampType DEF There, Stamps
<1>3. ASSUME NEW k \in Kinds, NEW copy \in FileType, backups' = CreateBackup(k, copy)
      PROVE  Cardinality({r \in There(backups'[kind]) : r > s}) >= Keep
    <2> DEFINE c == [backups[kind] EXCEPT ![Stamp(kind, today)] = copy]
    <2>1. k = kind /\ backups'[kind] = Rotate(c)
        BY <1>1, <1>3 DEF CreateBackup
    <2>2. c \in [Stamps -> FileType] /\ c[s] = backups[kind][s] /\ s \in There(c)
        BY <1>1, <1>2 DEF There
    <2> HIDE DEF c
    <2> QED
        BY <2>1, <2>2, RotateKeeps
<1>4. CASE \E k \in Kinds : Backup(k)
    BY <1>1, <1>3, <1>4 DEF Backup
<1>5. CASE \E k \in Kinds : BackupFails(k)
    <2>1. PICK k \in Kinds : BackupFails(k)
        BY <1>5
    <2>2. Damaged \in FileType /\ backups[k][Stamp(k, today)] \in FileType
        BY <1>1, StampType, FileTypes
    <2> QED
        BY <1>3, <2>1, <2>2 DEF BackupFails
<1>6. CASE Crash
    BY <1>1, <1>2, <1>6 DEF Crash
<1>7. CASE backups' = backups
    BY <1>7
<1> QED
    BY <1>4, <1>5, <1>6, <1>7 DEF StoreNext, Start, Exit, OpenFile, Write, WriteFails, NextDay, Change,
       UnloadModule, LoadModule, Save

\* A save writes back what the file has of types that are not known (Collect).
LEMMA UnknownKept ==
    ASSUME StoreIInv, StoreNext, Preserve, ~hist.blank, NEW t \in Types \ known
    PROVE  hist'.saved[t] = hist.saved[t]
<1>1. CASE Write
    <2>1. hist'.saved = store.data /\ run.pc = "write"
        BY <1>1 DEF Write, StoreIInv, StoreTypeOK
    <2> QED
        BY <2>1 DEF StoreIInv, StoreApart
<1>2. CASE ~Write
    <2>1. hist'.saved = hist.saved
        BY <1>2 DEF StoreNext, Start, Load, Exit, Crash, Down, OpenFile, WriteFails, NextDay, Change,
           UnloadModule, LoadModule, Save, Backup, BackupFails, StoreIInv, StoreTypeOK
    <2> QED
        BY <2>1
<1> QED
    BY <1>1, <1>2

\* A bad day does not spoil the backups of the days before, and a save not what
\* belongs to a module that is not loaded (OnSaveDatabase and CreateBackup).
THEOREM AlwaysKept == StoreSpec => EarlierKept
<1>1. StoreIInv /\ [StoreNext]_storeVars =>
        [\A kind \in Kinds : \A s \in There(backups[kind]) :
           s < Stamp(kind, today) /\ backups'[kind][s] # backups[kind][s] =>
              Cardinality({r \in There(backups'[kind]) : r > s}) >= Keep]_storeVars
    BY EarlierDays
<1>2. StoreIInv /\ [StoreNext]_storeVars =>
        [Preserve /\ ~hist.blank =>
           \A t \in Types \ known : hist'.saved[t] = hist.saved[t]]_storeVars
    BY UnknownKept
<1> QED
    BY <1>1, <1>2, StoreInvariant, PTL DEF StoreSpec, EarlierKept
=============================================================================
