--------------------------- MODULE Enforcement_proof ---------------------------
(***************************************************************************)
(* Proofs about what services enforce on a network that goes its own way:  *)
(* who may use a nickname (Protect) and which modes a channel has (Modes). *)
(*                                                                         *)
(* Protect: for any number of users, nicknames and timers, somebody who    *)
(* was asked to identify is pursued until he does or leaves the nickname,  *)
(* a nickname marked HELD is held, and RECOVER is under way as long as     *)
(* somebody waits for it.                                                  *)
(*                                                                         *)
(* Modes: for any modes, keys and timestamps, the record services keep of  *)
(* a channel is what the network has once every line has arrived, and the  *)
(* network has what the mode locks demand.                                 *)
(***************************************************************************)
EXTENDS Protect, Modes, Folding, TLAPS

---------------------------------------------------------------------------
(* NickServ: the nicknames *)

Names == Nicks \cup {Guest}

Client == [nick : Names \cup {None}, acct : Accounts \cup {None}, burst : BOOLEAN,
           svs : Users \cup {None}, proved : BOOLEAN, timers : [Timers -> Nat]]

\* A change to a guest nickname, which nobody can refuse, is on its way.
Leaving(f) == \E i \in 1 .. Len(f) : f[i] = Guest

\* What is always true of one user and the changes on their way to him.  That
\* *some* change is on its way would not be inductive: it may be one to the
\* nickname he is on already.
UserOK(x, f) ==
    /\ x \in Client /\ f \in Seq(Names)
    /\ x.nick \in Nicks /\ ~x.proved =>
          /\ x.acct # x.nick
          /\ x.timers[<<x.nick, "live">>] > 0 \/ Leaving(f)
    /\ x.svs # None => x.nick \in Nicks /\ Leaving(f)

\* What is always true of the marks of one nickname.
MarkOK(m) ==
    /\ m \in [collided : BOOLEAN, held : BOOLEAN, releases : Nat, hold : Nat]
    /\ m.hold <= m.releases
    /\ m.held => m.hold # 0

UsersOK == /\ user \in [Users -> Client] /\ force \in [Users -> Seq(Names)]
           /\ \A u \in Users : UserOK(user[u], force[u])
MarksOK == /\ mark \in [Nicks -> [collided : BOOLEAN, held : BOOLEAN,
                                  releases : Nat, hold : Nat]]
           /\ \A n \in Nicks : MarkOK(mark[n])
Bounded == /\ \A u \in Users : Len(force[u]) <= MaxForce
                            /\ \A t \in Timers : user[u].timers[t] <= MaxTimers
           /\ \A n \in Nicks : mark[n].releases <= MaxHeld
IInv == UsersOK /\ MarksOK /\ Bounded

-----------------------------------------------------------------------------
(* The parts of the handlers.                                              *)

\* No nickname of the network is mistaken for the absence of one.
LEMMA Sentinels == Guest # None /\ Guest \notin Nicks /\ None \notin Names
                     /\ None \notin Users /\ Nicks \subseteq Accounts /\ None \notin Accounts
BY NicksAssumption, AccountsAssumption DEF Names

LEMMA GoneOK == UserOK(Gone, << >>)
BY Sentinels DEF UserOK, Client, Gone, Names

\* A user who is asked has a timer for the nickname he is asked about.
LEMMA ValidateOK ==
    ASSUME NEW x \in Client, NEW f \in Seq(Names), x.nick \in Nicks, x.acct # x.nick,
           x.svs # None => Leaving(f)
    PROVE  UserOK(Validate(x, x.nick), f)
<1> DEFINE t == <<x.nick, "live">>
           y == Validate(x, x.nick)
<1>1. t \in Timers
    BY DEF Timers
<1>2. x.timers \in [Timers -> Nat]
    BY DEF Client
<1>3. y = [x EXCEPT !.timers = [x.timers EXCEPT ![t] = @ + 1], !.proved = FALSE]
    BY DEF Validate
<1>4. /\ [x.timers EXCEPT ![t] = @ + 1] \in [Timers -> Nat]
      /\ [x.timers EXCEPT ![t] = @ + 1][t] > 0
    BY <1>1, <1>2
<1>5. /\ y \in Client /\ y.nick = x.nick /\ y.acct = x.acct /\ y.svs = x.svs
      /\ y.timers[t] > 0
    BY <1>3, <1>4 DEF Client
<1> QED
    BY <1>5 DEF UserOK

LEMMA AgedType ==
    ASSUME NEW x \in Client PROVE Aged(x) \in [Timers -> Nat]
<1> SUFFICES ASSUME NEW t \in Timers PROVE Aged(x)[t] \in Nat
    BY DEF Aged
<1>1. x.timers \in [Timers -> Nat] /\ <<t[1], "live">> \in Timers
    BY DEF Client, Timers
<1>2. x.timers[t] + x.timers[<<t[1], "live">>] \in Nat
    BY <1>1
<1> QED
    BY <1>2, BoundsAssumption DEF Aged

\* Whatever came before, a user who arrives at a nickname is as he should be.
LEMMA ArriveOK ==
    ASSUME NEW x \in Client, NEW n \in Names, NEW later \in BOOLEAN, NEW f \in Seq(Names)
    PROVE  UserOK(Arrive(x, n, later), f)
<1> DEFINE moved == [x EXCEPT !.nick = n, !.svs = None, !.proved = TRUE,
                              !.timers = IF later THEN Aged(x) ELSE @]
<1>1. /\ moved \in Client /\ moved.nick = n /\ moved.svs = None
      /\ moved.proved = TRUE /\ moved.acct = x.acct
    BY AgedType DEF Client
<1>2. UserOK(moved, f)
    BY <1>1 DEF UserOK
<1>3. CASE n \in Nicks /\ n # x.acct
    <2>1. UserOK(Validate(moved, moved.nick), f)
        BY <1>1, <1>3, ValidateOK
    <2>2. Arrive(x, n, later) = Validate(moved, n)
        BY <1>3 DEF Arrive
    <2> QED
        BY <2>1, <2>2, <1>1
<1>4. CASE ~(n \in Nicks /\ n # x.acct)
    BY <1>2, <1>4 DEF Arrive
<1> QED
    BY <1>3, <1>4

\* More changes on their way do no harm.
LEMMA AppendOK ==
    ASSUME NEW x, NEW f, NEW a \in Names, UserOK(x, f)
    PROVE  UserOK(x, Append(f, a)) /\ (a = Guest => Leaving(Append(f, a)))
<1>1. f \in Seq(Names)
    BY DEF UserOK
<1>2. /\ Append(f, a) \in Seq(Names) /\ Len(Append(f, a)) = Len(f) + 1
      /\ Append(f, a)[Len(f) + 1] = a
      /\ \A i \in 1 .. Len(f) : Append(f, a)[i] = f[i]
    BY <1>1
<1>3. Len(f) \in Nat
    BY <1>1
<1>4. Leaving(f) => Leaving(Append(f, a))
    BY <1>2, <1>3 DEF Leaving
<1>5. a = Guest => Leaving(Append(f, a))
    BY <1>2, <1>3 DEF Leaving
<1> QED
    BY <1>2, <1>4, <1>5 DEF UserOK

\* The change that has been made was not the one that gets the user off.
LEMMA TailOK ==
    ASSUME NEW x, NEW f, UserOK(x, f), f # << >>, Head(f) = x.nick
    PROVE  UserOK(x, Tail(f))
<1>1. f \in Seq(Names) /\ Tail(f) \in Seq(Names) /\ Len(f) \in Nat
    BY DEF UserOK
<1>2. ASSUME x.nick \in Nicks, Leaving(f) PROVE Leaving(Tail(f))
    <2>1. PICK i \in 1 .. Len(f) : f[i] = Guest
        BY <1>2 DEF Leaving
    <2>2. i # 1
        BY <1>1, <1>2, <2>1, Sentinels
    <2>3. i - 1 \in 1 .. Len(Tail(f)) /\ Tail(f)[i - 1] = f[i]
        BY <1>1, <2>1, <2>2
    <2> QED
        BY <2>1, <2>3 DEF Leaving
<1> QED
    BY <1>1, <1>2 DEF UserOK

LEMMA LoginOK ==
    ASSUME NEW x, NEW f, UserOK(x, f), NEW a \in Accounts
    PROVE  UserOK(Login(x, a), f) /\ Login(x, a).nick = x.nick
<1>1. /\ Login(x, a) \in Client
      /\ Login(x, a).nick = x.nick /\ Login(x, a).svs = x.svs
      /\ Login(x, a).timers = x.timers /\ Login(x, a).acct = a
      /\ Login(x, a).proved = (x.proved \/ x.nick = a)
    BY DEF Login, UserOK, Client
<1> QED
    BY <1>1 DEF UserOK

\* OnCancel and Release keep the HELD mark and the hold together.
LEMMA OnCancelOK ==
    ASSUME MarksOK, NEW n \in Names
    PROVE  /\ OnCancel(mark, n) \in [Nicks -> [collided : BOOLEAN, held : BOOLEAN,
                                              releases : Nat, hold : Nat]]
           /\ \A k \in Nicks : MarkOK(OnCancel(mark, n)[k])
BY DEF MarksOK, MarkOK, OnCancel

LEMMA ReleaseOK ==
    ASSUME MarksOK, NEW n \in Nicks
    PROVE  /\ Release(mark, n) \in [Nicks -> [collided : BOOLEAN, held : BOOLEAN,
                                             releases : Nat, hold : Nat]]
           /\ \A k \in Nicks : MarkOK(Release(mark, n)[k])
<1> DEFINE m == mark[n]
           free == [m EXCEPT !.collided = FALSE, !.held = FALSE,
                             !.hold = IF m.held THEN 0 ELSE @]
<1>1. /\ m \in [collided : BOOLEAN, held : BOOLEAN, releases : Nat, hold : Nat]
      /\ m.hold <= m.releases
    BY DEF MarksOK, MarkOK
<1>2. MarkOK(free)
    <2>1. /\ free.held = FALSE /\ free.releases = m.releases
          /\ free.hold = 0 \/ free.hold = m.hold
        BY <1>1
    <2>2. free \in [collided : BOOLEAN, held : BOOLEAN, releases : Nat, hold : Nat]
        BY <1>1
    <2> QED
        BY <1>1, <2>1, <2>2 DEF MarkOK
<1>3. Release(mark, n) = [mark EXCEPT ![n] = free]
    BY DEF Release, MarksOK
<1> QED
    BY <1>2, <1>3 DEF MarksOK, MarkOK

-----------------------------------------------------------------------------
(* The actions.                                                            *)

\* A step that changes one user, to somebody as he should be, and nothing else
\* of the users.
LEMMA OneUser ==
    ASSUME UsersOK, NEW u \in Users, NEW x, UserOK(x, force[u]),
           user' = [user EXCEPT ![u] = x], force' = force
    PROVE  UsersOK'
BY DEF UsersOK, UserOK

\* A change to `a' is sent to each user of S.
Sent(S, a) == [w \in Users |-> IF w \in S THEN Append(force[w], a) ELSE force[w]]

LEMMA SentOK ==
    ASSUME UsersOK, NEW S, NEW a \in Names
    PROVE  /\ Sent(S, a) \in [Users -> Seq(Names)]
           /\ \A u \in Users : UserOK(user[u], Sent(S, a)[u])
BY AppendOK DEF Sent, UsersOK, UserOK

\* Connect.
LEMMA ConnectOK ==
    ASSUME IInv, NEW u \in Users, NEW n \in Names, NEW a \in Accounts \cup {None},
           NEW burst \in BOOLEAN, Connect(u, n, a, burst)
    PROVE  IInv'
<1> DEFINE x == [Gone EXCEPT !.nick = n, !.acct = a, !.burst = burst]
           y == IF burst \/ n \notin Nicks THEN x ELSE Validate(x, n)
<1>1. /\ x \in Client /\ x.nick = n /\ x.acct = a /\ x.svs = None /\ x.proved = TRUE
      /\ \A t \in Timers : x.timers[t] = 0
    BY DEF Gone, Client
<1>2. force[u] \in Seq(Names)
    BY DEF IInv, UsersOK
<1>3. user' = [user EXCEPT ![u] = y] /\ mark' = mark /\ force' = force
    BY DEF Connect
<1>4. ~burst => a = None
    BY DEF Connect
<1>5. UserOK(y, force[u])
    <2>1. CASE burst \/ n \notin Nicks
        BY <1>1, <1>2, <2>1 DEF UserOK
    <2>2. CASE ~burst /\ n \in Nicks
        BY <1>1, <1>2, <1>4, <2>2, ValidateOK, Sentinels
    <2> QED
        BY <2>1, <2>2
<1>6. \A t \in Timers : y.timers[t] <= MaxTimers
    <2>1. MaxTimers >= 1 /\ MaxTimers \in Nat
        BY BoundsAssumption
    <2>2. \A t \in Timers : y.timers[t] \in {0, 1}
        BY <1>1 DEF Validate, Client
    <2> QED
        BY <2>1, <2>2
<1>7. UsersOK'
    BY <1>3, <1>5, OneUser DEF IInv
<1>8. Bounded'
    BY <1>3, <1>6 DEF IInv, Bounded, UsersOK
<1> QED
    BY <1>3, <1>7, <1>8 DEF IInv, MarksOK

\* Sync.
LEMMA SyncOK ==
    ASSUME IInv, Sync PROVE IInv'
<1> DEFINE asked(x) == x.burst /\ x.acct = None /\ x.nick \in Nicks
           y(x) == IF asked(x) THEN [Validate(x, x.nick) EXCEPT !.burst = FALSE]
                   ELSE [x EXCEPT !.burst = FALSE]
<1>1. user' = [u \in Users |-> y(user[u])] /\ mark' = mark /\ force' = force
    BY DEF Sync
<1>2. ASSUME NEW u \in Users PROVE UserOK(y(user[u]), force[u])
    <2> DEFINE x == user[u]
    <2>1. UserOK(x, force[u]) /\ x \in Client /\ force[u] \in Seq(Names)
        BY DEF IInv, UsersOK, UserOK
    <2>2. CASE asked(x)
        <3>1. UserOK(Validate(x, x.nick), force[u])
            BY <2>1, <2>2, ValidateOK, Sentinels DEF UserOK
        <3> DEFINE v == Validate(x, x.nick)
        <3>2. v \in Client
            BY <3>1 DEF UserOK
        <3>3. UserOK([v EXCEPT !.burst = FALSE], force[u])
            BY <3>1, <3>2 DEF UserOK, Client
        <3> QED
            BY <2>2, <3>3
    <2>3. CASE ~asked(x)
        BY <2>1, <2>3 DEF UserOK, Client
    <2> QED
        BY <2>2, <2>3
<1>3. UsersOK'
    BY <1>1, <1>2 DEF IInv, UsersOK, UserOK
<1>4. Bounded'
    <2>1. InBounds
        BY DEF Sync
    <2> QED
        BY <1>1, <2>1 DEF InBounds, Bounded
<1> QED
    BY <1>1, <1>3, <1>4 DEF IInv, MarksOK

\* What the three ways to change nicknames have in common: u arrives at n, what
\* he left is held if he was forced off, and it is given to who asked for it.
LEMMA MoveOK ==
    ASSUME IInv, NEW u \in Users, u \in Online, NEW n \in Names, NEW later \in BOOLEAN,
           NEW S, NEW rest \in Seq(Names),
           user' = [user EXCEPT ![u] = Arrive(@, n, later)],
           mark' \in {mark, OnCancel(mark, user[u].nick)},
           force' = [Sent(S, user[u].nick) EXCEPT ![u] = rest],
           InBounds
    PROVE  IInv'
<1>1. user[u] \in Client /\ user[u].nick \in Names
    BY DEF IInv, UsersOK, Client, Online
<1>2. UserOK(Arrive(user[u], n, later), rest)
    BY <1>1, ArriveOK
<1>4. UsersOK'
    <2> DEFINE f == Sent(S, user[u].nick)
    <2>1. UsersOK /\ f \in [Users -> Seq(Names)] /\ \A w \in Users : UserOK(user[w], f[w])
        BY <1>1, SentOK DEF IInv
    <2>2. force' \in [Users -> Seq(Names)] /\ user' \in [Users -> Client]
        BY <1>2, <2>1 DEF UsersOK, UserOK
    <2>3. ASSUME NEW w \in Users PROVE UserOK(user'[w], force'[w])
        <3>1. CASE w = u
            BY <1>2, <2>1, <3>1 DEF UsersOK
        <3>2. CASE w # u
            BY <2>1, <3>2 DEF UsersOK
        <3> QED
            BY <3>1, <3>2
    <2> QED
        BY <2>2, <2>3 DEF UsersOK
<1>5. MarksOK'
    <2>1. CASE mark' = mark
        BY <2>1 DEF IInv, MarksOK
    <2>2. CASE mark' = OnCancel(mark, user[u].nick)
        BY <1>1, <2>2, OnCancelOK DEF IInv, MarksOK
    <2> QED
        BY <2>1, <2>2
<1>6. Bounded'
    BY DEF InBounds, Bounded
<1> QED
    BY <1>4, <1>5, <1>6 DEF IInv

\* NickChange.
LEMMA NickChangeOK ==
    ASSUME IInv, NEW u \in Users, NEW n \in Names, NEW later \in BOOLEAN,
           NickChange(u, n, later)
    PROVE  IInv'
<1> DEFINE old == user[u].nick
           S   == {user[u].svs}
<1>1. u \in Online /\ old \in Names
    <2>1. u \in Online
        BY DEF NickChange
    <2>2. user[u] \in Client
        BY DEF IInv, UsersOK
    <2> QED
        BY <2>1, <2>2 DEF Online, Client
<1>2. /\ user' = [user EXCEPT ![u] = Arrive(@, n, later)]
      /\ mark' \in {mark, OnCancel(mark, old)}
      /\ force' = [w \in Users |-> IF w # user[u].svs THEN force[w] ELSE Append(force[w], old)]
      /\ InBounds
    BY DEF NickChange, ChangeNick
<1>3. force' = Sent(S, old)
    BY <1>2 DEF Sent
<1>4. Sent(S, old) \in [Users -> Seq(Names)]
    <2> HIDE DEF S, old
    <2> QED
        BY <1>1, SentOK DEF IInv
<1>5. Sent(S, old) = [Sent(S, old) EXCEPT ![u] = Sent(S, old)[u]] /\ Sent(S, old)[u] \in Seq(Names)
    <2> DEFINE f == Sent(S, old)
    <2>1. f \in [Users -> Seq(Names)]
        BY <1>4
    <2> HIDE DEF f
    <2>2. f = [f EXCEPT ![u] = f[u]] /\ f[u] \in Seq(Names)
        BY <2>1
    <2> QED
        BY <2>2 DEF f
<1> DEFINE rest == Sent(S, old)[u]
<1>6. rest \in Seq(Names) /\ force' = [Sent(S, user[u].nick) EXCEPT ![u] = rest]
    BY <1>3, <1>5
<1> HIDE DEF S, rest
<1> QED
    BY <1>1, <1>2, <1>6, MoveOK

\* ApplyForce.
LEMMA ApplyForceOK ==
    ASSUME IInv, NEW u \in Users, ApplyForce(u)
    PROVE  IInv'
<1> DEFINE to   == Head(force[u])
           n    == IF to # Guest /\ UsersOn(to) \ {u} # {} THEN Guest ELSE to
           old  == user[u].nick
           sent == [force EXCEPT ![u] = Tail(@)]
           S    == {user[u].svs} \ {u}
           rest == IF u # user[u].svs THEN Tail(force[u]) ELSE Append(Tail(force[u]), old)
<1>1. /\ u \in Online /\ old \in Names /\ force[u] # << >> /\ InBounds
      /\ force \in [Users -> Seq(Names)] /\ UserOK(user[u], force[u])
    BY DEF ApplyForce, Online, IInv, UsersOK, Client, Names
<1>2. to \in Names /\ n \in Names /\ Tail(force[u]) \in Seq(Names)
    BY <1>1 DEF Names
<1>3. CASE n = old /\ force' = sent /\ UNCHANGED <<user, mark>>
    <2>1. force' = sent /\ user' = user /\ mark' = mark
        BY <1>3
    <2>2. UserOK(user[u], Tail(force[u]))
        <3>1. CASE to = old
            BY <1>1, <3>1, TailOK
        <3>2. CASE to # old
            <4>1. old = Guest
                BY <1>3, <3>2
            <4>2. old \notin Nicks
                BY <4>1, Sentinels
            <4> QED
                BY <1>1, <1>2, <4>2 DEF UserOK
        <3> QED
            BY <3>1, <3>2
    <2>3. UsersOK'
        BY <2>1, <2>2, <1>1 DEF IInv, UsersOK
    <2>4. Bounded'
        BY <1>1 DEF InBounds, Bounded
    <2> QED
        BY <2>1, <2>3, <2>4 DEF IInv, MarksOK
<1>4. CASE ChangeNick(u, n, TRUE, sent)
    <2>1. /\ user' = [user EXCEPT ![u] = Arrive(@, n, TRUE)]
          /\ mark' \in {mark, OnCancel(mark, old)}
          /\ force' = [w \in Users |-> IF w # user[u].svs THEN sent[w] ELSE Append(sent[w], old)]
        BY <1>4 DEF ChangeNick
    <2>2. rest \in Seq(Names)
        BY <1>1, <1>2
    <2>3. force' = [Sent(S, old) EXCEPT ![u] = rest]
        BY <2>1, <1>1 DEF Sent
    <2> HIDE DEF n, S, rest
    <2> QED
        BY <1>1, <1>2, <2>1, <2>2, <2>3, MoveOK
<1> QED
    BY <1>3, <1>4 DEF ApplyForce

\* A user is gone, and so are the references to him.
LEMMA LeaveOK ==
    ASSUME NEW U \in [Users -> Client], NEW f \in [Users -> Seq(Names)],
           \A w \in Users : UserOK(U[w], f[w]), NEW u \in Users
    PROVE  /\ Leave(U, u) \in [Users -> Client]
           /\ \A w \in Users : w # u => UserOK(Leave(U, u)[w], f[w])
           /\ Leave(U, u)[u] = Gone
<1>1. Gone \in Client
    BY GoneOK DEF UserOK
<1>2. ASSUME NEW w \in Users, w # u
      PROVE  UserOK([U[w] EXCEPT !.svs = None], f[w])
    BY DEF UserOK, Client
<1>3. ASSUME NEW w \in Users
      PROVE  /\ Leave(U, u)[w] \in Client
             /\ w # u => UserOK(Leave(U, u)[w], f[w])
    BY <1>1, <1>2 DEF Leave, UserOK
<1> QED
    BY <1>3 DEF Leave

\* Quit.
LEMMA QuitOK ==
    ASSUME IInv, NEW u \in Users, Quit(u)
    PROVE  IInv'
<1>1. /\ user' = Leave(user, u) /\ mark' = OnCancel(mark, user[u].nick)
      /\ force' = [force EXCEPT ![u] = << >>] /\ InBounds /\ user[u].nick \in Names
    BY DEF Quit, Online, IInv, UsersOK, Client, Names
<1>2. UsersOK'
    <2>1. UsersOK
        BY DEF IInv
    <2>4. /\ user \in [Users -> Client] /\ force \in [Users -> Seq(Names)]
          /\ \A w \in Users : UserOK(user[w], force[w])
        BY <2>1 DEF UsersOK
    <2>5. /\ Leave(user, u) \in [Users -> Client] /\ Leave(user, u)[u] = Gone
          /\ \A w \in Users : w # u => UserOK(Leave(user, u)[w], force[w])
        BY <2>4, LeaveOK
    <2>6. /\ force' \in [Users -> Seq(Names)] /\ force'[u] = << >>
          /\ \A w \in Users : w # u => force'[w] = force[w]
        BY <1>1, <2>4
    <2>2. \A w \in Users : UserOK(user'[w], force'[w])
        <3> SUFFICES ASSUME NEW w \in Users PROVE UserOK(user'[w], force'[w])
            OBVIOUS
        <3>1. CASE w = u
            BY <1>1, <2>5, <2>6, <3>1, GoneOK
        <3>2. CASE w # u
            BY <1>1, <2>5, <2>6, <3>2
        <3> QED
            BY <3>1, <3>2
    <2>3. user' \in [Users -> Client] /\ force' \in [Users -> Seq(Names)]
        BY <1>1, <2>5, <2>6
    <2> QED
        BY <2>2, <2>3 DEF UsersOK
<1>3. MarksOK'
    BY <1>1, OnCancelOK DEF IInv, MarksOK
<1>4. Bounded'
    BY <1>1 DEF InBounds, Bounded
<1> QED
    BY <1>2, <1>3, <1>4 DEF IInv

\* A timer that is gone is not missed: it was another nickname's, or nobody is
\* asked, or the change is on its way.
LEMMA TimerOK ==
    ASSUME NEW x, NEW f, UserOK(x, f), NEW t \in Timers, x.timers[t] > 0,
           t # <<x.nick, "live">> \/ x.proved \/ Leaving(f)
    PROVE  LET y == [x EXCEPT !.timers[t] = @ - 1]
           IN  UserOK(y, f) /\ \A r \in Timers : y.timers[r] <= x.timers[r]
<1> DEFINE less == [x.timers EXCEPT ![t] = @ - 1]
           y    == [x EXCEPT !.timers[t] = @ - 1]
<1>1. x \in Client /\ x.timers \in [Timers -> Nat]
    BY DEF UserOK, Client
<1>2. /\ less \in [Timers -> Nat] /\ \A r \in Timers : less[r] <= x.timers[r]
      /\ \A r \in Timers : r # t => less[r] = x.timers[r]
    BY <1>1
<1>3. y = [x EXCEPT !.timers = less]
    OBVIOUS
<1> HIDE DEF less, y
<1>4. /\ y \in Client /\ y.timers = less /\ y.nick = x.nick /\ y.acct = x.acct
      /\ y.svs = x.svs /\ y.proved = x.proved
    BY <1>1, <1>2, <1>3 DEF Client
<1>5. ASSUME x.nick \in Nicks, ~x.proved
      PROVE  y.timers[<<x.nick, "live">>] > 0 \/ Leaving(f)
    <2>1. <<x.nick, "live">> \in Timers
        BY <1>5 DEF Timers
    <2> QED
        BY <1>2, <1>4, <1>5, <2>1 DEF UserOK
<1>6. UserOK(y, f)
    BY <1>4, <1>5 DEF UserOK
<1> QED
    BY <1>2, <1>4, <1>6 DEF y

\* Identify.
LEMMA IdentifyOK ==
    ASSUME IInv, NEW u \in Users, NEW a \in Accounts, Identify(u, a)
    PROVE  IInv'
<1> DEFINE x     == Login(user[u], a)
           found == {t \in Timers : t[1] = a /\ x.timers[t] > 0}
<1>1. UserOK(x, force[u]) /\ x.timers = user[u].timers /\ x.nick = user[u].nick
    <2>1. UserOK(user[u], force[u])
        BY DEF IInv, UsersOK
    <2>2. UserOK(x, force[u]) /\ x.nick = user[u].nick
        BY <2>1, LoginOK
    <2>3. x.timers = user[u].timers
        BY <2>1 DEF Login, UserOK, Client
    <2> QED
        BY <2>2, <2>3
<1>2. x.nick = a => x.proved
    BY DEF Login, UserOK, Client, IInv, UsersOK
<1>3. mark' = mark /\ force' = force
    BY DEF Identify
<1>4. PICK y : /\ user' = [user EXCEPT ![u] = y] /\ UserOK(y, force[u])
               /\ \A r \in Timers : y.timers[r] <= x.timers[r]
    <2>1. CASE found = {}
        <3>1. user' = [user EXCEPT ![u] = x]
            BY <2>1 DEF Identify
        <3>2. \A r \in Timers : x.timers[r] <= x.timers[r]
            BY <1>1 DEF UserOK, Client
        <3> QED
            BY <1>1, <3>1, <3>2
    <2>2. CASE found # {}
        <3>1. PICK t \in found : user' = [user EXCEPT ![u] = [x EXCEPT !.timers[t] = @ - 1]]
            BY <2>2 DEF Identify
        <3>2. t # <<x.nick, "live">> \/ x.proved
            BY <1>2, <3>1
        <3> DEFINE y == [x EXCEPT !.timers[t] = @ - 1]
        <3>3. t \in Timers /\ x.timers[t] > 0
            BY <3>1
        <3> HIDE DEF x
        <3>4. UserOK(y, force[u]) /\ \A r \in Timers : y.timers[r] <= x.timers[r]
            BY <1>1, <3>2, <3>3, TimerOK
        <3> QED
            BY <3>1, <3>4
    <2> QED
        BY <2>1, <2>2
<1>5. UsersOK'
    BY <1>3, <1>4, OneUser DEF IInv
<1>6. Bounded'
    <2>1. \A r \in Timers : /\ y.timers[r] <= user[u].timers[r] /\ user[u].timers[r] <= MaxTimers
                            /\ y.timers[r] \in Nat /\ user[u].timers[r] \in Nat
        BY <1>1, <1>4 DEF IInv, Bounded, UsersOK, UserOK, Client
    <2>2. \A r \in Timers : y.timers[r] <= MaxTimers
        BY <2>1, BoundsAssumption
    <2> QED
        BY <1>3, <1>4, <2>2 DEF IInv, Bounded, UsersOK
<1> QED
    BY <1>3, <1>5, <1>6 DEF IInv, MarksOK

\* Logout.
LEMMA LogoutOK ==
    ASSUME IInv, NEW u \in Users, NEW revalidate \in BOOLEAN, Logout(u, revalidate)
    PROVE  IInv'
<1> DEFINE x == user[u]
           out == [x EXCEPT !.acct = None]
           y == IF revalidate /\ x.nick \in Nicks
                THEN [Validate(x, x.nick) EXCEPT !.acct = None] ELSE out
<1>1. UserOK(x, force[u]) /\ x \in Client /\ force[u] \in Seq(Names)
    BY DEF IInv, UsersOK, UserOK
<1>2. /\ user' = [user EXCEPT ![u] = y] /\ mark' = mark /\ force' = force /\ InBounds
    BY DEF Logout
<1>3. /\ out \in Client /\ out.nick = x.nick /\ out.acct = None /\ out.svs = x.svs
      /\ out.timers = x.timers /\ out.proved = x.proved
    BY <1>1 DEF Client
<1>4. UserOK(out, force[u])
    BY <1>1, <1>3, Sentinels DEF UserOK, Names
<1>5. UserOK(y, force[u])
    <2>1. CASE revalidate /\ x.nick \in Nicks
        <3>1. UserOK(Validate(out, out.nick), force[u])
            BY <1>1, <1>3, <2>1, ValidateOK, Sentinels DEF UserOK, Names
        <3>2. Validate(out, out.nick) = [Validate(x, x.nick) EXCEPT !.acct = None]
            BY <1>1 DEF Validate, Client
        <3> QED
            BY <2>1, <3>1, <3>2
    <2>2. CASE ~(revalidate /\ x.nick \in Nicks)
        BY <1>4, <2>2
    <2> QED
        BY <2>1, <2>2
<1>6. UsersOK'
    <2> HIDE DEF y
    <2> QED
        BY <1>2, <1>5, OneUser DEF IInv
<1>7. Bounded'
    BY <1>2 DEF InBounds, Bounded
<1> QED
    BY <1>2, <1>6, <1>7 DEF IInv, MarksOK

\* CollideTick: a user who is not logged in to the account is sent away in the
\* step in which the timer goes.
LEMMA CollideTickOK ==
    ASSUME IInv, NEW u \in Users, NEW n \in Nicks, CollideTick(u, n)
    PROVE  IInv'
<1> DEFINE x == user[u]
           t == <<n, "live">>
           y == [x EXCEPT !.timers[t] = @ - 1]
<1>1. /\ UserOK(x, force[u]) /\ UsersOK /\ MarksOK /\ x \in Client
      /\ t \in Timers /\ x.timers[t] > 0
    BY DEF IInv, UsersOK, CollideTick, Timers
<1>2. user' = [user EXCEPT ![u] = y] /\ InBounds
    BY <1>1 DEF CollideTick, UsersOK
<1>3. Bounded'
    BY <1>2 DEF InBounds, Bounded
<1>4. CASE x.acct = n
    <2>1. mark' = mark /\ force' = force
        BY <1>4 DEF CollideTick
    <2>2. t # <<x.nick, "live">> \/ x.proved
        BY <1>1, <1>4 DEF UserOK
    <2>3. UserOK(y, force[u])
        BY <1>1, <2>2, TimerOK
    <2>4. UsersOK'
        <3> HIDE DEF y
        <3> QED
            BY <1>1, <1>2, <2>1, <2>3, OneUser
    <2> QED
        BY <1>1, <1>3, <2>1, <2>4 DEF IInv, MarksOK
<1>5. CASE x.acct # n
    <2>1. /\ mark' = [mark EXCEPT ![n].collided = TRUE]
          /\ force' = [force EXCEPT ![u] = Append(@, Guest)]
        BY <1>5 DEF CollideTick, Collide
    <2> DEFINE f == Append(force[u], Guest)
    <2>2. UserOK(x, f) /\ Leaving(f)
        BY <1>1, AppendOK DEF Names
    <2>3. UserOK(y, f)
        BY <1>1, <2>2, TimerOK
    <2>4. UsersOK'
        <3> HIDE DEF y, f
        <3>1. force' = [force EXCEPT ![u] = f]
            BY <2>1 DEF f
        <3> QED
            BY <1>1, <1>2, <2>3, <3>1 DEF UsersOK, UserOK
    <2>5. MarksOK'
        BY <1>1, <2>1 DEF MarksOK, MarkOK
    <2> QED
        BY <1>3, <2>4, <2>5 DEF IInv
<1> QED
    BY <1>4, <1>5

\* StaleTick.
LEMMA StaleTickOK ==
    ASSUME IInv, NEW u \in Users, NEW n \in Nicks, StaleTick(u, n)
    PROVE  IInv'
<1> DEFINE x == user[u]
           t == <<n, "stale">>
           y == [x EXCEPT !.timers[t] = @ - 1]
<1>1. /\ UserOK(x, force[u]) /\ UsersOK /\ MarksOK /\ Bounded /\ x \in Client
      /\ t \in Timers /\ x.timers[t] > 0 /\ t # <<x.nick, "live">>
    BY DEF IInv, UsersOK, StaleTick, Timers
<1>2. user' = [user EXCEPT ![u] = y] /\ mark' = mark /\ force' = force
    BY <1>1 DEF StaleTick, UsersOK
<1>3. UserOK(y, force[u]) /\ \A r \in Timers : y.timers[r] <= x.timers[r]
    BY <1>1, TimerOK
<1> HIDE DEF y
<1>4. UsersOK'
    BY <1>1, <1>2, <1>3, OneUser
<1>5. \A r \in Timers : y.timers[r] <= MaxTimers
    <2>1. \A r \in Timers : /\ y.timers[r] <= x.timers[r] /\ x.timers[r] <= MaxTimers
                            /\ y.timers[r] \in Nat /\ x.timers[r] \in Nat
        BY <1>1, <1>3 DEF Bounded, UserOK, Client
    <2> QED
        BY <2>1, BoundsAssumption
<1>6. Bounded'
    BY <1>1, <1>2, <1>5 DEF Bounded, UsersOK
<1> QED
    BY <1>1, <1>2, <1>4, <1>6 DEF IInv, MarksOK

\* HeldTick.
LEMMA HeldTickOK ==
    ASSUME IInv, NEW n \in Nicks, HeldTick(n)
    PROVE  IInv'
<1> DEFINE m == mark[n]
           y == [m EXCEPT !.held = FALSE, !.releases = @ - 1,
                          !.hold = IF @ = 0 THEN 0 ELSE @ - 1]
<1>1. /\ UsersOK /\ MarksOK /\ Bounded /\ MarkOK(m) /\ m.releases > 0
      /\ m.releases <= MaxHeld
    BY DEF IInv, MarksOK, Bounded, HeldTick
<1>2. mark' = [mark EXCEPT ![n] = y] /\ user' = user /\ force' = force
    BY <1>1 DEF HeldTick, MarksOK
<1>3. MarkOK(y) /\ y.releases <= MaxHeld
    <2>1. /\ m \in [collided : BOOLEAN, held : BOOLEAN, releases : Nat, hold : Nat]
          /\ m.hold <= m.releases
        BY <1>1 DEF MarkOK
    <2>2. /\ y.held = FALSE /\ y.releases = m.releases - 1
          /\ y.hold = IF m.hold = 0 THEN 0 ELSE m.hold - 1
        BY <2>1
    <2>3. y.releases \in Nat /\ y.hold \in Nat /\ y.hold <= y.releases
        BY <1>1, <2>1, <2>2
    <2>4. y \in [collided : BOOLEAN, held : BOOLEAN, releases : Nat, hold : Nat]
        BY <2>1, <2>2, <2>3
    <2> QED
        BY <1>1, <2>1, <2>2, <2>3, <2>4, BoundsAssumption DEF MarkOK
<1> HIDE DEF y
<1>4. UsersOK'
    BY <1>1, <1>2 DEF UsersOK
<1>5. MarksOK' /\ Bounded'
    BY <1>1, <1>2, <1>3 DEF MarksOK, MarkOK, Bounded
<1> QED
    BY <1>4, <1>5 DEF IInv

\* The user who gave the password is logged in, and nobody else is touched.
LEMMA LoggedInOK ==
    ASSUME UsersOK, NEW s \in Users, NEW n \in Nicks
    PROVE  /\ LoggedIn(user, s, n) \in [Users -> Client]
           /\ \A w \in Users : /\ UserOK(LoggedIn(user, s, n)[w], force[w])
                               /\ w # s => LoggedIn(user, s, n)[w] = user[w]
<1>1. n \in Accounts
    BY Sentinels
<1>2. \A w \in Users : UserOK(user[w], force[w]) /\ user \in [Users -> Client]
    BY DEF UsersOK
<1>3. UserOK(Login(user[s], n), force[s])
    BY <1>1, <1>2, LoginOK
<1> QED
    BY <1>2, <1>3 DEF LoggedIn, UserOK

\* Recover.
LEMMA RecoverOK ==
    ASSUME IInv, NEW s \in Users, NEW n \in Nicks, Recover(s, n)
    PROVE  IInv'
<1>1. UsersOK /\ MarksOK /\ InBounds /\ n \in Names /\ user[s].nick # n
    BY DEF IInv, Recover, Names
<1>2. Bounded'
    BY <1>1 DEF InBounds, Bounded
<1> DEFINE U == LoggedIn(user, s, n)
<1>3. /\ U \in [Users -> Client] /\ force \in [Users -> Seq(Names)]
      /\ \A w \in Users : UserOK(U[w], force[w]) /\ (w # s => U[w] = user[w])
    BY <1>1, LoggedInOK DEF UsersOK
<1>4. CASE mark[n].held
    <2>1. mark' = Release(mark, n) /\ user' = user /\ force' = force
        BY <1>4 DEF Recover
    <2>2. UsersOK' /\ MarksOK'
        BY <1>1, <2>1, ReleaseOK DEF UsersOK, MarksOK
    <2> QED
        BY <1>2, <2>2 DEF IInv
<1>5. ASSUME ~mark[n].held, NEW u \in UsersOn(n), user[u].acct = n,
             user' = Leave(U, u), mark' = OnCancel(mark, n),
             force' = [force EXCEPT ![u] = << >>, ![s] = Append(@, n)]
      PROVE  IInv'
    <2>1. u \in Users /\ u # s
        BY <1>1, <1>5 DEF UsersOn
    <2> HIDE DEF U
    <2>2. /\ Leave(U, u) \in [Users -> Client] /\ Leave(U, u)[u] = Gone
          /\ \A w \in Users : w # u => UserOK(Leave(U, u)[w], force[w])
        BY <1>3, <2>1, LeaveOK
    <2>3. /\ force'[u] = << >> /\ force'[s] = Append(force[s], n)
          /\ \A w \in Users : w # u /\ w # s => force'[w] = force[w]
        BY <1>3, <1>5, <2>1
    <2>4. \A w \in Users : UserOK(user'[w], force'[w])
        <3> SUFFICES ASSUME NEW w \in Users PROVE UserOK(user'[w], force'[w])
            OBVIOUS
        <3>1. CASE w = u
            BY <1>5, <2>2, <2>3, <3>1, GoneOK
        <3>2. CASE w = s
            <4>1. UserOK(Leave(U, u)[s], force[s])
                BY <2>1, <2>2
            <4>2. UserOK(Leave(U, u)[s], Append(force[s], n))
                BY <1>1, <4>1, AppendOK
            <4>3. user'[s] = Leave(U, u)[s] /\ force'[s] = Append(force[s], n)
                BY <1>5, <2>3
            <4> QED
                BY <3>2, <4>2, <4>3
        <3>3. CASE w # u /\ w # s
            BY <1>5, <2>2, <2>3, <3>3
        <3> QED
            BY <3>1, <3>2, <3>3
    <2>5. force' \in [Users -> Seq(Names)] /\ user' \in [Users -> Client]
        <3>1. \A w \in Users : force'[w] \in Seq(Names)
            BY <2>4 DEF UserOK
        <3> QED
            BY <1>3, <1>5, <2>2, <3>1
    <2>6. MarksOK'
        BY <1>1, <1>5, OnCancelOK DEF MarksOK
    <2> QED
        BY <1>2, <2>4, <2>5, <2>6 DEF IInv, UsersOK
<1>6. ASSUME ~mark[n].held, NEW u \in UsersOn(n), user[u].acct # n,
             user' = [U EXCEPT ![u].svs = s], mark' = Release(mark, n),
             force' = [force EXCEPT ![u] = Append(@, Guest)]
      PROVE  IInv'
    <2>1. u \in Users /\ u # s /\ user[u].nick = n
        BY <1>1, <1>6 DEF UsersOn
    <2> HIDE DEF U
    <2> DEFINE f == Append(force[u], Guest)
               y == [U[u] EXCEPT !.svs = s]
    <2>2. UserOK(U[u], f) /\ Leaving(f) /\ U[u].nick \in Nicks
        BY <1>3, <2>1, AppendOK DEF Names
    <2>3. UserOK(y, f)
        BY <2>2 DEF UserOK, Client
    <2>4. user' = [U EXCEPT ![u] = y] /\ force' = [force EXCEPT ![u] = f]
        BY <1>3, <1>6, <2>1
    <2> HIDE DEF y, f
    <2>5. UsersOK'
        BY <1>3, <2>1, <2>3, <2>4 DEF UsersOK, UserOK
    <2>6. MarksOK'
        BY <1>1, <1>6, ReleaseOK DEF MarksOK
    <2> QED
        BY <1>2, <2>5, <2>6 DEF IInv
<1> QED
    BY <1>4, <1>5, <1>6 DEF Recover

-----------------------------------------------------------------------------
(* The theorems.                                                           *)

LEMMA InitOK == Init => IInv
<1> SUFFICES ASSUME Init PROVE IInv
    OBVIOUS
<1>1. \A u \in Users : user[u] = Gone /\ force[u] = << >>
    BY DEF Init
<1>2. Gone \in Client /\ << >> \in Seq(Names) /\ Len(<< >>) = 0
    BY GoneOK DEF UserOK
<1>3. UsersOK
    BY <1>1, <1>2, GoneOK DEF UsersOK, Init
<1>4. MarksOK
    BY DEF Init, MarksOK, MarkOK, Free
<1>5. Bounded
    <2>1. MaxForce \in Nat /\ MaxTimers \in Nat /\ MaxHeld \in Nat
        BY BoundsAssumption
    <2>2. \A t \in Timers : Gone.timers[t] = 0
        BY DEF Gone
    <2>3. \A n \in Nicks : mark[n].releases = 0
        BY DEF Init, Free
    <2> QED
        BY <1>1, <1>2, <2>1, <2>2, <2>3 DEF Bounded
<1> QED
    BY <1>3, <1>4, <1>5 DEF IInv

LEMMA StepOK == IInv /\ [Next]_vars => IInv'
<1> SUFFICES ASSUME IInv, [Next]_vars PROVE IInv'
    OBVIOUS
<1>1. CASE UNCHANGED vars
    BY <1>1 DEF vars, IInv, UsersOK, MarksOK, Bounded
<1>2. ASSUME NEW u \in Users, NEW n \in Names, NEW a \in Accounts \cup {None},
             NEW burst \in BOOLEAN, Connect(u, n, a, burst)
      PROVE  IInv'
    BY <1>2, ConnectOK
<1>3. ASSUME NEW u \in Users, NEW n \in Names, NEW later \in BOOLEAN, NickChange(u, n, later)
      PROVE  IInv'
    BY <1>3, NickChangeOK
<1>4. ASSUME NEW u \in Users,
             \/ ApplyForce(u) \/ Quit(u)
             \/ \E a \in Accounts : Identify(u, a)
             \/ \E revalidate \in BOOLEAN : Logout(u, revalidate)
      PROVE  IInv'
    BY <1>4, ApplyForceOK, QuitOK, IdentifyOK, LogoutOK
<1>5. ASSUME NEW u \in Users, NEW n \in Nicks,
             CollideTick(u, n) \/ StaleTick(u, n) \/ Recover(u, n)
      PROVE  IInv'
    BY <1>5, CollideTickOK, StaleTickOK, RecoverOK
<1>6. ASSUME NEW n \in Nicks, HeldTick(n) PROVE IInv'
    BY <1>6, HeldTickOK
<1> QED
    BY <1>1, <1>2, <1>3, <1>4, <1>5, <1>6, SyncOK DEF Next, Names

\* The invariant the theorems below are read off from: what UserOK and MarkOK
\* say holds after any sequence of commands, nickname changes and timers.
THEOREM Inductive == Spec => []IInv
BY InitOK, StepOK, PTL DEF Spec

\* Every variable keeps its type, and the network's hold of a nickname ends
\* with a release timer that is still running (OnCancel, HeldTick).
THEOREM TypeCorrect == Spec => []TypeOK
<1>1. IInv => TypeOK
    <2> SUFFICES ASSUME IInv PROVE TypeOK
        OBVIOUS
    <2>1. MaxTimers \in Nat /\ MaxHeld \in Nat
        BY BoundsAssumption
    <2>2. ASSUME NEW u \in Users
          PROVE  /\ user[u] \in [nick : Nicks \cup {Guest, None}, acct : Accounts \cup {None},
                                 burst : BOOLEAN, svs : Users \cup {None}, proved : BOOLEAN,
                                 timers : [Timers -> 0 .. MaxTimers]]
                 /\ Len(force[u]) <= MaxForce
        <3>1. user[u] \in Client /\ \A t \in Timers : user[u].timers[t] <= MaxTimers
            BY DEF IInv, UsersOK, Bounded
        <3>2. user[u].timers \in [Timers -> 0 .. MaxTimers]
            BY <2>1, <3>1 DEF Client
        <3>3. Len(force[u]) <= MaxForce
            BY DEF IInv, Bounded
        <3> QED
            BY <3>1, <3>2, <3>3 DEF Client, Names
    <2>3. ASSUME NEW n \in Nicks
          PROVE  /\ mark[n] \in [collided : BOOLEAN, held : BOOLEAN,
                                 releases : 0 .. MaxHeld, hold : 0 .. MaxHeld]
                 /\ mark[n].hold <= mark[n].releases
        <3>1. MarkOK(mark[n]) /\ mark[n].releases <= MaxHeld
            BY DEF IInv, MarksOK, Bounded
        <3> QED
            BY <2>1, <3>1 DEF MarkOK
    <2>4. user \in [Users -> Client] /\ DOMAIN mark = Nicks /\ mark = [n \in Nicks |-> mark[n]]
        BY DEF IInv, UsersOK, MarksOK
    <2> QED
        BY <2>2, <2>3, <2>4 DEF TypeOK
<1> QED
    BY <1>1, Inductive, PTL

\* A user who was asked to identify and has not is pursued: a timer for the
\* nickname he is on is running or a forced change is on its way, through every
\* interleaving of Validate, OnNickIdentify, LOGOUT, RECOVER and the timers.
THEOREM AlwaysPursued == Spec => []Pursued
<1>1. IInv => Pursued
    <2> SUFFICES ASSUME IInv, NEW u \in Users, Asked(u)
                 PROVE  user[u].timers[<<user[u].nick, "live">>] > 0 \/ force[u] # << >>
        BY DEF Pursued
    <2>1. UserOK(user[u], force[u])
        BY DEF IInv, UsersOK
    <2>2. Leaving(force[u]) => force[u] # << >>
        BY DEF Leaving
    <2> QED
        BY <2>1, <2>2 DEF UserOK, Asked
<1> QED
    BY <1>1, Inductive, PTL

\* What services mark as held the network holds (OnCancel, Release, Tick).
THEOREM AlwaysHeld == Spec => []HeldMeansHold
<1>1. IInv => HeldMeansHold
    BY DEF IInv, MarksOK, MarkOK, HeldMeansHold
<1> QED
    BY <1>1, Inductive, PTL

\* While somebody waits for RECOVER to give him the nickname, the change that
\* takes it from its user is on its way.
THEOREM AlwaysRecovering == Spec => []RecoverPending
<1>1. IInv => RecoverPending
    <2> SUFFICES ASSUME IInv, NEW u \in Users, user[u].svs # None
                 PROVE  force[u] # << >>
        BY DEF RecoverPending
    <2>1. UserOK(user[u], force[u])
        BY DEF IInv, UsersOK
    <2> QED
        BY <2>1 DEF UserOK, Leaving
<1> QED
    BY <1>1, Inductive, PTL

---------------------------------------------------------------------------
(* What services do to their record of the channel's modes *)

\* What services can know of the channel.
Chan == [ts : 0 .. Start, modes : Settings, told : Settings, stack : Changes,
         lost : SUBSET Modes, crossed : SUBSET Modes, said : 0 .. BounceLimit,
         heard : 0 .. BounceLimit, bouncy : BOOLEAN, keep : BOOLEAN]
\* A lock, with a value its mode can have.
LockT == {l \in [mode : Modes, val : {On, Off} \cup Keys] : l.val \in Values(l.mode)}
Locks == Seq(LockT)

\* On, Off, Nothing and the keys are told apart, and there are finitely many modes.
LEMMA Marks ==
    /\ On # Off /\ Off # Nothing /\ Nothing # On /\ Nothing \notin Keys /\ Off \notin Keys
    /\ IsFiniteSet(Modes) /\ Params \subseteq Modes
    /\ \A m \in Modes : Off \in Values(m) /\ Nothing \notin Values(m)
BY MarksAssumption, ModesAssumption, KindsAssumption DEF Modes, Values

\* A changed setting is a setting, and a changed stack a stack.
LEMMA Puts ==
    ASSUME NEW m \in Modes, NEW v \in Values(m)
    PROVE  /\ \A f \in Settings : [f EXCEPT ![m] = v] \in Settings
           /\ \A f \in Changes : [f EXCEPT ![m] = v] \in Changes /\ [f EXCEPT ![m] = Nothing] \in Changes
<1>1. v \in {On, Off} \cup Keys
  BY DEF Values
<1>2. ASSUME NEW f \in Settings PROVE [f EXCEPT ![m] = v] \in Settings
  BY <1>1 DEF Settings
<1>3. ASSUME NEW f \in Changes PROVE [f EXCEPT ![m] = v] \in Changes
  BY <1>1 DEF Changes
<1>4. ASSUME NEW f \in Changes PROVE [f EXCEPT ![m] = Nothing] \in Changes
  BY DEF Changes
<1> QED
  BY <1>2, <1>3, <1>4

\* What settings and changes have for each mode.
LEMMA Gets ==
    /\ \A f \in Settings : DOMAIN f = Modes /\ \A m \in Modes : f[m] \in Values(m)
    /\ \A f \in Changes : DOMAIN f = Modes /\ \A m \in Modes : f[m] \in Values(m) \cup {Nothing}
    /\ AllOff \in Settings /\ Quiet \in Changes
BY Marks DEF Settings, Changes, AllOff, Quiet

\* The mode in the record is what is stacked for it, or else what services last
\* said or heard it is.
Accounted(c, m) == c.modes[m] = IF c.stack[m] = Nothing THEN c.told[m] ELSE c.stack[m]

\* A change is stacked that only another parameter could make a difference to.
Firm(c, m) == c.stack[m] # Nothing /\ (c.stack[m] = Off) = (c.told[m] = Off)

\* What changes by services do to one mode: it stays as it was, or the record is
\* accounted for, or a change was lost.
MovedAt(c, e, m) ==
    /\ \/ e.modes[m] = c.modes[m] /\ e.stack[m] = c.stack[m]
       \/ m \in e.lost \/ Accounted(e, m)
    /\ Firm(c, m) => Firm(e, m) \/ m \in e.lost

\* What changes by services, with whatever follows from them, do to the channel.
Moved(c, e) ==
    /\ e \in Chan /\ e.ts = c.ts /\ e.told = c.told /\ e.keep = c.keep
    /\ e.heard = c.heard /\ c.crossed \subseteq e.crossed
    /\ c.bouncy => e.bouncy
    /\ c.lost \subseteq e.lost
    /\ \A m \in Modes : MovedAt(c, e, m)

\* The fields of the record.
LEMMA ChanIs ==
    ASSUME NEW c \in Chan
    PROVE  /\ c.modes \in Settings /\ c.told \in Settings /\ c.stack \in Changes
           /\ c.ts \in 0 .. Start /\ c.said \in 0 .. BounceLimit /\ c.heard \in 0 .. BounceLimit
           /\ c.lost \in SUBSET Modes /\ c.crossed \in SUBSET Modes
           /\ c.bouncy \in BOOLEAN /\ c.keep \in BOOLEAN
BY DEF Chan

\* No change is a change by services.
LEMMA MovedNot ==
    ASSUME NEW c \in Chan
    PROVE  Moved(c, c)
BY DEF Moved, MovedAt

\* Changes by services after changes by services.
LEMMA MovedOn ==
    ASSUME NEW c, NEW d, NEW e, Moved(c, d), Moved(d, e)
    PROVE  Moved(c, e)
<1>1. ASSUME NEW m \in Modes PROVE MovedAt(c, e, m)
  <2>1. MovedAt(c, d, m) /\ MovedAt(d, e, m) /\ d.lost \subseteq e.lost /\ e.told = d.told
    BY DEF Moved
  <2> QED
    BY <2>1 DEF MovedAt, Accounted, Firm
<1> QED
  BY <1>1 DEF Moved

\* The counters stop at the limit.
LEMMA CountIs == \A n \in 0 .. BounceLimit : Count(n) \in 0 .. BounceLimit
BY DEF Count, BounceLimit

\* Channel::SetModeInternal and StackerInfo::AddMode: one change.
LEMMA ChangeIs ==
    ASSUME NEW c \in Chan, NEW m \in Modes, NEW v \in Values(m)
    PROVE  LET d == Change(c, m, v)
           IN  /\ Moved(c, d) /\ d.modes = [c.modes EXCEPT ![m] = v] /\ d.bouncy = c.bouncy
               /\ \A o \in Modes \ {m} : d.stack[o] = c.stack[o]
               /\ c.modes[m] # v => m \in d.lost \/ Accounted(d, m)
<1> DEFINE d == Change(c, m, v)
<1>0. /\ c.modes \in Settings /\ c.told \in Settings /\ c.stack \in Changes
      /\ c.said \in 0 .. BounceLimit
  BY ChanIs
<1>1. CASE c.modes[m] = v
  <2>1. d = c
    BY <1>1 DEF Change
  <2>2. [c.modes EXCEPT ![m] = v] = c.modes
    BY <1>0, <1>1 DEF Settings
  <2> QED
    BY <1>1, <2>1, <2>2, MovedNot
<1>2. CASE c.modes[m] # v
  <2> DEFINE a == AddMode(c.stack[m], v)
             p == c.stack[m] # Nothing /\ a = Nothing
             w == IF p /\ c.told[m] # v THEN c.lost \cup {m} ELSE c.lost
  <2>1. d = [c EXCEPT !.modes[m] = v, !.stack[m] = AddMode(@, v), !.said = Count(@), !.lost = w]
    BY <1>2 DEF Change
  <2>2. a \in {Nothing, v} /\ c.stack[m] \in Values(m) \cup {Nothing} /\ c.told[m] \in Values(m)
    BY <1>0, Gets DEF AddMode
  <2>3. /\ d.modes = [c.modes EXCEPT ![m] = v] /\ d.stack = [c.stack EXCEPT ![m] = a]
        /\ d.ts = c.ts /\ d.told = c.told /\ d.keep = c.keep /\ d.heard = c.heard
        /\ d.crossed = c.crossed /\ d.bouncy = c.bouncy /\ d.lost = w /\ d.said = Count(c.said)
    BY <2>1 DEF Chan
  <2>4. d.modes \in Settings /\ d.stack \in Changes
    <3>1. [c.modes EXCEPT ![m] = v] \in Settings
      BY <1>0, Puts
    <3>2. [c.stack EXCEPT ![m] = a] \in Changes
      <4> HIDE DEF a
      <4> QED
        BY <1>0, <2>2, Puts
    <3> QED
      BY <2>3, <3>1, <3>2
  <2>5. d \in Chan
    <3> DEFINE x == d.modes
               y == d.stack
               n == d.said
    <3>1. d = [c EXCEPT !.modes = x, !.stack = y, !.said = n, !.lost = w]
      BY <2>1, <2>3
    <3>2. x \in Settings /\ y \in Changes /\ w \in SUBSET Modes /\ n \in 0 .. BounceLimit
      BY <1>0, <2>3, <2>4, CountIs, ChanIs
    <3> HIDE DEF d, x, y, w, n
    <3> QED
      BY <3>1, <3>2 DEF Chan
  <2>6. /\ d.modes[m] = v /\ d.stack[m] = a
        /\ \A o \in Modes \ {m} : d.modes[o] = c.modes[o] /\ d.stack[o] = c.stack[o]
    BY <1>0, <2>3, Gets
  <2>7. m \in d.lost \/ Accounted(d, m)
    BY <2>2, <2>3, <2>6, Marks DEF Accounted, AddMode
  <2>8. Firm(c, m) => Firm(d, m) \/ m \in d.lost
    BY <2>2, <2>3, <2>6, Marks DEF Firm, AddMode
  <2>9. ASSUME NEW o \in Modes PROVE MovedAt(c, d, o)
    <3>1. CASE o = m
      BY <2>7, <2>8, <3>1 DEF MovedAt
    <3>2. CASE o # m
      BY <2>3, <2>6, <3>2 DEF MovedAt, Firm
    <3> QED
      BY <3>1, <3>2
  <2> HIDE DEF d, a, p
  <2>10. Moved(c, d)
    <3> HIDE DEF d
    <3> QED
      BY <2>3, <2>5, <2>9 DEF Moved
  <2> HIDE DEF w
  <2> QED
    BY <2>3, <2>6, <2>7, <2>10 DEF d
<1> QED
  BY <1>1, <1>2

\* No later lock is on the same mode.
Final(locks, i) == \A j \in DOMAIN locks : j > i => locks[j].mode # locks[i].mode

\* The record has each mode as the last lock for it demands.
Obeyed(c, locks) == \A i \in DOMAIN locks : Final(locks, i) => c.modes[locks[i].mode] = locks[i].val

\* The mode and the value of a lock.
LEMMA LocksIs ==
    ASSUME NEW locks \in Locks, NEW i \in DOMAIN locks
    PROVE  locks[i] \in LockT /\ locks[i].mode \in Modes /\ locks[i].val \in Values(locks[i].mode)
BY DEF Locks, LockT

\* CSMode::OnCheckModes: after its loop over the locks, each mode is in the record
\* as the last lock for it demands.
LEMMA OnCheckModesIs ==
    ASSUME NEW c \in Chan, NEW locks \in Locks
    PROVE  LET d == OnCheckModes(c, locks)
           IN  Moved(c, d) /\ d.bouncy = c.bouncy /\ Obeyed(d, locks)
<1> DEFINE n == Len(locks)
           z == locks
           G == [p \in Chan \X LockT |-> Change(p[1], p[2].mode, p[2].val)]
           Loop(f) == f = [s \in SUBSET (1..n) |-> IF s = {} THEN c
                             ELSE Change(f[s \ {Max(s)}], z[Max(s)].mode, z[Max(s)].val)]
           I == CHOOSE f : Loop(f)
<1>1. n \in Nat /\ z \in [1..n -> LockT] /\ DOMAIN z = 1..n
  BY DEF Locks
<1>2. G \in [Chan \X LockT -> Chan]
  <2>1. ASSUME NEW y \in Chan, NEW e \in LockT PROVE Change(y, e.mode, e.val) \in Chan
    BY ChangeIs DEF LockT, Moved
  <2> QED
    BY <2>1
<1>3. PICK f \in [SUBSET (1..n) -> Chan] : IsFold(f, n, c, G, z)
  <2> HIDE DEF G, n, z
  <2> QED
    BY <1>1, <1>2, FoldExists
<1>4. ASSUME NEW s \in SUBSET (1..n), s # {}, NEW y \in Chan
      PROVE  /\ Change(y, z[Max(s)].mode, z[Max(s)].val) = G[<<y, z[Max(s)]>>]
             /\ Change(y, z[Max(s)].mode, z[Max(s)].val) \in Chan
  <2>1. z[Max(s)] \in LockT
    <3> HIDE DEF n, z
    <3> QED
      BY <1>1, <1>4, MaxOf
  <2> HIDE DEF z
  <2> QED
    BY <1>2, <2>1
<1> HIDE DEF G, n, z
<1>5. Loop(f)
  BY <1>3, <1>4 DEF IsFold
<1>6. Loop(I)
  BY <1>5
<1>7. OnCheckModes(c, locks) = I[1..n]
  <2> USE DEF n, z
  <2> QED
    BY <1>1 DEF OnCheckModes, FoldLeft, MapThenFoldSet
<1> DEFINE d == [i \in 0..n |-> I[1..i]]
           Done(x, i) == \A k \in 1..i : (\A j \in 1..i : j > k => z[j].mode # z[k].mode)
                            => x.modes[z[k].mode] = z[k].val
           T == {i \in 0..n : Moved(c, d[i]) /\ d[i].bouncy = c.bouncy /\ Done(d[i], i)}
<1>8. d[0] = c
  <2>1. 1..0 = {}
    OBVIOUS
  <2> HIDE DEF I
  <2> QED
    BY <1>1, <1>6, <2>1
<1>9. ASSUME NEW i \in 1..n PROVE d[i] = Change(d[i - 1], z[i].mode, z[i].val)
  <2>1. 1..i \in SUBSET (1..n) /\ 1..i # {} /\ Max(1..i) = i /\ (1..i) \ {Max(1..i)} = 1..(i - 1)
    BY <1>1, FirstOf
  <2>2. I[1..i] = Change(I[1..(i - 1)], z[i].mode, z[i].val)
    <3> HIDE DEF I
    <3> QED
      BY <1>6, <2>1
  <2> HIDE DEF I
  <2> QED
    BY <1>1, <2>2
<1> HIDE DEF I, d
<1>10. 0 \in T
  <2>1. Moved(c, c)
    BY MovedNot
  <2> QED
    BY <1>1, <1>8, <2>1
<1>11. ASSUME NEW i \in 1..n, i - 1 \in T PROVE i \in T
  <2> DEFINE x == d[i - 1]
             y == d[i]
             m == z[i].mode
             v == z[i].val
  <2>1. Moved(c, x) /\ x.bouncy = c.bouncy /\ Done(x, i - 1) /\ x \in Chan
    BY <1>11 DEF Moved
  <2>2. m \in Modes /\ v \in Values(m) /\ y = Change(x, m, v)
    BY <1>1, <1>9 DEF LockT
  <2>3. Moved(x, y) /\ y.modes = [x.modes EXCEPT ![m] = v] /\ y.bouncy = x.bouncy
    <3> HIDE DEF x, y, m, v
    <3> QED
      BY <2>1, <2>2, ChangeIs
  <2>4. Moved(c, y)
    BY <2>1, <2>3, MovedOn
  <2>5. Done(y, i)
    <3> SUFFICES ASSUME NEW k \in 1..i, \A j \in 1..i : j > k => z[j].mode # z[k].mode
                 PROVE  y.modes[z[k].mode] = z[k].val
      OBVIOUS
    <3>0. x.modes \in Settings /\ DOMAIN x.modes = Modes
      BY <2>1, ChanIs, Gets
    <3>1. CASE k = i
      BY <2>2, <2>3, <3>0, <3>1
    <3>2. CASE k # i
      <4>1. k \in 1..(i - 1) /\ i > k /\ \A j \in 1..(i - 1) : j \in 1..i
        BY <3>2
      <4>2. z[k].mode # m
        BY <4>1
      <4>3. x.modes[z[k].mode] = z[k].val
        BY <2>1, <4>1
      <4>4. z[k].mode \in Modes
        BY <1>1, <4>1 DEF LockT
      <4> HIDE DEF x, y, m, v
      <4> QED
        BY <2>3, <3>0, <4>2, <4>3, <4>4
    <3> QED
      BY <3>1, <3>2
  <2>6. i \in 0..n
    BY <1>1
  <2>7. Moved(c, d[i]) /\ d[i].bouncy = c.bouncy
    BY <2>1, <2>3, <2>4
  <2> HIDE DEF Done
  <2> QED
    BY <2>5, <2>6, <2>7
<1>12. n \in T
  <2> HIDE DEF T
  <2>1. \A i \in 0..n : i \in T
    BY <1>1, <1>10, <1>11, UpTo
  <2> QED
    BY <1>1, <2>1
<1>13. Obeyed(d[n], locks)
  BY <1>1, <1>12 DEF Obeyed, Final, z
<1> QED
  BY <1>1, <1>7, <1>12, <1>13 DEF d

\* Channel::CheckModes: so it is unless services have given up on the channel.
LEMMA CheckModesIs ==
    ASSUME NEW c \in Chan, NEW locks \in Locks
    PROVE  LET d == CheckModes(c, locks)
           IN  Moved(c, d) /\ (~d.bouncy => Obeyed(d, locks))
<1> DEFINE o == OnCheckModes(c, locks)
           b == [c EXCEPT !.bouncy = TRUE]
<1>1. Moved(c, o) /\ o.bouncy = c.bouncy /\ Obeyed(o, locks)
  BY OnCheckModesIs
<1>2. Moved(c, c)
  BY MovedNot
<1>3. Moved(c, b) /\ b.bouncy
  BY DEF Chan, Moved, MovedAt, Firm
<1>4. CheckModes(c, locks) \in {o, b} \/ (CheckModes(c, locks) = c /\ c.bouncy)
  BY DEF CheckModes
<1> HIDE DEF o, b
<1> QED
  BY <1>1, <1>2, <1>3, <1>4

\* Channel::SetMode.
LEMMA SetModeIs ==
    ASSUME NEW c \in Chan, NEW locks \in Locks, NEW m \in Modes, NEW v \in Values(m)
    PROVE  LET d == SetMode(c, locks, m, v)
           IN  Moved(c, d) /\ (~d.bouncy /\ c.modes[m] # v => Obeyed(d, locks))
<1> DEFINE x == Change(c, m, v)
           y == CheckModes(x, locks)
<1>1. Moved(c, c)
  BY MovedNot
<1>2. Moved(c, x) /\ x \in Chan
  <2>1. Moved(c, x)
    BY ChangeIs
  <2> HIDE DEF x
  <2> QED
    BY <2>1 DEF Moved
<1>3. Moved(x, y) /\ (~y.bouncy => Obeyed(y, locks))
  <2> HIDE DEF x
  <2> QED
    BY <1>2, CheckModesIs
<1>4. Moved(c, y)
  BY <1>2, <1>3, MovedOn
<1>5. SetMode(c, locks, m, v) = IF c.modes[m] = v THEN c ELSE y
  BY DEF SetMode
<1> HIDE DEF x, y
<1> QED
  BY <1>1, <1>3, <1>4, <1>5

\* With KEEPMODES the modes of before are set by SetMode, one after the other.
LEMMA OnChannelSyncIs ==
    ASSUME NEW c \in Chan, NEW locks \in Locks, NEW last \in Settings
    PROVE  Moved(c, OnChannelSync(c, locks, last))
<1> DEFINE S == {m \in Modes : last[m] # Off}
           pick == [s \in SUBSET S |-> CHOOSE u \in s : TRUE]
           P == {p \in (SUBSET S) \X Chan : Moved(c, p[2])}
           G == [p \in S \X Chan |-> SetMode(p[2], locks, p[1], last[p[1]])]
           Loop(f) == f = [s \in SUBSET S |-> IF s = {} THEN c
                             ELSE SetMode(f[s \ {CHOOSE u \in s : TRUE}], locks, (CHOOSE u \in s : TRUE),
                                          last[CHOOSE u \in s : TRUE])]
           I == CHOOSE f : Loop(f)
<1>0. Moved(c, c)
  BY MovedNot
<1>1. IsFiniteSet(S) /\ Picks(S, pick)
  <2>1. IsFiniteSet(S)
    BY Marks, FS_Subset
  <2>2. Picks(S, pick)
    BY DEF Picks
  <2> HIDE DEF S, pick
  <2> QED
    BY <2>1, <2>2
<1>2. ASSUME NEW v \in S, NEW e \in Chan, Moved(c, e)
      PROVE  SetMode(e, locks, v, last[v]) \in Chan /\ Moved(c, SetMode(e, locks, v, last[v]))
  <2> DEFINE g == SetMode(e, locks, v, last[v])
  <2>1. v \in Modes /\ last[v] \in Values(v)
    BY Gets
  <2> HIDE DEF S
  <2>2. Moved(e, g)
    BY <2>1, SetModeIs
  <2> HIDE DEF g
  <2>3. Moved(c, g) /\ g \in Chan
    BY <1>2, <2>2, MovedOn DEF Moved
  <2> QED
    BY <2>3 DEF g
<1>3. \A s \in SUBSET S : \A v \in s : \A e \in Chan : <<s \ {v}, e>> \in P
         => G[<<v, e>>] = SetMode(e, locks, v, last[v]) /\ <<s, SetMode(e, locks, v, last[v])>> \in P
  BY <1>2
<1>4. P \in SUBSET ((SUBSET S) \X Chan) /\ <<{}, c>> \in P
  BY <1>0
<1> HIDE DEF P, G
<1>5. Visits(S, Chan, P, c, G)
  BY <1>3, <1>4 DEF Visits
<1> HIDE DEF S, pick
<1>6. PICK f : Visitor(f, S, pick, Chan, P, c, G)
  BY <1>1, <1>5, AnyOrder
<1>7. ASSUME NEW s \in SUBSET S, s # {}, NEW e \in Chan, <<s \ {pick[s]}, e>> \in P
      PROVE  /\ G[<<pick[s], e>>] = SetMode(e, locks, pick[s], last[pick[s]])
             /\ <<s, SetMode(e, locks, pick[s], last[pick[s]])>> \in P
  <2>1. pick[s] \in s
    BY <1>1, <1>7 DEF Picks
  <2> QED
    BY <1>3, <1>7, <2>1
<1>8. ASSUME NEW s \in SUBSET S, s # {}
      PROVE  f[s] = SetMode(f[s \ {pick[s]}], locks, pick[s], last[pick[s]])
  <2> DEFINE e == f[s \ {pick[s]}]
  <2>1. s \ {pick[s]} \in SUBSET S
    OBVIOUS
  <2>2. e \in Chan /\ <<s \ {pick[s]}, e>> \in P /\ f[s] = G[<<pick[s], e>>]
    BY <1>6, <1>8, <2>1 DEF Visitor
  <2> HIDE DEF e
  <2>3. f[s] = SetMode(e, locks, pick[s], last[pick[s]])
    BY <1>7, <1>8, <2>2
  <2> QED
    BY <2>3 DEF e
<1>9. Loop(f)
  <2>1. f \in [SUBSET S -> Chan] /\ f[{}] = c
    BY <1>6 DEF Visitor
  <2>2. \A s \in SUBSET S : s # {} => pick[s] = CHOOSE u \in s : TRUE
    BY DEF pick
  <2>3. ASSUME NEW s \in SUBSET S, s # {}
        PROVE  f[s] = SetMode(f[s \ {CHOOSE u \in s : TRUE}], locks, (CHOOSE u \in s : TRUE),
                              last[CHOOSE u \in s : TRUE])
    BY <1>8, <2>2, <2>3
  <2> QED
    BY <2>1, <2>3
<1>10. Loop(I)
  BY <1>9
<1> USE DEF S, pick
<1>11. c.keep => OnChannelSync(c, locks, last) = I[S]
  BY DEF OnChannelSync, FoldSet, MapThenFoldSet
<1> HIDE DEF I, S, pick
<1>12. /\ I[{}] = c
       /\ \A s \in SUBSET S : s # {} => I[s] = SetMode(I[s \ {pick[s]}], locks, pick[s], last[pick[s]])
  BY <1>10 DEF pick
<1>13. ASSUME NEW s \in SUBSET S, s # {}, <<s \ {pick[s]}, I[s \ {pick[s]}]>> \in P
       PROVE  <<s, I[s]>> \in P
  <2> DEFINE e == I[s \ {pick[s]}]
  <2>1. e \in Chan /\ <<s \ {pick[s]}, e>> \in P
    BY <1>4, <1>13
  <2> HIDE DEF e
  <2>2. <<s, SetMode(e, locks, pick[s], last[pick[s]])>> \in P
    BY <1>7, <1>13, <2>1
  <2> QED
    BY <1>12, <1>13, <2>2 DEF e
<1>14. <<S, I[S]>> \in P
  BY <1>1, <1>4, <1>12, <1>13, AllVisited
<1>15. Moved(c, I[S])
  BY <1>14 DEF P
<1>16. ~c.keep => OnChannelSync(c, locks, last) = c
  BY DEF OnChannelSync
<1> QED
  BY <1>0, <1>11, <1>15, <1>16

\* The channel after Channel::Reset forgot its modes; the stack is left.
Blank(c) == [c EXCEPT !.modes = AllOff, !.told = AllOff]

\* Channel::Reset: every mode is accounted for, or it had a stacked change before
\* and has one after.
LEMMA ResetIs ==
    ASSUME NEW c \in Chan, NEW locks \in Locks
    PROVE  LET e == Reset(c, locks)
           IN  /\ Moved(Blank(c), e)
               /\ ~e.bouncy => Obeyed(e, locks)
               /\ \A m \in Modes : /\ m \in e.lost \cup e.crossed \/ Accounted(e, m)
                                   /\ c.stack[m] # Nothing /\ e.stack[m] # Nothing => m \in e.crossed
<1> DEFINE b == Blank(c)
           d == OnChannelSync(b, locks, c.modes)
           x == CheckModes(d, locks)
           e == [x EXCEPT !.crossed = @ \cup (Touched(x.stack) \cap Touched(c.stack))]
<1>1. /\ b \in Chan /\ b.modes = AllOff /\ b.told = AllOff /\ b.stack = c.stack
      /\ c.modes \in Settings
  BY Gets, ChanIs DEF Chan, Blank
<1>2. Moved(b, d) /\ d \in Chan
  BY <1>1, OnChannelSyncIs DEF Moved
<1>3. Reset(c, locks) = e
  BY DEF Reset, Blank
<1> HIDE DEF b, d
<1>4. Moved(d, x) /\ (~x.bouncy => Obeyed(x, locks))
  BY <1>2, CheckModesIs
<1>5. Moved(b, x) /\ x \in Chan
  BY <1>2, <1>4, MovedOn DEF Moved
<1> HIDE DEF x
<1>6. /\ e \in Chan /\ e.ts = x.ts /\ e.told = x.told /\ e.keep = x.keep /\ e.modes = x.modes
      /\ e.heard = x.heard /\ e.bouncy = x.bouncy /\ e.lost = x.lost /\ e.stack = x.stack
      /\ e.crossed = x.crossed \cup (Touched(x.stack) \cap Touched(c.stack))
  BY <1>5 DEF Chan, Touched
<1> HIDE DEF e
<1>7. \A m \in Modes : MovedAt(b, e, m)
  BY <1>5, <1>6 DEF Moved, MovedAt, Firm, Accounted
<1>8. Moved(b, e)
  BY <1>5, <1>6, <1>7 DEF Moved
<1>9. ~e.bouncy => Obeyed(e, locks)
  BY <1>4, <1>6 DEF Obeyed
<1>10. ASSUME NEW m \in Modes, c.stack[m] # Nothing, e.stack[m] # Nothing PROVE m \in e.crossed
  BY <1>6, <1>10 DEF Touched
<1>11. ASSUME NEW m \in Modes PROVE m \in e.lost \cup e.crossed \/ Accounted(e, m)
  <2>1. b.modes[m] = Off /\ e.told[m] = Off /\ b.stack[m] = c.stack[m]
    BY <1>1, <1>8 DEF AllOff, Moved
  <2> QED
    BY <1>7, <1>10, <2>1 DEF MovedAt, Accounted
<1> QED
  BY <1>3, <1>8, <1>9, <1>10, <1>11 DEF b

---------------------------------------------------------------------------
(* What a line of the network does to it *)

\* The last lock for the mode m demands v.
Rules(locks, m, v) ==
    \E i \in DOMAIN locks : locks[i].mode = m /\ locks[i].val = v /\ Final(locks, i)

\* The record has the mode as its lock demands.
Fulfilled(c, locks, m, v) == Rules(locks, m, v) /\ c.modes[m] = v /\ Accounted(c, m)

\* One mode after the modes s of a line were handled.
LearntAt(c, e, s, chg, m) ==
    IF m \in s THEN e.told[m] = chg[m] /\ (m \in e.lost \cup e.crossed \/ Accounted(e, m))
    ELSE e.told[m] = c.told[m] /\ MovedAt(c, e, m)

\* One mode with a lock, after the modes s of a line were handled: the lock may
\* have been broken by the line until the locks are looked at.
Waiting(c, e, s, chg, m, v) ==
    IF m \in s
    THEN m \in e.lost \/ /\ Accounted(e, m) \/ e.stack[m] = v
                         /\ c.stack[m] = v /\ chg[m] = v => Firm(e, m)
    ELSE e.modes[m] = v

\* The channel after the modes s of a line were handled, in whatever order.
Learning(c, e, s, locks, chg) ==
    /\ e \in Chan /\ e.ts = c.ts /\ e.keep = c.keep
    /\ c.bouncy => e.bouncy
    /\ c.lost \subseteq e.lost /\ c.crossed \subseteq e.crossed
    /\ \A m \in Modes : LearntAt(c, e, s, chg, m)
    /\ ~e.bouncy => \A m \in Modes : \A v \in Values(m) :
          Fulfilled(c, locks, m, v) => Waiting(c, e, s, chg, m, v)

\* One mode after a line.
HeardAt(c, e, chg, m) ==
    IF chg[m] # Nothing THEN e.told[m] = chg[m] /\ (m \in e.lost \cup e.crossed \/ Accounted(e, m))
    ELSE e.told[m] = c.told[m] /\ MovedAt(c, e, m)

\* A mode with a lock after a line: what the line did to it was undone, and the
\* change that undoes it is stacked or was lost.
StillHeld(c, e, m, v) ==
    e.modes[m] = v /\ (m \in e.lost \/ (Accounted(e, m) /\ (c.stack[m] = v => e.stack[m] = v)))

\* The channel after a line with its own timestamp.
Heard(c, e, locks, chg) ==
    /\ e \in Chan /\ e.ts = c.ts /\ e.keep = c.keep
    /\ c.bouncy => e.bouncy
    /\ c.lost \subseteq e.lost /\ c.crossed \subseteq e.crossed
    /\ \A m \in Modes : HeardAt(c, e, chg, m)
    /\ ~e.bouncy => \A m \in Modes : \A v \in Values(m) :
          Fulfilled(c, locks, m, v) => StillHeld(c, e, m, v)

\* A stacked change to what the mode is stays on the stack, or is lost.
LEMMA StackKept ==
    ASSUME NEW c, NEW e, NEW m, NEW v, MovedAt(c, e, m), e.told[m] = c.told[m], v # Nothing,
           c.stack[m] = v, e.modes[m] = v
    PROVE  e.stack[m] = v \/ m \in e.lost
BY DEF MovedAt, Firm, Accounted

\* One mode of a line is set.
LEMMA HearOne ==
    ASSUME NEW c \in Chan, NEW locks, NEW chg \in Changes, NEW s \in SUBSET Touched(chg), NEW x \in s,
           NEW e, Learning(c, e, s \ {x}, locks, chg)
    PROVE  LET f == [e EXCEPT !.modes[x] = chg[x], !.told[x] = chg[x],
                              !.crossed = IF e.stack[x] = Nothing THEN @ ELSE @ \cup {x}]
           IN  Learning(c, f, s, locks, chg)
<1> DEFINE t == s \ {x}
           w == IF e.stack[x] = Nothing THEN e.crossed ELSE e.crossed \cup {x}
           f == [e EXCEPT !.modes[x] = chg[x], !.told[x] = chg[x],
                          !.crossed = IF e.stack[x] = Nothing THEN @ ELSE @ \cup {x}]
<1>1. x \in Modes /\ chg[x] \in Values(x) /\ chg[x] # Nothing
  BY Gets DEF Touched
<1>2. e \in Chan /\ e.modes \in Settings /\ e.told \in Settings /\ e.crossed \in SUBSET Modes
  BY ChanIs DEF Learning
<1>3. /\ f.ts = e.ts /\ f.keep = e.keep /\ f.bouncy = e.bouncy /\ f.lost = e.lost
      /\ f.stack = e.stack /\ f.crossed = w
      /\ f.modes = [e.modes EXCEPT ![x] = chg[x]] /\ f.told = [e.told EXCEPT ![x] = chg[x]]
  BY <1>2 DEF Chan
<1>4. f \in Chan
  <2> DEFINE y == [e.modes EXCEPT ![x] = chg[x]]
             z == [e.told EXCEPT ![x] = chg[x]]
  <2>1. f = [e EXCEPT !.modes = y, !.told = z, !.crossed = w]
    BY <1>2 DEF Chan
  <2>2. y \in Settings /\ z \in Settings /\ w \in SUBSET Modes
    BY <1>1, <1>2, Puts
  <2> HIDE DEF f, y, z, w
  <2> QED
    BY <1>2, <2>1, <2>2 DEF Chan
<1>5. /\ f.modes[x] = chg[x] /\ f.told[x] = chg[x]
      /\ \A m \in Modes \ {x} : f.modes[m] = e.modes[m] /\ f.told[m] = e.told[m]
  BY <1>1, <1>2, <1>3, Gets
<1> HIDE DEF f
<1>6. ASSUME NEW m \in Modes PROVE LearntAt(c, f, s, chg, m)
  <2>1. LearntAt(c, e, t, chg, m)
    BY DEF Learning
  <2>2. CASE m = x
    BY <1>3, <1>5, <2>2 DEF LearntAt, Accounted
  <2>3. CASE m # x
    <3>1. m \in s <=> m \in t
      BY <2>3
    <3> HIDE DEF t
    <3> QED
      BY <1>3, <1>5, <2>1, <2>3, <3>1 DEF LearntAt, Accounted, MovedAt, Firm
  <2> QED
    BY <2>2, <2>3
<1>7. ASSUME ~f.bouncy, NEW m \in Modes, NEW v \in Values(m), Fulfilled(c, locks, m, v)
      PROVE  Waiting(c, f, s, chg, m, v)
  <2>1. Waiting(c, e, t, chg, m, v) /\ LearntAt(c, e, t, chg, m)
    BY <1>3, <1>7 DEF Learning
  <2>2. CASE m = x
    <3>1. e.modes[m] = v /\ MovedAt(c, e, m) /\ e.told[m] = c.told[m]
      BY <2>1, <2>2 DEF Waiting, LearntAt
    <3>2. v # Nothing
      BY Marks
    <3>3. m \in e.lost \/ Accounted(e, m)
      BY <1>7, <3>1 DEF MovedAt, Accounted, Fulfilled
    <3>4. m \in e.lost \/ e.stack[m] \in {Nothing, v}
      BY <3>1, <3>3 DEF Accounted
    <3>5. c.stack[m] = v => e.stack[m] = v \/ m \in e.lost
      BY <3>1, <3>2, StackKept
    <3> QED
      BY <1>3, <1>5, <2>2, <3>2, <3>4, <3>5 DEF Waiting, Accounted, Firm
  <2>3. CASE m # x
    <3>1. m \in s <=> m \in t
      BY <2>3
    <3> HIDE DEF t
    <3> QED
      BY <1>3, <1>5, <2>1, <2>3, <3>1 DEF Waiting, Accounted, Firm
  <2> QED
    BY <2>2, <2>3
<1>8. /\ f.ts = c.ts /\ f.keep = c.keep /\ (c.bouncy => f.bouncy)
      /\ c.lost \subseteq f.lost /\ c.crossed \subseteq f.crossed
  BY <1>3 DEF Learning
<1> HIDE DEF t, w
<1> QED
  BY <1>4, <1>6, <1>7, <1>8 DEF Learning, f

\* The locks are looked at in the middle of a line.
LEMMA HearCheck ==
    ASSUME NEW c \in Chan, NEW locks, NEW chg \in Changes, NEW s \in SUBSET Touched(chg),
           NEW e, Learning(c, e, s, locks, chg), NEW f, Moved(e, f), ~f.bouncy => Obeyed(f, locks)
    PROVE  Learning(c, f, s, locks, chg)
<1>1. ASSUME NEW m \in Modes PROVE LearntAt(c, f, s, chg, m)
  <2>1. LearntAt(c, e, s, chg, m) /\ MovedAt(e, f, m) /\ f.told = e.told
        /\ e.lost \subseteq f.lost /\ e.crossed \subseteq f.crossed
    BY DEF Learning, Moved
  <2>2. CASE m \in s
    BY <2>1, <2>2 DEF LearntAt, MovedAt, Accounted
  <2>3. CASE m \notin s
    BY <2>1, <2>3 DEF LearntAt, MovedAt, Accounted, Firm
  <2> QED
    BY <2>2, <2>3
<1>2. ASSUME ~f.bouncy, NEW m \in Modes, NEW v \in Values(m), Fulfilled(c, locks, m, v)
      PROVE  Waiting(c, f, s, chg, m, v)
  <2>1. f.modes[m] = v
    BY <1>2 DEF Fulfilled, Rules, Obeyed
  <2>2. Waiting(c, e, s, chg, m, v) /\ MovedAt(e, f, m) /\ f.told = e.told /\ e.lost \subseteq f.lost
    BY <1>2 DEF Learning, Moved
  <2>3. CASE m \in s
    BY <2>1, <2>2, <2>3 DEF Waiting, MovedAt, Accounted
  <2>4. CASE m \notin s
    BY <2>1, <2>4 DEF Waiting
  <2> QED
    BY <2>3, <2>4
<1> QED
  BY <1>1, <1>2 DEF Learning, Moved

\* Channel::SetModesInternal handles each mode of the line.
LEMMA HearIs ==
    ASSUME NEW c \in Chan, NEW locks \in Locks, NEW chg \in Changes
    PROVE  Learning(c, Hear(c, locks, chg), Touched(chg), locks, chg)
<1> DEFINE S == Touched(chg)
           pick == [s \in SUBSET S |-> CHOOSE u \in s : TRUE]
           E(m, d) == [d EXCEPT !.modes[m] = chg[m], !.told[m] = chg[m],
                                !.crossed = IF d.stack[m] = Nothing THEN @ ELSE @ \cup {m}]
           V(m, d) == IF m \in Params /\ ~Bare(m, chg[m]) THEN CheckModes(E(m, d), locks) ELSE E(m, d)
           P == {p \in (SUBSET S) \X Chan : Learning(c, p[2], p[1], locks, chg)}
           G == [p \in S \X Chan |-> V(p[1], p[2])]
           Loop(f) == f = [s \in SUBSET S |-> IF s = {} THEN c
                             ELSE V((CHOOSE u \in s : TRUE), f[s \ {CHOOSE u \in s : TRUE}])]
           I == CHOOSE f : Loop(f)
<1>0. Learning(c, c, {}, locks, chg)
  <2>1. Moved(c, c)
    BY MovedNot
  <2> QED
    BY <2>1 DEF Learning, LearntAt, Waiting, Fulfilled, Moved
<1>1. IsFiniteSet(S) /\ Picks(S, pick)
  <2>1. IsFiniteSet(S)
    BY Marks, FS_Subset DEF Touched
  <2>2. Picks(S, pick)
    BY DEF Picks
  <2> HIDE DEF S, pick
  <2> QED
    BY <2>1, <2>2
<1>2. ASSUME NEW s \in SUBSET S, NEW v \in s, NEW e \in Chan, Learning(c, e, s \ {v}, locks, chg)
      PROVE  V(v, e) \in Chan /\ Learning(c, V(v, e), s, locks, chg)
  <2> DEFINE x == E(v, e)
             y == CheckModes(x, locks)
  <2>1. Learning(c, x, s, locks, chg)
    BY <1>2, HearOne
  <2> HIDE DEF x
  <2>2. x \in Chan
    BY <2>1 DEF Learning
  <2>3. Moved(x, y) /\ (~y.bouncy => Obeyed(y, locks))
    BY <2>2, CheckModesIs
  <2> HIDE DEF y
  <2>4. Learning(c, y, s, locks, chg)
    BY <2>1, <2>3, HearCheck
  <2>5. V(v, e) \in {x, y}
    BY DEF x, y
  <2> HIDE DEF V
  <2> QED
    BY <2>1, <2>4, <2>5 DEF Learning
<1> HIDE DEF V
<1>3. \A s \in SUBSET S : \A v \in s : \A e \in Chan : <<s \ {v}, e>> \in P
         => G[<<v, e>>] = V(v, e) /\ <<s, V(v, e)>> \in P
  BY <1>2
<1>4. P \in SUBSET ((SUBSET S) \X Chan) /\ <<{}, c>> \in P
  BY <1>0
<1> HIDE DEF P, G
<1>5. Visits(S, Chan, P, c, G)
  BY <1>3, <1>4 DEF Visits
<1> HIDE DEF S, pick
<1>6. PICK f : Visitor(f, S, pick, Chan, P, c, G)
  BY <1>1, <1>5, AnyOrder
<1>7. ASSUME NEW s \in SUBSET S, s # {}, NEW e \in Chan, <<s \ {pick[s]}, e>> \in P
      PROVE  G[<<pick[s], e>>] = V(pick[s], e) /\ <<s, V(pick[s], e)>> \in P
  <2>1. pick[s] \in s
    BY <1>1, <1>7 DEF Picks
  <2> QED
    BY <1>3, <1>7, <2>1
<1>8. ASSUME NEW s \in SUBSET S, s # {}
      PROVE  f[s] = V(pick[s], f[s \ {pick[s]}])
  <2> DEFINE e == f[s \ {pick[s]}]
  <2>1. s \ {pick[s]} \in SUBSET S
    OBVIOUS
  <2>2. e \in Chan /\ <<s \ {pick[s]}, e>> \in P /\ f[s] = G[<<pick[s], e>>]
    BY <1>6, <1>8, <2>1 DEF Visitor
  <2> HIDE DEF e
  <2>3. f[s] = V(pick[s], e)
    BY <1>7, <1>8, <2>2
  <2> QED
    BY <2>3 DEF e
<1>9. Loop(f)
  <2>1. f \in [SUBSET S -> Chan] /\ f[{}] = c
    BY <1>6 DEF Visitor
  <2>2. \A s \in SUBSET S : s # {} => pick[s] = CHOOSE u \in s : TRUE
    BY DEF pick
  <2>3. ASSUME NEW s \in SUBSET S, s # {}
        PROVE  f[s] = V(CHOOSE u \in s : TRUE, f[s \ {CHOOSE u \in s : TRUE}])
    BY <1>8, <2>2, <2>3
  <2> QED
    BY <2>1, <2>3
<1>10. Loop(I)
  BY <1>9
<1> USE DEF S, pick
<1>11. Hear(c, locks, chg) = I[S]
  BY DEF Hear, V, FoldSet, MapThenFoldSet
<1> HIDE DEF I, S, pick
<1>12. /\ I[{}] = c
       /\ \A s \in SUBSET S : s # {} => I[s] = V(pick[s], I[s \ {pick[s]}])
  BY <1>10 DEF pick
<1>13. ASSUME NEW s \in SUBSET S, s # {}, <<s \ {pick[s]}, I[s \ {pick[s]}]>> \in P
       PROVE  <<s, I[s]>> \in P
  <2> DEFINE e == I[s \ {pick[s]}]
  <2>1. e \in Chan /\ <<s \ {pick[s]}, e>> \in P
    BY <1>4, <1>13
  <2> HIDE DEF e
  <2>2. <<s, V(pick[s], e)>> \in P
    BY <1>7, <1>13, <2>1
  <2> QED
    BY <1>12, <1>13, <2>2 DEF e
<1>14. <<S, I[S]>> \in P
  BY <1>1, <1>4, <1>12, <1>13, AllVisited
<1>15. Learning(c, I[S], S, locks, chg)
  BY <1>14 DEF P
<1> QED
  BY <1>11, <1>15 DEF S

\* A line to services.
LineT == [kind : {"mode", "join"}, ts : 0 .. Start, chg : Changes, server : BOOLEAN]

\* A line without modes.
LEMMA HeardNot ==
    ASSUME NEW c \in Chan, NEW locks, NEW chg \in Changes, Touched(chg) = {}
    PROVE  Heard(c, c, locks, chg)
<1>1. Moved(c, c)
  BY MovedNot
<1>2. \A m \in Modes : chg[m] = Nothing
  BY DEF Touched
<1> QED
  BY <1>1, <1>2 DEF Heard, HeardAt, Fulfilled, StillHeld, Moved

\* After the line the locks are looked at once more.
LEMMA HeardAll ==
    ASSUME NEW c \in Chan, NEW locks, NEW chg \in Changes, NEW e,
           Learning(c, e, Touched(chg), locks, chg), ~e.bouncy => Obeyed(e, locks)
    PROVE  Heard(c, e, locks, chg)
<1> DEFINE s == Touched(chg)
<1>1. ASSUME NEW m \in Modes PROVE HeardAt(c, e, chg, m)
  <2>1. LearntAt(c, e, s, chg, m) /\ (m \in s <=> chg[m] # Nothing)
    BY DEF Learning, Touched
  <2> HIDE DEF s
  <2> QED
    BY <2>1 DEF HeardAt, LearntAt
<1>2. ASSUME ~e.bouncy, NEW m \in Modes, NEW v \in Values(m), Fulfilled(c, locks, m, v)
      PROVE  StillHeld(c, e, m, v)
  <2>1. Waiting(c, e, s, chg, m, v) /\ LearntAt(c, e, s, chg, m)
    BY <1>2 DEF Learning
  <2>2. e.modes[m] = v
    BY <1>2 DEF Fulfilled, Rules, Obeyed
  <2>3. v # Nothing
    BY Marks
  <2>4. c.modes[m] = v /\ Accounted(c, m)
    BY <1>2 DEF Fulfilled
  <2>5. CASE m \in s
    <3>1. m \in e.lost \/ Accounted(e, m)
      BY <2>1, <2>2, <2>3, <2>5 DEF Waiting, Accounted
    <3>2. e.told[m] = chg[m]
      BY <2>1, <2>5 DEF LearntAt
    <3>3. c.stack[m] = v => m \in e.lost \/ e.stack[m] = v
      BY <2>1, <2>2, <2>3, <2>5, <3>1, <3>2 DEF Waiting, Accounted, Firm
    <3> QED
      BY <2>2, <3>1, <3>3 DEF StillHeld
  <2>6. CASE m \notin s
    <3>1. e.told[m] = c.told[m] /\ MovedAt(c, e, m)
      BY <2>1, <2>6 DEF LearntAt
    <3>2. m \in e.lost \/ Accounted(e, m)
      BY <2>4, <3>1 DEF MovedAt, Accounted
    <3>3. c.stack[m] = v => m \in e.lost \/ e.stack[m] = v
      BY <2>2, <2>3, <3>1, StackKept
    <3> QED
      BY <2>2, <3>2, <3>3 DEF StillHeld
  <2> QED
    BY <2>5, <2>6
<1> QED
  BY <1>1, <1>2 DEF Heard, Learning

\* Channel::SetModesInternal for a line with the timestamp of the channel.
LEMMA InternalIs ==
    ASSUME NEW c \in Chan, NEW locks \in Locks, NEW l \in LineT, l.ts = c.ts
    PROVE  Heard(c, SetModesInternal(c, locks, l), locks, l.chg)
<1> DEFINE e == Hear(c, locks, l.chg)
           changed == \E m \in Touched(l.chg) : ~Bare(m, l.chg[m]) /\ c.modes[m] # l.chg[m]
           g == IF changed /\ l.server THEN [e EXCEPT !.heard = Count(@)] ELSE e
           h == CheckModes(g, locks)
           s == Touched(l.chg)
<1>0. l.chg \in Changes /\ c.ts \in 0 .. Start /\ s \in SUBSET Touched(l.chg)
  BY ChanIs DEF LineT
<1>1. Learning(c, e, s, locks, l.chg)
  BY <1>0, HearIs
<1>2. SetModesInternal(c, locks, l) = h
  <2>1. ~(l.ts > c.ts) /\ ~(l.ts < c.ts)
    BY <1>0
  <2> QED
    BY <2>1 DEF SetModesInternal, Lowered
<1> HIDE DEF e, changed
<1>3. e \in Chan
  BY <1>1 DEF Learning
<1>4. /\ g \in Chan /\ g.ts = e.ts /\ g.keep = e.keep /\ g.bouncy = e.bouncy /\ g.lost = e.lost
      /\ g.stack = e.stack /\ g.crossed = e.crossed /\ g.modes = e.modes /\ g.told = e.told
  BY <1>3, CountIs DEF Chan
<1> HIDE DEF g, s
<1>5. Learning(c, g, s, locks, l.chg)
  BY <1>1, <1>4 DEF Learning, LearntAt, Accounted, MovedAt, Firm, Waiting
<1>6. Moved(g, h) /\ (~h.bouncy => Obeyed(h, locks))
  BY <1>4, CheckModesIs
<1> HIDE DEF h
<1>7. Learning(c, h, s, locks, l.chg)
  BY <1>0, <1>5, <1>6, HearCheck
<1>8. Heard(c, h, locks, l.chg)
  BY <1>0, <1>6, <1>7, HeardAll DEF s
<1> QED
  BY <1>2, <1>8

\* One mode after a line that lowered the timestamp.
RenewedAt(e, chg, m) ==
    /\ e.told[m] = IF chg[m] = Nothing THEN Off ELSE chg[m]
    /\ m \in e.lost \cup e.crossed \/ Accounted(e, m)

\* The channel after a line with an older timestamp: what services were told
\* before does not count any more.
Renewed(c, e, locks, t, chg) ==
    /\ e \in Chan /\ e.ts = t /\ e.keep = c.keep
    /\ c.bouncy => e.bouncy
    /\ c.lost \subseteq e.lost /\ c.crossed \subseteq e.crossed
    /\ \A m \in Modes : RenewedAt(e, chg, m)
    /\ ~e.bouncy => \A m \in Modes : \A v \in Values(m) :
          Fulfilled(c, locks, m, v) => m \in e.lost \/ (e.modes[m] = v /\ Accounted(e, m))

\* The timestamp is lowered and the modes are forgotten.
LEMMA ResetRenews ==
    ASSUME NEW c \in Chan, NEW locks \in Locks, NEW t \in 0 .. Start
    PROVE  Renewed(c, Reset([c EXCEPT !.ts = t], locks), locks, t, Quiet)
<1> DEFINE a == [c EXCEPT !.ts = t]
           b == Blank(a)
           e == Reset(a, locks)
<1>1. a \in Chan
  BY DEF Chan
<1>2. /\ b.ts = t /\ b.keep = c.keep /\ b.bouncy = c.bouncy /\ b.lost = c.lost /\ b.crossed = c.crossed
      /\ b.modes = AllOff /\ b.told = AllOff /\ b.stack = c.stack
  BY DEF Chan, Blank
<1> HIDE DEF a
<1>3. /\ Moved(b, e) /\ (~e.bouncy => Obeyed(e, locks))
      /\ \A m \in Modes : m \in e.lost \cup e.crossed \/ Accounted(e, m)
  BY <1>1, ResetIs
<1> HIDE DEF b, e
<1>4. ASSUME NEW m \in Modes PROVE RenewedAt(e, Quiet, m)
  BY <1>2, <1>3 DEF RenewedAt, Moved, AllOff, Quiet
<1>5. ASSUME ~e.bouncy, NEW m \in Modes, NEW v \in Values(m), Fulfilled(c, locks, m, v)
      PROVE  m \in e.lost \/ (e.modes[m] = v /\ Accounted(e, m))
  <2>1. e.modes[m] = v
    BY <1>3, <1>5 DEF Fulfilled, Rules, Obeyed
  <2>2. b.modes[m] = Off /\ b.told[m] = Off /\ e.told[m] = Off
    BY <1>2, <1>3 DEF AllOff, Moved
  <2>3. c.stack[m] \in {Nothing, v}
    BY <1>5 DEF Fulfilled, Accounted
  <2>4. MovedAt(b, e, m)
    BY <1>3 DEF Moved
  <2> QED
    BY <1>2, <2>1, <2>2, <2>3, <2>4 DEF MovedAt, Accounted
<1> QED
  BY <1>2, <1>3, <1>4, <1>5 DEF Renewed, Moved, e, a

\* Then the modes of the line are handled.
LEMMA RenewedHears ==
    ASSUME NEW c \in Chan, NEW locks, NEW t, NEW chg \in Changes, NEW d, NEW e,
           Renewed(c, d, locks, t, Quiet), Heard(d, e, locks, chg)
    PROVE  Renewed(c, e, locks, t, chg)
<1>1. ASSUME NEW m \in Modes PROVE RenewedAt(e, chg, m)
  <2>1. /\ RenewedAt(d, Quiet, m) /\ HeardAt(d, e, chg, m)
        /\ d.lost \subseteq e.lost /\ d.crossed \subseteq e.crossed
    BY DEF Renewed, Heard
  <2> QED
    BY <2>1 DEF RenewedAt, HeardAt, MovedAt, Accounted, Quiet
<1>2. ASSUME ~e.bouncy, NEW m \in Modes, NEW v \in Values(m), Fulfilled(c, locks, m, v)
      PROVE  m \in e.lost \/ (e.modes[m] = v /\ Accounted(e, m))
  <2>1. ~d.bouncy /\ d.lost \subseteq e.lost
    BY <1>2 DEF Heard
  <2>2. m \in d.lost \/ (d.modes[m] = v /\ Accounted(d, m))
    BY <1>2, <2>1 DEF Renewed
  <2>3. m \in d.lost \/ Fulfilled(d, locks, m, v)
    BY <1>2, <2>2 DEF Fulfilled
  <2>4. m \in d.lost \/ StillHeld(d, e, m, v)
    BY <1>2, <2>3 DEF Heard
  <2> QED
    BY <2>1, <2>4 DEF StillHeld
<1> QED
  BY <1>1, <1>2 DEF Renewed, Heard

\* What a line of the network does to the channel.
Learns(c, e, locks, l) ==
    \/ l.ts > c.ts /\ e = c
    \/ l.ts = c.ts /\ Heard(c, e, locks, l.chg)
    \/ l.ts < c.ts /\ Renewed(c, e, locks, l.ts, l.chg)

\* SetModesInternal and Message::SJoin do that.
LEMMA LineIs ==
    ASSUME NEW c \in Chan, NEW locks \in Locks, NEW l \in LineT
    PROVE  Learns(c, SetModesInternal(c, locks, l), locks, l) /\ Learns(c, SJoin(c, locks, l), locks, l)
<1>0. c.ts \in 0 .. Start /\ l.ts \in 0 .. Start /\ l.chg \in Changes
  BY ChanIs DEF LineT
<1>1. CASE l.ts > c.ts
  <2>1. Lowered(c, locks, l.ts) = c /\ SetModesInternal(c, locks, l) = c
    BY <1>0, <1>1 DEF Lowered, SetModesInternal
  <2> QED
    BY <1>1, <2>1 DEF SJoin, Learns
<1>2. CASE l.ts = c.ts
  <2>1. Lowered(c, locks, l.ts) = c
    BY <1>0, <1>2 DEF Lowered
  <2>2. Heard(c, SetModesInternal(c, locks, l), locks, l.chg)
    BY <1>2, InternalIs
  <2>3. Touched(l.chg) = {} => Heard(c, c, locks, l.chg)
    BY <1>0, HeardNot
  <2>4. SJoin(c, locks, l) = IF Touched(l.chg) = {} THEN c ELSE SetModesInternal(c, locks, l)
    BY <2>1 DEF SJoin
  <2> QED
    BY <1>2, <2>2, <2>3, <2>4 DEF Learns
<1>3. CASE l.ts < c.ts
  <2> DEFINE d == Reset([c EXCEPT !.ts = l.ts], locks)
             e == SetModesInternal(d, locks, l)
  <2>1. Renewed(c, d, locks, l.ts, Quiet) /\ d \in Chan /\ d.ts = l.ts
    BY <1>0, ResetRenews DEF Renewed
  <2>2. Lowered(c, locks, l.ts) = d
    BY <1>3 DEF Lowered
  <2> HIDE DEF d
  <2>3. Lowered(d, locks, l.ts) = d
    BY <1>0, <2>1 DEF Lowered
  <2>4. SetModesInternal(c, locks, l) = e
    <3>1. ~(l.ts > c.ts) /\ ~(l.ts > d.ts)
      BY <1>0, <1>3, <2>1
    <3> QED
      BY <2>2, <2>3, <3>1 DEF SetModesInternal
  <2>5. Heard(d, e, locks, l.chg)
    BY <2>1, InternalIs
  <2>6. Touched(l.chg) = {} => Heard(d, d, locks, l.chg)
    BY <1>0, <2>1, HeardNot
  <2>7. SJoin(c, locks, l) = IF Touched(l.chg) = {} THEN d ELSE e
    BY <2>2 DEF SJoin
  <2> HIDE DEF e
  <2>8. Renewed(c, e, locks, l.ts, l.chg)
    BY <1>0, <2>1, <2>5, RenewedHears
  <2>9. Touched(l.chg) = {} => Renewed(c, d, locks, l.ts, l.chg)
    BY <1>0, <2>1, <2>6, RenewedHears
  <2> QED
    BY <1>3, <2>4, <2>7, <2>8, <2>9 DEF Learns
<1> QED
  BY <1>0, <1>1, <1>2, <1>3

\* What ChanServ's always_lower_ts makes of the channel.
Forgets(c, d) == [d EXCEPT !.told = c.modes,
                           !.lost = @ \cup {m \in Modes : d.stack[m] = Nothing /\ d.modes[m] # c.modes[m]}]

\* One mode after always_lower_ts.
LoweredAt(c, e, m) == e.told[m] = c.modes[m] /\ (m \in e.lost \cup e.crossed \/ Accounted(e, m))

\* The channel after ChanServ lowered its timestamp and said which modes it has.
Announced(c, e, locks, t) ==
    /\ e \in Chan /\ e.ts = t /\ e.keep = c.keep
    /\ c.bouncy => e.bouncy
    /\ c.lost \subseteq e.lost /\ c.crossed \subseteq e.crossed
    /\ \A m \in Modes : LoweredAt(c, e, m)
    /\ ~e.bouncy => \A m \in Modes : \A v \in Values(m) :
          Fulfilled(c, locks, m, v) => m \in e.lost \/ (e.modes[m] = v /\ Accounted(e, m))

\* ChanServ's OnJoinChannel does that.
LEMMA ForgetsIs ==
    ASSUME NEW c \in Chan, NEW locks \in Locks, NEW t \in 0 .. Start
    PROVE  Announced(c, Forgets(c, Reset([c EXCEPT !.ts = t], locks)), locks, t)
<1> DEFINE d == Reset([c EXCEPT !.ts = t], locks)
           w == {m \in Modes : d.stack[m] = Nothing /\ d.modes[m] # c.modes[m]}
           e == Forgets(c, d)
<1>1. Renewed(c, d, locks, t, Quiet) /\ d \in Chan
  BY ResetRenews DEF Renewed
<1> HIDE DEF d
<1>2. /\ e \in Chan /\ e.ts = d.ts /\ e.keep = d.keep /\ e.bouncy = d.bouncy /\ e.lost = d.lost \cup w
      /\ e.stack = d.stack /\ e.crossed = d.crossed /\ e.modes = d.modes /\ e.told = c.modes
  BY <1>1, ChanIs DEF Chan, Forgets
<1> HIDE DEF e
<1>3. ASSUME NEW m \in Modes PROVE LoweredAt(c, e, m)
  <2>1. m \in d.lost \cup d.crossed \/ Accounted(d, m)
    BY <1>1 DEF Renewed, RenewedAt
  <2> QED
    BY <1>2, <2>1 DEF LoweredAt, Accounted
<1>4. ASSUME ~e.bouncy, NEW m \in Modes, NEW v \in Values(m), Fulfilled(c, locks, m, v)
      PROVE  m \in e.lost \/ (e.modes[m] = v /\ Accounted(e, m))
  <2>1. m \in d.lost \/ (d.modes[m] = v /\ Accounted(d, m))
    BY <1>1, <1>2, <1>4 DEF Renewed
  <2>2. c.modes[m] = v
    BY <1>4 DEF Fulfilled
  <2> QED
    BY <1>2, <2>1, <2>2 DEF Accounted
<1> HIDE DEF w
<1> QED
  BY <1>1, <1>2, <1>3, <1>4 DEF Announced, Renewed, e, d

---------------------------------------------------------------------------
(* What lines on their way lead to *)

\* No line of the queue with this timestamp speaks of the mode.
Silent(q, t, m) == \A i \in DOMAIN q : q[i].ts = t => q[i].chg[m] = Nothing

\* The last line of the queue that does says y.
LastSays(q, t, m, y) ==
    \E i \in DOMAIN q : /\ q[i].ts = t /\ q[i].chg[m] = y /\ y # Nothing
                        /\ \A j \in DOMAIN q : j > i /\ q[j].ts = t => q[j].chg[m] = Nothing

\* Who has x for the mode has y when the lines of the queue have arrived.
Leads(q, t, m, x, y) == (Silent(q, t, m) /\ y = x) \/ LastSays(q, t, m, y)

\* No line of the queue has this timestamp.
NoneAt(q, t) == \A i \in DOMAIN q : q[i].ts # t

\* What the line l makes of a mode with the value x.
Says(l, t, m, x) == IF l.ts = t /\ l.chg[m] # Nothing THEN l.chg[m] ELSE x

\* A line of the queue sets the mode to something other than v.
Opposed(q, t, m, v) == \E i \in DOMAIN q : q[i].ts = t /\ q[i].chg[m] \notin {Nothing, v}

\* A queue with one line more.
LEMMA AppendIs ==
    ASSUME NEW S, NEW q \in Seq(S), NEW l \in S
    PROVE  /\ Append(q, l) \in Seq(S) /\ Len(q) \in Nat /\ DOMAIN q = 1 .. Len(q)
           /\ DOMAIN Append(q, l) = 1 .. Len(q) + 1
           /\ \A i \in 1 .. Len(q) : Append(q, l)[i] = q[i]
           /\ Append(q, l)[Len(q) + 1] = l
OBVIOUS

\* A queue without its first line.
LEMMA TailIs ==
    ASSUME NEW S, NEW q \in Seq(S), q # << >>
    PROVE  /\ Tail(q) \in Seq(S) /\ Head(q) \in S /\ Len(q) \in Nat /\ Len(q) # 0
           /\ DOMAIN q = 1 .. Len(q) /\ DOMAIN Tail(q) = 1 .. Len(q) - 1
           /\ \A i \in 1 .. Len(q) - 1 : Tail(q)[i] = q[i + 1]
           /\ q[1] = Head(q)
OBVIOUS

\* A line more leads one further.
LEMMA LeadsAppend ==
    ASSUME NEW S, NEW q \in Seq(S), NEW l \in S, NEW t, NEW m, NEW x, NEW y, Leads(q, t, m, x, y)
    PROVE  Leads(Append(q, l), t, m, x, Says(l, t, m, y))
<1> DEFINE r == Append(q, l)
           n == Len(q)
<1>1. /\ n \in Nat /\ DOMAIN q = 1 .. n /\ DOMAIN r = 1 .. n + 1
      /\ \A i \in 1 .. n : r[i] = q[i] /\ r[n + 1] = l
  BY AppendIs
<1> HIDE DEF r, n
<1>2. CASE l.ts = t /\ l.chg[m] # Nothing
  <2>1. LastSays(r, t, m, l.chg[m])
    <3>1. n + 1 \in DOMAIN r /\ \A j \in DOMAIN r : ~(j > n + 1)
      BY <1>1
    <3>2. r[n + 1] = l
      BY AppendIs DEF r, n
    <3> QED
      BY <1>2, <3>1, <3>2 DEF LastSays
  <2> QED
    BY <1>2, <2>1 DEF Leads, Says, r
<1>3. CASE ~(l.ts = t /\ l.chg[m] # Nothing)
  <2>0. r[n + 1] = l
    BY AppendIs DEF r, n
  <2>1. CASE Silent(q, t, m) /\ y = x
    <3>1. Silent(r, t, m)
      <4>1. \A i \in DOMAIN r : i \in DOMAIN q \/ i = n + 1
        BY <1>1
      <4> QED
        BY <1>1, <1>3, <2>0, <2>1, <4>1 DEF Silent
    <3> QED
      BY <1>3, <2>1, <3>1 DEF Leads, Says, r
  <2>2. CASE LastSays(q, t, m, y)
    <3>1. PICK i \in DOMAIN q : /\ q[i].ts = t /\ q[i].chg[m] = y /\ y # Nothing
                                /\ \A j \in DOMAIN q : j > i /\ q[j].ts = t => q[j].chg[m] = Nothing
      BY <2>2 DEF LastSays
    <3>2. i \in DOMAIN r /\ r[i] = q[i]
      BY <1>1
    <3>3. ASSUME NEW j \in DOMAIN r, j > i, r[j].ts = t PROVE r[j].chg[m] = Nothing
      <4>1. j \in DOMAIN q \/ j = n + 1
        BY <1>1
      <4> QED
        BY <1>1, <1>3, <2>0, <3>1, <3>3, <4>1
    <3>4. LastSays(r, t, m, y)
      BY <3>1, <3>2, <3>3 DEF LastSays
    <3> QED
      BY <1>3, <3>4 DEF Leads, Says, r
  <2> QED
    BY <2>1, <2>2 DEF Leads
<1> QED
  BY <1>2, <1>3

\* The first line has arrived.
LEMMA LeadsTail ==
    ASSUME NEW S, NEW q \in Seq(S), q # << >>, NEW t, NEW m, NEW x, NEW y, Leads(q, t, m, x, y)
    PROVE  Leads(Tail(q), t, m, Says(Head(q), t, m, x), y)
<1> DEFINE r == Tail(q)
           n == Len(q)
           l == Head(q)
<1>1. /\ n \in Nat /\ n # 0 /\ DOMAIN q = 1 .. n /\ DOMAIN r = 1 .. n - 1
      /\ \A i \in 1 .. n - 1 : r[i] = q[i + 1]
      /\ q[1] = l
  BY TailIs
<1> HIDE DEF r, n, l
<1>0. \A i \in DOMAIN r : i + 1 \in DOMAIN q /\ r[i] = q[i + 1]
  BY <1>1
<1>2. CASE Silent(q, t, m) /\ y = x
  <2>1. Silent(r, t, m)
    BY <1>0, <1>2 DEF Silent
  <2>2. 1 \in DOMAIN q
    BY <1>1
  <2>3. Says(l, t, m, x) = x
    BY <1>1, <1>2, <2>2 DEF Silent, Says
  <2> QED
    BY <1>2, <2>1, <2>3 DEF Leads, r, l
<1>3. CASE LastSays(q, t, m, y)
  <2>1. PICK i \in DOMAIN q : /\ q[i].ts = t /\ q[i].chg[m] = y /\ y # Nothing
                              /\ \A j \in DOMAIN q : j > i /\ q[j].ts = t => q[j].chg[m] = Nothing
    BY <1>3 DEF LastSays
  <2>2. CASE i = 1
    <3>1. Says(l, t, m, x) = y
      BY <1>1, <2>1, <2>2 DEF Says
    <3>2. ASSUME NEW j \in DOMAIN r, r[j].ts = t PROVE r[j].chg[m] = Nothing
      <4>1. j + 1 \in DOMAIN q /\ j + 1 > 1
        BY <1>1
      <4> QED
        BY <1>0, <2>1, <2>2, <3>2, <4>1
    <3>3. Silent(r, t, m)
      BY <3>2 DEF Silent
    <3> QED
      BY <3>1, <3>3 DEF Leads, r, l
  <2>3. CASE i # 1
    <3>1. i - 1 \in DOMAIN r /\ r[i - 1] = q[i]
      BY <1>1, <2>3
    <3>2. ASSUME NEW j \in DOMAIN r, j > i - 1, r[j].ts = t PROVE r[j].chg[m] = Nothing
      <4>1. j + 1 \in DOMAIN q /\ j + 1 > i
        BY <1>1, <3>2
      <4> QED
        BY <1>0, <2>1, <3>2, <4>1
    <3>3. LastSays(r, t, m, y)
      BY <2>1, <3>1, <3>2 DEF LastSays
    <3> QED
      BY <3>3 DEF Leads, r
  <2> QED
    BY <2>2, <2>3
<1> QED
  BY <1>2, <1>3 DEF Leads

\* A line more that is silent.
LEMMA SilentAppend ==
    ASSUME NEW S, NEW q \in Seq(S), NEW l \in S, NEW t, NEW m, Silent(q, t, m),
           l.ts = t => l.chg[m] = Nothing
    PROVE  Silent(Append(q, l), t, m)
<1> DEFINE r == Append(q, l)
           n == Len(q)
<1>1. /\ n \in Nat /\ DOMAIN q = 1 .. n /\ DOMAIN r = 1 .. n + 1
      /\ \A i \in 1 .. n : r[i] = q[i]
      /\ r[n + 1] = l
  BY AppendIs
<1> HIDE DEF r, n
<1>2. \A i \in DOMAIN r : i \in DOMAIN q \/ i = n + 1
  BY <1>1
<1> QED
  BY <1>1, <1>2 DEF Silent, r

\* A queue stays silent when its first line has arrived.
LEMMA SilentTail ==
    ASSUME NEW S, NEW q \in Seq(S), q # << >>, NEW t, NEW m, Silent(q, t, m)
    PROVE  Silent(Tail(q), t, m)
<1> DEFINE r == Tail(q)
           n == Len(q)
<1>1. n \in Nat /\ DOMAIN q = 1 .. n /\ DOMAIN r = 1 .. n - 1 /\ \A i \in 1 .. n - 1 : r[i] = q[i + 1]
  BY TailIs
<1> HIDE DEF r, n
<1>2. \A i \in DOMAIN r : i + 1 \in DOMAIN q /\ r[i] = q[i + 1]
  BY <1>1
<1> QED
  BY <1>2 DEF Silent, r

\* The one line with a timestamp has arrived.
LEMMA NotAtTail ==
    ASSUME NEW S, NEW q \in Seq(S), q # << >>, NEW t, NEW i \in DOMAIN q, q[i].ts = t, Head(q).ts # t
    PROVE  \E j \in DOMAIN Tail(q) : Tail(q)[j].ts = t /\ Tail(q)[j] = q[i] /\ j + 1 = i
<1> DEFINE r == Tail(q)
           n == Len(q)
<1>1. /\ n \in Nat /\ n # 0 /\ DOMAIN q = 1 .. n /\ DOMAIN r = 1 .. n - 1
      /\ \A j \in 1 .. n - 1 : r[j] = q[j + 1]
      /\ q[1] = Head(q)
  BY TailIs
<1> HIDE DEF r, n
<1>2. i # 1
  BY <1>1
<1>3. i - 1 \in DOMAIN r /\ r[i - 1] = q[i] /\ (i - 1) + 1 = i
  BY <1>1, <1>2
<1> QED
  BY <1>3 DEF r

\* Without lines of this timestamp nothing changes.
LEMMA LeadsNone ==
    ASSUME NEW q, NEW t, NEW m, NEW x, NoneAt(q, t)
    PROVE  Silent(q, t, m) /\ Leads(q, t, m, x, x)
BY DEF NoneAt, Silent, Leads

\* A silent queue changes nothing.
LEMMA LeadsSilent ==
    ASSUME NEW q, NEW t, NEW m, NEW x, NEW y, Silent(q, t, m), Leads(q, t, m, x, y)
    PROVE  y = x
BY DEF Silent, Leads, LastSays

\* What a queue that leads to y makes of a lock on v.
LEMMA LeadsOrOpposes ==
    ASSUME NEW q, NEW p, NEW t, NEW m, NEW v, NEW y, Silent(q, t, m), Leads(p, t, m, v, y)
    PROVE  Leads(q, t, m, y, v) \/ Opposed(p, t, m, v)
BY DEF Leads, LastSays, Opposed

\* A line more can only oppose more.
LEMMA OpposedAppend ==
    ASSUME NEW S, NEW q \in Seq(S), NEW l \in S, NEW t, NEW m, NEW v,
           Opposed(q, t, m, v) \/ (l.ts = t /\ l.chg[m] \notin {Nothing, v})
    PROVE  Opposed(Append(q, l), t, m, v)
<1> DEFINE r == Append(q, l)
           n == Len(q)
<1>1. /\ n \in Nat /\ DOMAIN q = 1 .. n /\ DOMAIN r = 1 .. n + 1
      /\ \A i \in 1 .. n : r[i] = q[i]
      /\ r[n + 1] = l
  BY AppendIs
<1> HIDE DEF r, n
<1>2. n + 1 \in DOMAIN r /\ \A i \in DOMAIN q : i \in DOMAIN r
  BY <1>1
<1> QED
  BY <1>1, <1>2 DEF Opposed, r

\* The opposing line is still on its way unless it was the first.
LEMMA OpposedTail ==
    ASSUME NEW S, NEW q \in Seq(S), q # << >>, NEW t, NEW m, NEW v, Opposed(q, t, m, v),
           Head(q).ts = t => Head(q).chg[m] \in {Nothing, v}
    PROVE  Opposed(Tail(q), t, m, v)
<1> DEFINE r == Tail(q)
           n == Len(q)
<1>1. /\ n \in Nat /\ n # 0 /\ DOMAIN q = 1 .. n /\ DOMAIN r = 1 .. n - 1
      /\ \A j \in 1 .. n - 1 : r[j] = q[j + 1]
      /\ q[1] = Head(q)
  BY TailIs
<1> HIDE DEF r, n
<1>2. PICK i \in DOMAIN q : q[i].ts = t /\ q[i].chg[m] \notin {Nothing, v}
  BY DEF Opposed
<1>3. i # 1
  BY <1>1, <1>2
<1>4. i - 1 \in DOMAIN r /\ r[i - 1] = q[i]
  BY <1>1, <1>3
<1> QED
  BY <1>2, <1>4 DEF Opposed, r

---------------------------------------------------------------------------
(* The record, the network and the lines between them *)

\* A line to the network, and what its server has.
NetT == [kind : {"mode", "chan"}, ts : 0 .. Start, chg : Changes]
Server == [ts : 0 .. Start, modes : Settings, ulined : BOOLEAN]

\* In what follows s is what services know, k the locks, q the lines to the
\* network, n what the server has, p the lines to services, d the modes in
\* doubt and o the modes whose lock is loose.
Typed(s, k, q, n, p) == s \in Chan /\ k \in Locks /\ q \in Seq(NetT) /\ n \in Server /\ p \in Seq(LineT)

\* Nobody sends a line older than what he has himself; who has not learnt of the
\* older timestamp has a line with it before him; and a timestamp the server has
\* not learnt of reaches it first with the line by which ChanServ lowered it.
Timed(s, q, n, p) ==
    /\ \A i \in DOMAIN q : q[i].ts >= s.ts
    /\ \A i \in DOMAIN p : p[i].ts >= n.ts
    /\ n.ts < s.ts => \E i \in DOMAIN p : p[i].ts = n.ts
    /\ s.ts < n.ts => \E i \in DOMAIN q : q[i].ts = s.ts
    /\ \A i \in DOMAIN q : q[i].ts < n.ts =>
          \E j \in DOMAIN q : j <= i /\ q[j].kind = "chan" /\ q[j].ts = q[i].ts

\* Until services have learnt of an older channel, the lines on their way to them
\* tell them its modes, from none; and likewise for the server.
NetSaid(s, n, p) == n.ts < s.ts => \A m \in Modes : Leads(p, n.ts, m, Off, n.modes[m])
SvcSaid(s, q, n) == s.ts < n.ts => \A m \in Modes : Leads(q, s.ts, m, Off, s.told[m])

\* The lines of one of the two sides about the mode lead it to what the other
\* has; the other side has sent none.
Even(s, q, n, p, m) ==
    \/ Silent(p, s.ts, m) /\ Leads(q, s.ts, m, n.modes[m], s.told[m])
    \/ Silent(q, s.ts, m) /\ Leads(p, s.ts, m, s.told[m], n.modes[m])

\* What services have for the mode is accounted for and will be what the network
\* has.
TrackedAt(s, q, n, p, m) == Accounted(s, m) /\ (s.ts = n.ts => Even(s, q, n, p, m))

\* So it is for all modes but those that both changed at once, those that a line
\* set while a change was stacked, and those of which a change was lost.
Tracked(s, q, n, p, d) ==
    \A m \in Modes : m \notin d /\ m \notin s.crossed /\ m \notin s.lost => TrackedAt(s, q, n, p, m)

\* The network will have v for the mode, or a line that says otherwise is on its
\* way to services, who will set it again when they hear it.
Demanded(s, q, n, p, m, v) ==
    s.ts = n.ts /\ s.stack[m] = Nothing => Leads(q, s.ts, m, n.modes[m], v) \/ Opposed(p, s.ts, m, v)

\* The record has v for the mode, and the network will.
HeldAt(s, q, n, p, m, v) == s.modes[m] = v /\ Accounted(s, m) /\ Demanded(s, q, n, p, m, v)

\* So it is for each mode with a lock, whatever both did at once.
Held(s, k, q, n, p, o) ==
    ~s.bouncy => \A m \in Modes : \A v \in Values(m) :
        m \notin o /\ m \notin s.lost /\ Rules(k, m, v) => HeldAt(s, q, n, p, m, v)

\* The lines, the record, the network and the locks fit together.
Sound(s, k, q, n, p, d, o) ==
    /\ Typed(s, k, q, n, p) /\ Timed(s, q, n, p) /\ NetSaid(s, n, p) /\ SvcSaid(s, q, n)
    /\ Tracked(s, q, n, p, d) /\ Held(s, k, q, n, p, o)

\* Lines to the network have a timestamp.
LEMMA TimesAre ==
    ASSUME NEW q \in Seq(NetT)
    PROVE  \A i \in DOMAIN q : q[i] \in NetT /\ q[i].ts \in Nat
<1>1. \A i \in DOMAIN q : q[i] \in NetT
  OBVIOUS
<1>2. \A x \in NetT : x.ts \in Nat
  BY DEF NetT
<1> QED
  BY <1>1, <1>2

\* Services change modes, and stack what they change.
LEMMA MovesTracked ==
    ASSUME NEW s, NEW k, NEW q, NEW n, NEW p, NEW d, NEW o, Sound(s, k, q, n, p, d, o),
           NEW e, Moved(s, e)
    PROVE  /\ Typed(e, k, q, n, p) /\ Timed(e, q, n, p) /\ NetSaid(e, n, p) /\ SvcSaid(e, q, n)
           /\ Tracked(e, q, n, p, d)
<1>1. Typed(e, k, q, n, p) /\ e.ts = s.ts /\ e.told = s.told /\ s.lost \subseteq e.lost
      /\ s.crossed \subseteq e.crossed /\ (s.bouncy => e.bouncy) /\ \A m \in Modes : MovedAt(s, e, m)
  BY DEF Sound, Typed, Moved
<1>2. Timed(e, q, n, p) /\ NetSaid(e, n, p) /\ SvcSaid(e, q, n)
  BY <1>1 DEF Sound, Timed, NetSaid, SvcSaid
<1>3. ASSUME NEW m \in Modes, m \notin d, m \notin e.crossed, m \notin e.lost
      PROVE  TrackedAt(e, q, n, p, m)
  <2>1. TrackedAt(s, q, n, p, m) /\ MovedAt(s, e, m)
    BY <1>1, <1>3 DEF Sound, Tracked
  <2>2. Accounted(e, m)
    BY <1>1, <1>3, <2>1 DEF TrackedAt, MovedAt, Accounted
  <2> QED
    BY <1>1, <2>1, <2>2 DEF TrackedAt, Even
<1> QED
  BY <1>1, <1>2, <1>3 DEF Tracked

\* A lock that the record obeys after changes by services is still held.
LEMMA MovesHeld ==
    ASSUME NEW s, NEW q, NEW n, NEW p, NEW m \in Modes, NEW v \in Values(m), HeldAt(s, q, n, p, m, v),
           NEW e, Moved(s, e), e.modes[m] = v, m \notin e.lost
    PROVE  HeldAt(e, q, n, p, m, v)
<1>1. MovedAt(s, e, m) /\ e.told = s.told /\ e.ts = s.ts /\ v # Nothing
  BY Marks DEF Moved
<1>2. Accounted(e, m)
  BY <1>1 DEF HeldAt, MovedAt, Accounted
<1>3. s.stack[m] = v => e.stack[m] = v
  BY <1>1, StackKept
<1>4. e.stack[m] = Nothing => s.stack[m] = Nothing
  BY <1>1, <1>3 DEF HeldAt, Accounted
<1> QED
  BY <1>1, <1>2, <1>4 DEF HeldAt, Demanded

\* Channel::SetMode, after which the locks are looked at.
LEMMA MovesSound ==
    ASSUME NEW s, NEW k, NEW q, NEW n, NEW p, NEW d, NEW o, Sound(s, k, q, n, p, d, o),
           NEW e, Moved(s, e), ~e.bouncy => Obeyed(e, k)
    PROVE  Sound(e, k, q, n, p, d, o)
<1>1. ASSUME ~e.bouncy, NEW m \in Modes, NEW v \in Values(m), m \notin o, m \notin e.lost, Rules(k, m, v)
      PROVE  HeldAt(e, q, n, p, m, v)
  <2>1. HeldAt(s, q, n, p, m, v)
    BY <1>1 DEF Sound, Held, Moved
  <2>2. e.modes[m] = v
    BY <1>1 DEF Rules, Obeyed
  <2> QED
    BY <1>1, <2>1, <2>2, MovesHeld
<1> QED
  BY <1>1, MovesTracked DEF Sound, Held

\* A lock on v is set for the mode m, and the locks are looked at.
LEMMA LockSound ==
    ASSUME NEW s, NEW k, NEW q, NEW n, NEW p, NEW d, NEW o, Sound(s, k, q, n, p, d, o),
           NEW j \in Locks, NEW m \in Modes, NEW v \in Values(m),
           \A w : Rules(j, m, w) => w = v,
           \A u \in Modes \ {m} : \A w : Rules(j, u, w) => Rules(k, u, w),
           NEW e, Moved(s, e), ~e.bouncy => Obeyed(e, j)
    PROVE  Sound(e, j, q, n, p, d, (o \ {m}) \cup ((d \cup s.crossed) \cap {m}))
<1> DEFINE x == (o \ {m}) \cup ((d \cup s.crossed) \cap {m})
<1>1. ASSUME ~e.bouncy, NEW u \in Modes, NEW w \in Values(u), u \notin x, u \notin e.lost, Rules(j, u, w)
      PROVE  HeldAt(e, q, n, p, u, w)
  <2>1. e.modes[u] = w
    BY <1>1 DEF Rules, Obeyed
  <2>2. ~s.bouncy /\ u \notin s.lost /\ e.told = s.told /\ e.ts = s.ts /\ MovedAt(s, e, u)
    BY <1>1 DEF Moved
  <2>3. CASE u # m
    <3>1. HeldAt(s, q, n, p, u, w)
      BY <1>1, <2>2, <2>3 DEF Sound, Held
    <3> QED
      BY <1>1, <2>1, <3>1, MovesHeld
  <2>4. CASE u = m
    <3>1. TrackedAt(s, q, n, p, u)
      BY <1>1, <2>2, <2>4 DEF Sound, Tracked
    <3>2. Accounted(e, u)
      BY <1>1, <2>2, <3>1 DEF TrackedAt, MovedAt, Accounted
    <3>3. ASSUME s.ts = n.ts, e.stack[u] = Nothing
          PROVE  Leads(q, s.ts, u, n.modes[u], w) \/ Opposed(p, s.ts, u, w)
      <4>1. s.told[u] = w
        BY <2>1, <2>2, <3>2, <3>3 DEF Accounted
      <4>2. Even(s, q, n, p, u)
        BY <3>1, <3>3 DEF TrackedAt
      <4> QED
        BY <4>1, <4>2, LeadsOrOpposes DEF Even
    <3> QED
      BY <2>1, <2>2, <3>2, <3>3 DEF HeldAt, Demanded
  <2> QED
    BY <2>3, <2>4
<1> HIDE DEF x
<1>2. Held(e, j, q, n, p, x)
  BY <1>1 DEF Held
<1>3. Typed(e, j, q, n, p)
  BY MovesTracked DEF Typed
<1> QED
  BY <1>2, <1>3, MovesTracked DEF Sound, x

\* The line of stacked changes is sent.
LEMMA ProcessSound ==
    ASSUME NEW s, NEW k, NEW q, NEW n, NEW p, NEW d, NEW o, Sound(s, k, q, n, p, d, o)
    PROVE  Sound([s EXCEPT !.stack = Quiet, !.told = Apply(@, s.stack)], k,
                 Append(q, [kind |-> "mode", ts |-> s.ts, chg |-> s.stack]), n, p,
                 d \cup Crossing(p, s.ts, s.stack), o)
<1> DEFINE l == [kind |-> "mode", ts |-> s.ts, chg |-> s.stack]
           r == Append(q, l)
           e == [s EXCEPT !.stack = Quiet, !.told = Apply(@, s.stack)]
           w == Len(q)
<1>0. /\ s \in Chan /\ k \in Locks /\ q \in Seq(NetT) /\ n \in Server /\ p \in Seq(LineT)
      /\ s.ts \in 0 .. Start /\ s.told \in Settings /\ s.stack \in Changes
  BY ChanIs DEF Sound, Typed
<1>1. l \in NetT /\ l.ts = s.ts /\ l.kind = "mode" /\ l.chg = s.stack
  BY <1>0 DEF NetT
<1>2. Apply(s.told, s.stack) \in Settings
  BY <1>0 DEF Apply, Settings, Changes
<1>3. /\ e \in Chan /\ e.ts = s.ts /\ e.stack = Quiet /\ e.told = Apply(s.told, s.stack)
      /\ e.modes = s.modes /\ e.lost = s.lost /\ e.crossed = s.crossed /\ e.bouncy = s.bouncy
  BY <1>0, <1>2, Gets DEF Chan
<1> HIDE DEF l, e
<1>4. /\ r \in Seq(NetT) /\ w \in Nat /\ DOMAIN q = 1 .. w /\ DOMAIN r = 1 .. w + 1
      /\ \A i \in 1 .. w : r[i] = q[i]
      /\ r[w + 1] = l
  BY <1>0, <1>1, AppendIs
<1> HIDE DEF r, w
<1>5. /\ \A i \in DOMAIN q : i \in DOMAIN r /\ r[i] = q[i]
      /\ \A i \in DOMAIN r : i \in DOMAIN q \/ i = w + 1
      /\ w + 1 \in DOMAIN r
      /\ \A i \in DOMAIN q : i <= w + 1
  BY <1>4
<1>6. Timed(e, r, n, p)
  <2>1. Timed(s, q, n, p)
    BY DEF Sound
  <2>2. \A i \in DOMAIN r : r[i].ts >= e.ts
    BY <1>0, <1>1, <1>3, <1>4, <1>5, <2>1 DEF Timed
  <2>3. e.ts < n.ts => \E i \in DOMAIN r : r[i].ts = e.ts
    BY <1>1, <1>3, <1>4, <1>5
  <2>4. ASSUME NEW i \in DOMAIN r, r[i].ts < n.ts
        PROVE  \E j \in DOMAIN r : j <= i /\ r[j].kind = "chan" /\ r[j].ts = r[i].ts
    <3>1. CASE i \in DOMAIN q
      BY <1>5, <2>1, <2>4, <3>1 DEF Timed
    <3>2. CASE i = w + 1
      <4>1. r[i].ts = s.ts /\ s.ts < n.ts
        BY <1>1, <1>4, <2>4, <3>2
      <4>2. PICK h \in DOMAIN q : q[h].ts = s.ts
        BY <2>1, <4>1 DEF Timed
      <4>3. PICK j \in DOMAIN q : j <= h /\ q[j].kind = "chan" /\ q[j].ts = q[h].ts
        BY <2>1, <4>1, <4>2 DEF Timed
      <4> QED
        BY <1>5, <3>2, <4>1, <4>2, <4>3
    <3> QED
      BY <1>5, <3>1, <3>2
  <2> QED
    BY <1>3, <2>1, <2>2, <2>3, <2>4 DEF Timed
<1>7. NetSaid(e, n, p)
  BY <1>3 DEF Sound, NetSaid
<1>8. \A m \in Modes : e.told[m] = Says(l, s.ts, m, s.told[m]) /\ e.stack[m] = Nothing
  BY <1>1, <1>3 DEF Apply, Says, Quiet
<1>9. \A m \in Modes : \A x, y : Leads(q, s.ts, m, x, y) => Leads(r, s.ts, m, x, Says(l, s.ts, m, y))
  BY <1>0, <1>1, LeadsAppend DEF r
<1>10. SvcSaid(e, r, n)
  BY <1>3, <1>8, <1>9 DEF Sound, SvcSaid
<1>11. \A m \in Modes : Accounted(s, m) => e.modes[m] = e.told[m] /\ Accounted(e, m)
  BY <1>1, <1>3, <1>8 DEF Accounted, Says
<1>12. ASSUME NEW m \in Modes, m \notin d \cup Crossing(p, s.ts, s.stack), m \notin e.crossed, m \notin e.lost
       PROVE  TrackedAt(e, r, n, p, m)
  <2>1. TrackedAt(s, q, n, p, m)
    BY <1>3, <1>12 DEF Sound, Tracked
  <2>2. Accounted(e, m)
    BY <1>11, <2>1 DEF TrackedAt
  <2>3. ASSUME s.ts = n.ts PROVE Even(e, r, n, p, m)
    <3>1. Even(s, q, n, p, m)
      BY <2>1, <2>3 DEF TrackedAt
    <3>2. CASE s.stack[m] = Nothing
      <4>1. Silent(q, s.ts, m) => Silent(r, s.ts, m)
        BY <1>0, <1>1, <3>2, SilentAppend DEF r
      <4>2. e.told[m] = s.told[m]
        BY <1>1, <1>8, <3>2 DEF Says
      <4>3. Says(l, s.ts, m, s.told[m]) = s.told[m]
        BY <1>1, <3>2 DEF Says
      <4> QED
        BY <1>3, <1>9, <3>1, <4>1, <4>2, <4>3 DEF Even
    <3>3. CASE s.stack[m] # Nothing
      <4>1. Silent(p, s.ts, m)
        BY <1>12, <3>3 DEF Crossing, Touched, Silent
      <4>2. Leads(q, s.ts, m, n.modes[m], s.told[m])
        <5>1. CASE Silent(q, s.ts, m) /\ Leads(p, s.ts, m, s.told[m], n.modes[m])
          <6>1. n.modes[m] = s.told[m]
            BY <4>1, <5>1, LeadsSilent
          <6> QED
            BY <5>1, <6>1 DEF Leads
        <5> QED
          BY <3>1, <5>1 DEF Even
      <4>3. Leads(r, s.ts, m, n.modes[m], e.told[m])
        BY <1>8, <1>9, <4>2
      <4> QED
        BY <1>3, <4>1, <4>3 DEF Even
    <3> QED
      BY <3>2, <3>3
  <2> QED
    BY <1>3, <2>2, <2>3 DEF TrackedAt
<1>13. ASSUME ~e.bouncy, NEW m \in Modes, NEW v \in Values(m), m \notin o, m \notin e.lost, Rules(k, m, v)
       PROVE  HeldAt(e, r, n, p, m, v)
  <2>1. HeldAt(s, q, n, p, m, v)
    BY <1>3, <1>13 DEF Sound, Held
  <2>2. e.modes[m] = v /\ Accounted(e, m) /\ e.told[m] = v
    BY <1>3, <1>11, <2>1 DEF HeldAt
  <2>3. CASE s.stack[m] = Nothing
    <3>1. Leads(q, s.ts, m, n.modes[m], v) => Leads(r, s.ts, m, n.modes[m], v)
      <4>1. Says(l, s.ts, m, v) = v
        BY <1>1, <2>3 DEF Says
      <4> QED
        BY <1>9, <4>1
    <3> QED
      BY <1>3, <2>1, <2>2, <2>3, <3>1 DEF HeldAt, Demanded
  <2>4. CASE s.stack[m] # Nothing
    <3>1. s.stack[m] = v
      BY <2>1, <2>4 DEF HeldAt, Accounted
    <3>2. LastSays(r, s.ts, m, v)
      <4>1. r[w + 1].ts = s.ts /\ r[w + 1].chg[m] = v /\ \A j \in DOMAIN r : ~(j > w + 1)
        BY <1>1, <1>4, <3>1
      <4> QED
        BY <1>5, <2>4, <3>1, <4>1 DEF LastSays
    <3> QED
      BY <1>3, <2>2, <3>2 DEF HeldAt, Demanded, Leads
  <2> QED
    BY <2>3, <2>4
<1>14. Typed(e, k, r, n, p)
  BY <1>0, <1>3, <1>4 DEF Typed
<1>15. Sound(e, k, r, n, p, d \cup Crossing(p, s.ts, s.stack), o)
  BY <1>6, <1>7, <1>10, <1>12, <1>13, <1>14 DEF Sound, Tracked, Held
<1> QED
  BY <1>15 DEF e, r, l

\* A line of the network arrives.
LEMMA HearSound ==
    ASSUME NEW s, NEW k, NEW q, NEW n, NEW p, NEW d, NEW o, Sound(s, k, q, n, p, d, o),
           p # << >>, NEW e, Learns(s, e, k, Head(p))
    PROVE  Sound(e, k, q, n, Tail(p), d, o)
<1> DEFINE l == Head(p)
           r == Tail(p)
<1>0. /\ s \in Chan /\ k \in Locks /\ q \in Seq(NetT) /\ n \in Server /\ p \in Seq(LineT)
      /\ s.ts \in 0 .. Start /\ n.ts \in 0 .. Start
  BY ChanIs DEF Sound, Typed, Server
<1>1. l \in LineT /\ l.ts \in 0 .. Start /\ l.chg \in Changes /\ r \in Seq(LineT)
  <2>1. l \in LineT /\ r \in Seq(LineT)
    BY <1>0, TailIs
  <2> HIDE DEF l
  <2> QED
    BY <2>1 DEF LineT
<1>2. Timed(s, q, n, p)
  BY DEF Sound
<1>3. /\ Len(p) \in Nat /\ Len(p) # 0 /\ DOMAIN p = 1 .. Len(p) /\ DOMAIN r = 1 .. Len(p) - 1
      /\ \A i \in 1 .. Len(p) - 1 : r[i] = p[i + 1]
      /\ p[1] = l
  BY <1>0, TailIs
<1>4. l.ts >= n.ts
  BY <1>2, <1>3 DEF Timed
<1>5. \A i \in DOMAIN r : r[i].ts >= n.ts
  <2>1. \A i \in DOMAIN r : i + 1 \in DOMAIN p /\ r[i] = p[i + 1]
    BY <1>3
  <2> QED
    BY <1>2, <2>1 DEF Timed
<1>6. \A t, m, x, y : Leads(p, t, m, x, y) => Leads(r, t, m, Says(l, t, m, x), y)
  BY <1>0, LeadsTail
<1>7. \A t, m : Silent(p, t, m) => Silent(r, t, m)
  BY <1>0, SilentTail
<1>8. n.ts < s.ts /\ l.ts # n.ts => \E i \in DOMAIN r : r[i].ts = n.ts
  BY <1>0, <1>2, NotAtTail DEF Timed
<1>9. \A t, m, v : Opposed(p, t, m, v) /\ (l.ts = t => l.chg[m] \in {Nothing, v}) => Opposed(r, t, m, v)
  BY <1>0, OpposedTail
<1>10. 1 \in DOMAIN p
  BY <1>3
<1>11. \A m : Silent(p, l.ts, m) => l.chg[m] = Nothing
  BY <1>3, <1>10 DEF Silent
<1> HIDE DEF l, r
<1>12. CASE l.ts > s.ts /\ e = s
  <2>0. l.ts # s.ts
    BY <1>0, <1>1, <1>12
  <2>1. n.ts < s.ts => l.ts # n.ts
    BY <1>0, <1>1, <1>12
  <2>2. Timed(s, q, n, r)
    BY <1>2, <1>5, <1>8, <2>1 DEF Timed
  <2>3. NetSaid(s, n, r)
    BY <1>6, <2>1 DEF Sound, NetSaid, Says
  <2>4. ASSUME NEW m \in Modes, TrackedAt(s, q, n, p, m) PROVE TrackedAt(s, q, n, r, m)
    <3>1. \A x : Says(l, s.ts, m, x) = x
      BY <2>0 DEF Says
    <3> QED
      BY <1>6, <1>7, <2>4, <3>1 DEF TrackedAt, Even
  <2>5. ASSUME NEW m \in Modes, NEW v, HeldAt(s, q, n, p, m, v) PROVE HeldAt(s, q, n, r, m, v)
    BY <1>9, <2>0, <2>5 DEF HeldAt, Demanded
  <2>6. Tracked(s, q, n, r, d)
    BY <2>4 DEF Sound, Tracked
  <2>7. Held(s, k, q, n, r, o)
    BY <2>5 DEF Sound, Held
  <2>8. Typed(s, k, q, n, r) /\ SvcSaid(s, q, n)
    BY <1>0, <1>1 DEF Typed, Sound
  <2> QED
    BY <1>12, <2>2, <2>3, <2>6, <2>7, <2>8 DEF Sound, r
<1>13. CASE l.ts = s.ts /\ Heard(s, e, k, l.chg)
  <2>0. /\ e \in Chan /\ e.ts = s.ts /\ (s.bouncy => e.bouncy) /\ s.lost \subseteq e.lost
        /\ s.crossed \subseteq e.crossed
    BY <1>13 DEF Heard
  <2>1. ~(s.ts < n.ts) /\ (n.ts < s.ts => l.ts # n.ts)
    BY <1>0, <1>1, <1>4, <1>13
  <2>2. Timed(e, q, n, r)
    BY <1>2, <1>5, <1>8, <2>0, <2>1 DEF Timed
  <2>3. NetSaid(e, n, r)
    BY <1>6, <2>0, <2>1 DEF Sound, NetSaid, Says
  <2>4. SvcSaid(e, q, n)
    BY <2>0, <2>1 DEF SvcSaid
  <2>5. ASSUME NEW m \in Modes, m \notin d, m \notin e.crossed, m \notin e.lost
        PROVE  TrackedAt(e, q, n, r, m)
    <3>1. TrackedAt(s, q, n, p, m)
      BY <2>0, <2>5 DEF Sound, Tracked
    <3>2. HeardAt(s, e, l.chg, m)
      BY <1>13 DEF Heard
    <3>3. Accounted(e, m)
      BY <2>5, <3>1, <3>2 DEF HeardAt, TrackedAt, MovedAt, Accounted
    <3>4. e.told[m] = Says(l, s.ts, m, s.told[m])
      BY <1>13, <3>2 DEF HeardAt, Says
    <3>5. ASSUME s.ts = n.ts, Even(s, q, n, p, m) PROVE Even(e, q, n, r, m)
      <4>1. CASE Silent(p, s.ts, m) /\ Leads(q, s.ts, m, n.modes[m], s.told[m])
        <5>1. e.told[m] = s.told[m]
          BY <1>11, <1>13, <3>4, <4>1 DEF Says
        <5> QED
          BY <1>7, <2>0, <4>1, <5>1 DEF Even
      <4>2. CASE Silent(q, s.ts, m) /\ Leads(p, s.ts, m, s.told[m], n.modes[m])
        <5>1. Leads(r, s.ts, m, e.told[m], n.modes[m])
          BY <1>6, <3>4, <4>2
        <5> QED
          BY <2>0, <4>2, <5>1 DEF Even
      <4> QED
        BY <3>5, <4>1, <4>2 DEF Even
    <3> QED
      BY <2>0, <3>1, <3>3, <3>5 DEF TrackedAt
  <2>6. ASSUME ~e.bouncy, NEW m \in Modes, NEW v \in Values(m), m \notin o, m \notin e.lost, Rules(k, m, v)
        PROVE  HeldAt(e, q, n, r, m, v)
    <3>1. HeldAt(s, q, n, p, m, v) /\ Fulfilled(s, k, m, v)
      BY <2>0, <2>6 DEF Sound, Held, HeldAt, Fulfilled
    <3>2. StillHeld(s, e, m, v) /\ HeardAt(s, e, l.chg, m)
      BY <1>13, <2>6, <3>1 DEF Heard
    <3>3. e.modes[m] = v /\ Accounted(e, m) /\ (s.stack[m] = v => e.stack[m] = v) /\ v # Nothing
      BY <2>6, <3>2, Marks DEF StillHeld
    <3>4. ASSUME s.ts = n.ts, e.stack[m] = Nothing
          PROVE  Leads(q, s.ts, m, n.modes[m], v) \/ Opposed(r, s.ts, m, v)
      <4>1. s.stack[m] = Nothing
        BY <3>1, <3>3, <3>4 DEF HeldAt, Accounted
      <4>2. e.told[m] = v
        BY <3>3, <3>4 DEF Accounted
      <4>3. l.chg[m] \in {Nothing, v}
        BY <3>2, <4>2 DEF HeardAt
      <4>4. Leads(q, s.ts, m, n.modes[m], v) \/ Opposed(p, s.ts, m, v)
        BY <3>1, <3>4, <4>1 DEF HeldAt, Demanded
      <4> QED
        BY <1>9, <4>3, <4>4
    <3> QED
      BY <2>0, <3>3, <3>4 DEF HeldAt, Demanded
  <2>7. Tracked(e, q, n, r, d)
    BY <2>5 DEF Tracked
  <2>8. Held(e, k, q, n, r, o)
    BY <2>6 DEF Held
  <2>9. Typed(e, k, q, n, r)
    BY <1>0, <1>1, <2>0 DEF Typed
  <2> QED
    BY <2>2, <2>3, <2>4, <2>7, <2>8, <2>9 DEF Sound, r
<1>14. CASE l.ts < s.ts /\ Renewed(s, e, k, l.ts, l.chg)
  <2>0. /\ e \in Chan /\ e.ts = l.ts /\ (s.bouncy => e.bouncy) /\ s.lost \subseteq e.lost
        /\ s.crossed \subseteq e.crossed
    BY <1>14 DEF Renewed
  <2>1. n.ts < s.ts /\ ~(e.ts < n.ts) /\ (n.ts < e.ts => l.ts # n.ts)
    BY <1>0, <1>1, <1>4, <1>14, <2>0
  <2>2. \A i \in DOMAIN q : q[i].ts >= e.ts /\ q[i].ts # l.ts
    <3>1. \A i \in DOMAIN q : q[i].ts \in Nat
      BY <1>0, TimesAre
    <3> QED
      BY <1>0, <1>1, <1>2, <1>14, <2>0, <3>1 DEF Timed
  <2>3. Timed(e, q, n, r)
    BY <1>2, <1>5, <1>8, <2>1, <2>2 DEF Timed
  <2>4. NetSaid(e, n, r)
    BY <1>6, <2>1 DEF Sound, NetSaid, Says
  <2>5. SvcSaid(e, q, n)
    BY <2>1 DEF SvcSaid
  <2>6. ASSUME NEW m \in Modes, l.ts = n.ts
        PROVE  Silent(q, e.ts, m) /\ Leads(r, e.ts, m, e.told[m], n.modes[m])
    <3>1. Silent(q, e.ts, m)
      BY <2>0, <2>2 DEF Silent
    <3>2. Leads(p, l.ts, m, Off, n.modes[m])
      BY <2>1, <2>6 DEF Sound, NetSaid
    <3>3. e.told[m] = Says(l, l.ts, m, Off)
      BY <1>14 DEF Renewed, RenewedAt, Says
    <3> QED
      BY <1>6, <2>0, <3>1, <3>2, <3>3
  <2>7. ASSUME NEW m \in Modes, m \notin d, m \notin e.crossed, m \notin e.lost
        PROVE  TrackedAt(e, q, n, r, m)
    <3>1. Accounted(e, m)
      BY <1>14, <2>7 DEF Renewed, RenewedAt
    <3> QED
      BY <2>0, <2>6, <3>1 DEF TrackedAt, Even
  <2>8. ASSUME ~e.bouncy, NEW m \in Modes, NEW v \in Values(m), m \notin o, m \notin e.lost, Rules(k, m, v)
        PROVE  HeldAt(e, q, n, r, m, v)
    <3>1. Fulfilled(s, k, m, v)
      BY <2>0, <2>8 DEF Sound, Held, HeldAt, Fulfilled
    <3>2. e.modes[m] = v /\ Accounted(e, m)
      BY <1>14, <2>8, <3>1 DEF Renewed
    <3>3. ASSUME e.ts = n.ts, e.stack[m] = Nothing
          PROVE  Leads(q, e.ts, m, n.modes[m], v) \/ Opposed(r, e.ts, m, v)
      <4>1. e.told[m] = v
        BY <3>2, <3>3 DEF Accounted
      <4>2. Silent(q, e.ts, m) /\ Leads(r, e.ts, m, v, n.modes[m])
        BY <2>0, <2>6, <3>3, <4>1
      <4> QED
        BY <4>2, LeadsOrOpposes
    <3> QED
      BY <3>2, <3>3 DEF HeldAt, Demanded
  <2>9. Tracked(e, q, n, r, d)
    BY <2>7 DEF Tracked
  <2>10. Held(e, k, q, n, r, o)
    BY <2>8 DEF Held
  <2>11. Typed(e, k, q, n, r)
    BY <1>0, <1>1, <2>0 DEF Typed
  <2> QED
    BY <2>3, <2>4, <2>5, <2>9, <2>10, <2>11 DEF Sound, r
<1>15. Learns(s, e, k, l)
  BY DEF l
<1> QED
  BY <1>12, <1>13, <1>14, <1>15 DEF Learns, r

\* The changes that set the modes of a setting.
LEMMA SetsIs ==
    ASSUME NEW f \in Settings
    PROVE  /\ Sets(f) \in Changes
           /\ \A m \in Modes : Sets(f)[m] = IF f[m] = Off THEN Nothing ELSE f[m]
           /\ \A m \in Modes : f[m] # Nothing
<1>1. \A m \in Modes : f[m] # Nothing
  BY Marks, Gets
<1>2. Sets(f) \in Changes
  BY Marks DEF Sets, Changes, Settings
<1> QED
  BY <1>1, <1>2 DEF Sets

\* ChanServ lowers the timestamp and announces the modes under it.
LEMMA AnnounceSound ==
    ASSUME NEW s, NEW k, NEW q, NEW n, NEW p, NEW d, NEW o, Sound(s, k, q, n, p, d, o),
           NEW t \in 0 .. Start, t < s.ts, NEW e, Announced(s, e, k, t)
    PROVE  Sound(e, k, Append(q, [kind |-> "chan", ts |-> t, chg |-> Sets(s.modes)]), n, p,
                 d \cup Crossing(p, t, Sets(s.modes)), o)
<1> DEFINE l == [kind |-> "chan", ts |-> t, chg |-> Sets(s.modes)]
           r == Append(q, l)
           w == Len(q)
<1>0. /\ s \in Chan /\ k \in Locks /\ q \in Seq(NetT) /\ n \in Server /\ p \in Seq(LineT)
      /\ s.ts \in 0 .. Start /\ n.ts \in 0 .. Start /\ s.modes \in Settings
  BY ChanIs DEF Sound, Typed, Server
<1>1. l \in NetT /\ l.ts = t /\ l.kind = "chan" /\ l.chg = Sets(s.modes)
  BY <1>0, SetsIs DEF NetT
<1>2. /\ e \in Chan /\ e.ts = t /\ (s.bouncy => e.bouncy) /\ s.lost \subseteq e.lost
      /\ s.crossed \subseteq e.crossed /\ \A m \in Modes : LoweredAt(s, e, m)
  BY DEF Announced
<1> HIDE DEF l
<1>4. /\ r \in Seq(NetT) /\ w \in Nat /\ DOMAIN q = 1 .. w /\ DOMAIN r = 1 .. w + 1
      /\ \A i \in 1 .. w : r[i] = q[i]
      /\ r[w + 1] = l
  BY <1>0, <1>1, AppendIs
<1> HIDE DEF r, w
<1>5. /\ \A i \in DOMAIN q : i \in DOMAIN r /\ r[i] = q[i]
      /\ \A i \in DOMAIN r : i \in DOMAIN q \/ i = w + 1
      /\ w + 1 \in DOMAIN r /\ w + 1 <= w + 1
  BY <1>4
<1>6. \A i \in DOMAIN q : q[i].ts \in Nat /\ q[i].ts > t
  <2>1. \A i \in DOMAIN q : q[i].ts \in Nat
    BY <1>0, TimesAre
  <2>2. \A i \in DOMAIN q : q[i].ts >= s.ts
    BY DEF Sound, Timed
  <2> QED
    BY <1>0, <2>1, <2>2
<1>7. Timed(e, r, n, p)
  <2>1. Timed(s, q, n, p)
    BY DEF Sound
  <2>2. \A i \in DOMAIN r : r[i].ts >= e.ts
    BY <1>1, <1>2, <1>4, <1>5, <1>6
  <2>3. e.ts < n.ts => \E i \in DOMAIN r : r[i].ts = e.ts
    BY <1>1, <1>2, <1>4, <1>5
  <2>4. n.ts < e.ts => n.ts < s.ts
    BY <1>0, <1>2
  <2>5. ASSUME NEW i \in DOMAIN r, r[i].ts < n.ts
        PROVE  \E j \in DOMAIN r : j <= i /\ r[j].kind = "chan" /\ r[j].ts = r[i].ts
    <3>1. CASE i \in DOMAIN q
      BY <1>5, <2>1, <2>5, <3>1 DEF Timed
    <3>2. CASE i = w + 1
      BY <1>1, <1>4, <1>5, <3>2
    <3> QED
      BY <1>5, <3>1, <3>2
  <2> QED
    BY <2>1, <2>2, <2>3, <2>4, <2>5 DEF Timed
<1>8. NetSaid(e, n, p)
  <2>1. n.ts < e.ts => n.ts < s.ts
    BY <1>0, <1>2
  <2> QED
    BY <2>1 DEF Sound, NetSaid
<1>9. ASSUME NEW m \in Modes, NEW x PROVE Leads(r, t, m, x, Says(l, t, m, x))
  <2>1. Leads(q, t, m, x, x)
    <3>1. NoneAt(q, t)
      BY <1>6 DEF NoneAt
    <3> QED
      BY <3>1, LeadsNone
  <2> QED
    BY <1>0, <1>1, <2>1, LeadsAppend DEF r
<1>10. \A m \in Modes : Says(l, t, m, Off) = s.modes[m] /\ e.told[m] = s.modes[m]
  BY <1>0, <1>1, <1>2, SetsIs DEF Says, LoweredAt
<1>11. SvcSaid(e, r, n)
  BY <1>2, <1>9, <1>10 DEF SvcSaid
<1>12. ASSUME NEW m \in Modes, s.modes[m] = Off PROVE Silent(r, t, m)
  <2>1. Silent(q, t, m)
    BY <1>6 DEF Silent
  <2>2. l.chg[m] = Nothing
    BY <1>0, <1>1, <1>12, SetsIs
  <2> QED
    BY <1>0, <1>1, <2>1, <2>2, SilentAppend DEF r
<1>13. ASSUME NEW m \in Modes, s.modes[m] # Off PROVE \A x : Leads(r, t, m, x, s.modes[m])
  <2>1. \A x : Says(l, t, m, x) = s.modes[m]
    BY <1>0, <1>1, <1>13, SetsIs DEF Says
  <2> QED
    BY <1>9, <2>1
<1>14. t = n.ts => \A m \in Modes : Leads(p, t, m, Off, n.modes[m])
  BY <1>0 DEF Sound, NetSaid
<1>15. ASSUME NEW m \in Modes, m \notin d \cup Crossing(p, t, Sets(s.modes)),
              m \notin e.crossed, m \notin e.lost
       PROVE  TrackedAt(e, r, n, p, m)
  <2>1. Accounted(e, m)
    BY <1>2, <1>15 DEF LoweredAt
  <2>2. ASSUME t = n.ts PROVE Even(e, r, n, p, m)
    <3>1. CASE s.modes[m] = Off
      BY <1>2, <1>10, <1>12, <1>14, <2>2, <3>1 DEF Even
    <3>2. CASE s.modes[m] # Off
      <4>1. Sets(s.modes)[m] # Nothing
        BY <1>0, <3>2, SetsIs
      <4>2. Silent(p, t, m)
        BY <1>15, <4>1 DEF Crossing, Touched, Silent
      <4> QED
        BY <1>2, <1>10, <1>13, <3>2, <4>2 DEF Even
    <3> QED
      BY <3>1, <3>2
  <2> QED
    BY <1>2, <2>1, <2>2 DEF TrackedAt
<1>16. ASSUME ~e.bouncy, NEW m \in Modes, NEW v \in Values(m), m \notin o, m \notin e.lost, Rules(k, m, v)
       PROVE  HeldAt(e, r, n, p, m, v)
  <2>1. Fulfilled(s, k, m, v)
    BY <1>2, <1>16 DEF Sound, Held, HeldAt, Fulfilled
  <2>2. e.modes[m] = v /\ Accounted(e, m)
    BY <1>16, <2>1 DEF Announced
  <2>3. s.modes[m] = v
    BY <2>1 DEF Fulfilled
  <2>4. ASSUME t = n.ts PROVE Leads(r, t, m, n.modes[m], v) \/ Opposed(p, t, m, v)
    <3>1. CASE v = Off
      <4>1. Silent(r, t, m) /\ Leads(p, t, m, v, n.modes[m])
        BY <1>12, <1>14, <2>3, <2>4, <3>1
      <4> QED
        BY <4>1, LeadsOrOpposes
    <3>2. CASE v # Off
      BY <1>13, <2>3, <3>2
    <3> QED
      BY <3>1, <3>2
  <2> QED
    BY <1>2, <2>2, <2>4 DEF HeldAt, Demanded
<1>17. Typed(e, k, r, n, p)
  BY <1>0, <1>2, <1>4 DEF Typed
<1>18. Sound(e, k, r, n, p, d \cup Crossing(p, t, Sets(s.modes)), o)
  BY <1>7, <1>8, <1>11, <1>15, <1>16, <1>17 DEF Sound, Tracked, Held
<1> QED
  BY <1>18 DEF r, l

\* The server has handled the first line of the queue q, and has the timestamp
\* t: that of the line if it is older.
LEMMA TimedTail ==
    ASSUME NEW s \in Chan, NEW q \in Seq(NetT), q # << >>, NEW n \in Server, NEW p \in Seq(LineT),
           Timed(s, q, n, p), NEW g \in Server,
           g.ts = n.ts \/ (g.ts = Head(q).ts /\ g.ts < n.ts), Head(q).ts >= g.ts
    PROVE  Timed(s, Tail(q), g, p)
<1> DEFINE l == Head(q)
           r == Tail(q)
<1>0. s.ts \in 0 .. Start /\ n.ts \in 0 .. Start /\ g.ts \in 0 .. Start
  BY ChanIs DEF Server
<1>1. /\ Len(q) \in Nat /\ Len(q) # 0 /\ DOMAIN q = 1 .. Len(q) /\ DOMAIN r = 1 .. Len(q) - 1
      /\ \A i \in 1 .. Len(q) - 1 : r[i] = q[i + 1]
      /\ q[1] = l
  BY TailIs
<1>2. \A i \in DOMAIN q : q[i].ts \in Nat
  BY TimesAre
<1>3. \A i \in DOMAIN p : p[i].ts \in Nat
  <2>1. \A i \in DOMAIN p : p[i] \in LineT
    OBVIOUS
  <2>2. \A x \in LineT : x.ts \in Nat
    BY DEF LineT
  <2> QED
    BY <2>1, <2>2
<1> HIDE DEF l, r
<1>4. 1 \in DOMAIN q /\ l.ts \in Nat /\ l.ts >= s.ts
  BY <1>1, <1>2 DEF Timed
<1>5. \A i \in DOMAIN r : i + 1 \in DOMAIN q /\ r[i] = q[i + 1] /\ r[i].ts >= s.ts
  BY <1>1 DEF Timed
<1>6. \A i \in DOMAIN p : p[i].ts >= g.ts
  BY <1>0, <1>3 DEF Timed
<1>7. g.ts < s.ts => \E i \in DOMAIN p : p[i].ts = g.ts
  BY <1>0, <1>4 DEF Timed, l
<1>8. s.ts < g.ts => \E i \in DOMAIN r : r[i].ts = s.ts
  <2>1. SUFFICES ASSUME s.ts < g.ts PROVE \E i \in DOMAIN r : r[i].ts = s.ts
    OBVIOUS
  <2>2. PICK i \in DOMAIN q : q[i].ts = s.ts
    BY <1>0, <2>1 DEF Timed
  <2>3. Head(q).ts # s.ts
    BY <1>0, <1>4, <2>1 DEF l
  <2> QED
    BY <2>2, <2>3, NotAtTail DEF r
<1>9. ASSUME NEW i \in DOMAIN r, r[i].ts < g.ts
      PROVE  \E j \in DOMAIN r : j <= i /\ r[j].kind = "chan" /\ r[j].ts = r[i].ts
  <2>1. i + 1 \in DOMAIN q /\ r[i] = q[i + 1] /\ q[i + 1].ts < n.ts /\ q[i + 1].ts < g.ts
    BY <1>0, <1>2, <1>5, <1>9
  <2>2. PICK h \in DOMAIN q : h <= i + 1 /\ q[h].kind = "chan" /\ q[h].ts = q[i + 1].ts
    BY <2>1 DEF Timed
  <2>3. h # 1
    BY <1>0, <1>1, <1>2, <1>4, <2>1, <2>2 DEF l
  <2>4. h - 1 \in DOMAIN r /\ r[h - 1] = q[h] /\ h - 1 <= i
    BY <1>1, <2>2, <2>3
  <2> QED
    BY <2>1, <2>2, <2>4
<1> QED
  BY <1>5, <1>6, <1>7, <1>8, <1>9 DEF Timed, r

\* A change on the network, or a join, under the timestamp the server has.
LEMMA SaysSound ==
    ASSUME NEW s, NEW k, NEW q, NEW n, NEW p, NEW d, NEW o, Sound(s, k, q, n, p, d, o),
           NEW l \in LineT, l.ts = n.ts,
           NEW g \in Server, g.ts = n.ts, g.modes = Apply(n.modes, l.chg)
    PROVE  Sound(s, k, q, g, Append(p, l), d \cup Crossing(q, l.ts, l.chg), o)
<1> DEFINE r == Append(p, l)
           w == Len(p)
<1>0. /\ s \in Chan /\ k \in Locks /\ q \in Seq(NetT) /\ n \in Server /\ p \in Seq(LineT)
      /\ s.ts \in 0 .. Start /\ n.ts \in 0 .. Start
  BY ChanIs DEF Sound, Typed, Server
<1>1. /\ r \in Seq(LineT) /\ w \in Nat /\ DOMAIN p = 1 .. w /\ DOMAIN r = 1 .. w + 1
      /\ \A i \in 1 .. w : r[i] = p[i]
      /\ r[w + 1] = l
  BY <1>0, AppendIs
<1>2. \A t, m, x, y : Leads(p, t, m, x, y) => Leads(r, t, m, x, Says(l, t, m, y))
  BY <1>0, LeadsAppend
<1>3. \A t, m : Silent(p, t, m) /\ (l.ts = t => l.chg[m] = Nothing) => Silent(r, t, m)
  BY <1>0, SilentAppend
<1>4. \A t, m, v : Opposed(p, t, m, v) \/ (l.ts = t /\ l.chg[m] \notin {Nothing, v}) => Opposed(r, t, m, v)
  BY <1>0, OpposedAppend
<1> HIDE DEF r, w
<1>5. /\ \A i \in DOMAIN p : i \in DOMAIN r /\ r[i] = p[i]
      /\ \A i \in DOMAIN r : i \in DOMAIN p \/ i = w + 1
  BY <1>1
<1>6. \A m \in Modes : g.modes[m] = Says(l, n.ts, m, n.modes[m])
  BY DEF Apply, Says
<1>7. Timed(s, q, g, r)
  <2>1. \A i \in DOMAIN r : r[i].ts >= g.ts
    BY <1>0, <1>1, <1>5 DEF Sound, Timed
  <2>2. n.ts < s.ts => \E i \in DOMAIN r : r[i].ts = n.ts
    BY <1>5 DEF Sound, Timed
  <2> QED
    BY <2>1, <2>2 DEF Sound, Timed
<1>8. NetSaid(s, g, r)
  BY <1>2, <1>6 DEF Sound, NetSaid
<1>9. SvcSaid(s, q, g)
  BY DEF Sound, SvcSaid
<1>10. ASSUME NEW m \in Modes, m \notin d \cup Crossing(q, l.ts, l.chg), m \notin s.crossed, m \notin s.lost
       PROVE  TrackedAt(s, q, g, r, m)
  <2>1. TrackedAt(s, q, n, p, m)
    BY <1>10 DEF Sound, Tracked
  <2>2. ASSUME s.ts = n.ts PROVE Even(s, q, g, r, m)
    <3>1. Even(s, q, n, p, m)
      BY <2>1, <2>2 DEF TrackedAt
    <3>2. CASE l.chg[m] = Nothing
      <4>1. g.modes[m] = n.modes[m] /\ \A y : Says(l, s.ts, m, y) = y
        BY <1>6, <3>2 DEF Says
      <4> QED
        BY <1>2, <1>3, <3>1, <3>2, <4>1 DEF Even
    <3>3. CASE l.chg[m] # Nothing
      <4>1. Silent(q, s.ts, m)
        BY <1>10, <2>2, <3>3 DEF Crossing, Touched, Silent
      <4>2. Leads(p, s.ts, m, s.told[m], n.modes[m])
        <5>1. CASE Silent(p, s.ts, m) /\ Leads(q, s.ts, m, n.modes[m], s.told[m])
          <6>1. s.told[m] = n.modes[m]
            BY <4>1, <5>1, LeadsSilent
          <6> QED
            BY <5>1, <6>1 DEF Leads
        <5> QED
          BY <3>1, <5>1 DEF Even
      <4>3. Leads(r, s.ts, m, s.told[m], g.modes[m])
        BY <1>2, <1>6, <2>2, <4>2
      <4> QED
        BY <4>1, <4>3 DEF Even
    <3> QED
      BY <3>2, <3>3
  <2> QED
    BY <2>1, <2>2 DEF TrackedAt
<1>11. ASSUME NEW m \in Modes, NEW v \in Values(m), HeldAt(s, q, n, p, m, v)
       PROVE  HeldAt(s, q, g, r, m, v)
  <2>1. ASSUME s.ts = n.ts, s.stack[m] = Nothing
        PROVE  Leads(q, s.ts, m, g.modes[m], v) \/ Opposed(r, s.ts, m, v)
    <3>1. Leads(q, s.ts, m, n.modes[m], v) \/ Opposed(p, s.ts, m, v)
      BY <1>11, <2>1 DEF HeldAt, Demanded
    <3>2. CASE Opposed(p, s.ts, m, v)
      BY <1>4, <3>2
    <3>3. CASE LastSays(q, s.ts, m, v)
      BY <3>3 DEF Leads
    <3>4. CASE Silent(q, s.ts, m) /\ n.modes[m] = v
      <4>1. g.modes[m] = v \/ l.chg[m] \notin {Nothing, v}
        BY <1>6, <3>4 DEF Says
      <4> QED
        BY <1>4, <2>1, <3>4, <4>1 DEF Leads
    <3> QED
      BY <3>1, <3>2, <3>3, <3>4 DEF Leads
  <2> QED
    BY <1>11, <2>1 DEF HeldAt, Demanded
<1>12. Tracked(s, q, g, r, d \cup Crossing(q, l.ts, l.chg))
  BY <1>10 DEF Tracked
<1>13. Held(s, k, q, g, r, o)
  BY <1>11 DEF Sound, Held
<1>14. Typed(s, k, q, g, r)
  BY <1>0, <1>1 DEF Typed
<1> QED
  BY <1>7, <1>8, <1>9, <1>12, <1>13, <1>14 DEF Sound, r

\* A server with an older channel links.
LEMMA MergeSound ==
    ASSUME NEW s, NEW k, NEW q, NEW n, NEW p, NEW d, NEW o, Sound(s, k, q, n, p, d, o),
           NEW f \in Settings, NEW l \in LineT, l.ts < n.ts, l.chg = Sets(f),
           NEW g \in Server, g.ts = l.ts, g.modes = f
    PROVE  Sound(s, k, q, g, Append(p, l), d \cup Crossing(q, l.ts, l.chg), o)
<1> DEFINE r == Append(p, l)
           w == Len(p)
           t == l.ts
<1>0. /\ s \in Chan /\ k \in Locks /\ q \in Seq(NetT) /\ n \in Server /\ p \in Seq(LineT)
      /\ s.ts \in 0 .. Start /\ n.ts \in 0 .. Start /\ t \in 0 .. Start
  BY ChanIs DEF Sound, Typed, Server, LineT
<1>1. /\ r \in Seq(LineT) /\ w \in Nat /\ DOMAIN p = 1 .. w /\ DOMAIN r = 1 .. w + 1
      /\ \A i \in 1 .. w : r[i] = p[i]
      /\ r[w + 1] = l
  BY <1>0, AppendIs
<1>2. \A m, x, y : Leads(p, t, m, x, y) => Leads(r, t, m, x, Says(l, t, m, y))
  BY <1>0, LeadsAppend
<1>3. \A m : Silent(p, t, m) /\ l.chg[m] = Nothing => Silent(r, t, m)
  BY <1>0, SilentAppend
<1>4. \A m, v : l.chg[m] \notin {Nothing, v} => Opposed(r, t, m, v)
  BY <1>0, OpposedAppend
<1> HIDE DEF r, w
<1>5. /\ \A i \in DOMAIN p : i \in DOMAIN r /\ r[i] = p[i]
      /\ \A i \in DOMAIN r : i \in DOMAIN p \/ i = w + 1
      /\ w + 1 \in DOMAIN r
  BY <1>1
<1>6. \A i \in DOMAIN p : p[i].ts \in Nat /\ p[i].ts > t
  <2>1. \A i \in DOMAIN p : p[i].ts \in Nat
    <3>1. \A i \in DOMAIN p : p[i] \in LineT
      BY <1>0
    <3>2. \A x \in LineT : x.ts \in Nat
      BY DEF LineT
    <3> QED
      BY <3>1, <3>2
  <2>2. \A i \in DOMAIN p : p[i].ts >= n.ts
    BY DEF Sound, Timed
  <2> QED
    BY <1>0, <2>1, <2>2
<1>7. \A i \in DOMAIN q : q[i].ts \in Nat
  BY <1>0, TimesAre
<1>8. Timed(s, q, g, r)
  <2>1. Timed(s, q, n, p)
    BY DEF Sound
  <2>2. \A i \in DOMAIN r : r[i].ts >= g.ts
    BY <1>0, <1>1, <1>5, <1>6
  <2>3. \E i \in DOMAIN r : r[i].ts = g.ts
    BY <1>1, <1>5
  <2>4. s.ts < g.ts => s.ts < n.ts
    BY <1>0
  <2>5. \A i \in DOMAIN q : q[i].ts < g.ts => q[i].ts < n.ts
    BY <1>0, <1>7
  <2> QED
    BY <2>1, <2>2, <2>3, <2>4, <2>5 DEF Timed
<1>9. \A m \in Modes : Silent(p, t, m) /\ \A x : Leads(p, t, m, x, x)
  <2>1. NoneAt(p, t)
    BY <1>0, <1>6 DEF NoneAt
  <2> QED
    BY <2>1, LeadsNone
<1>10. \A m \in Modes : Says(l, t, m, Off) = f[m] /\ (f[m] # Off => \A x : Says(l, t, m, x) = f[m])
  BY SetsIs DEF Says
<1>11. NetSaid(s, g, r)
  BY <1>2, <1>9, <1>10 DEF NetSaid
<1>12. SvcSaid(s, q, g)
  <2>1. s.ts < g.ts => s.ts < n.ts
    BY <1>0
  <2> QED
    BY <2>1 DEF Sound, SvcSaid
<1>13. s.ts = t => \A m \in Modes : Leads(q, t, m, Off, s.told[m])
  BY <1>0 DEF Sound, SvcSaid
<1>14. \A m \in Modes : f[m] = Off => Silent(r, t, m)
  BY <1>3, <1>9, SetsIs
<1>15. ASSUME NEW m \in Modes, m \notin d \cup Crossing(q, l.ts, l.chg), m \notin s.crossed, m \notin s.lost
       PROVE  TrackedAt(s, q, g, r, m)
  <2>1. Accounted(s, m)
    BY <1>15 DEF Sound, Tracked, TrackedAt
  <2>2. ASSUME s.ts = t PROVE Even(s, q, g, r, m)
    <3>1. CASE f[m] = Off
      BY <1>13, <1>14, <2>2, <3>1 DEF Even
    <3>2. CASE f[m] # Off
      <4>1. l.chg[m] # Nothing
        BY <3>2, SetsIs
      <4>2. Silent(q, t, m)
        BY <1>15, <4>1 DEF Crossing, Touched, Silent
      <4>3. Leads(r, t, m, s.told[m], f[m])
        <5>1. Leads(r, t, m, s.told[m], Says(l, t, m, s.told[m]))
          BY <1>2, <1>9
        <5> QED
          BY <1>10, <3>2, <5>1
      <4> QED
        BY <2>2, <4>2, <4>3 DEF Even
    <3> QED
      BY <3>1, <3>2
  <2> QED
    BY <2>1, <2>2 DEF TrackedAt
<1>16. ASSUME NEW m \in Modes, NEW v \in Values(m), HeldAt(s, q, n, p, m, v)
       PROVE  HeldAt(s, q, g, r, m, v)
  <2>1. ASSUME s.ts = t, s.stack[m] = Nothing
        PROVE  Leads(q, t, m, f[m], v) \/ Opposed(r, t, m, v)
    <3>1. Leads(q, t, m, Off, v)
      BY <1>13, <1>16, <2>1 DEF HeldAt, Accounted
    <3>2. CASE f[m] = Off \/ LastSays(q, t, m, v)
      BY <3>1, <3>2 DEF Leads
    <3>3. CASE f[m] # Off /\ v = Off
      <4>1. l.chg[m] = f[m] /\ f[m] # Nothing
        BY <3>3, SetsIs
      <4> QED
        BY <1>4, <3>3, <4>1
    <3> QED
      BY <3>1, <3>2, <3>3 DEF Leads
  <2> QED
    BY <1>16, <2>1 DEF HeldAt, Demanded
<1>17. Tracked(s, q, g, r, d \cup Crossing(q, l.ts, l.chg))
  BY <1>15 DEF Tracked
<1>18. Held(s, k, q, g, r, o)
  BY <1>16 DEF Sound, Held
<1>19. Typed(s, k, q, g, r)
  BY <1>0, <1>1 DEF Typed
<1> QED
  BY <1>8, <1>11, <1>12, <1>17, <1>18, <1>19 DEF Sound, r

\* The server drops a line of services for a younger channel.
LEMMA DropSound ==
    ASSUME NEW s, NEW k, NEW q, NEW n, NEW p, NEW d, NEW o, Sound(s, k, q, n, p, d, o),
           q # << >>, Head(q).ts > n.ts
    PROVE  Sound(s, k, Tail(q), n, p, d, o)
<1> DEFINE l == Head(q)
           r == Tail(q)
<1>0. /\ s \in Chan /\ k \in Locks /\ q \in Seq(NetT) /\ n \in Server /\ p \in Seq(LineT)
      /\ s.ts \in 0 .. Start /\ n.ts \in 0 .. Start
  BY ChanIs DEF Sound, Typed, Server
<1>1. l \in NetT /\ l.ts \in Nat /\ r \in Seq(NetT)
  <2>1. l \in NetT /\ r \in Seq(NetT)
    BY <1>0, TailIs
  <2> HIDE DEF l
  <2> QED
    BY <2>1 DEF NetT
<1>2. Timed(s, r, n, p)
  BY <1>0, <1>1, TimedTail DEF Sound
<1>3. \A t, m, x, y : Leads(q, t, m, x, y) => Leads(r, t, m, Says(l, t, m, x), y)
  BY <1>0, LeadsTail
<1>4. \A t, m : Silent(q, t, m) => Silent(r, t, m)
  BY <1>0, SilentTail
<1> HIDE DEF l, r
<1>5. s.ts <= n.ts => \A m, x : Says(l, s.ts, m, x) = x
  BY <1>0, <1>1 DEF Says, l
<1>6. SvcSaid(s, r, n)
  BY <1>0, <1>3, <1>5 DEF Sound, SvcSaid
<1>7. ASSUME NEW m \in Modes, TrackedAt(s, q, n, p, m) PROVE TrackedAt(s, r, n, p, m)
  BY <1>0, <1>3, <1>4, <1>5, <1>7 DEF TrackedAt, Even
<1>8. ASSUME NEW m \in Modes, NEW v, HeldAt(s, q, n, p, m, v) PROVE HeldAt(s, r, n, p, m, v)
  BY <1>0, <1>3, <1>5, <1>8 DEF HeldAt, Demanded
<1>9. Tracked(s, r, n, p, d)
  BY <1>7 DEF Sound, Tracked
<1>10. Held(s, k, r, n, p, o)
  BY <1>8 DEF Sound, Held
<1> QED
  BY <1>0, <1>1, <1>2, <1>6, <1>9, <1>10 DEF Sound, Typed, r

\* The server takes back what a line of services would change.
LEMMA BounceSound ==
    ASSUME NEW s, NEW k, NEW q, NEW n, NEW p, NEW d, NEW o, Sound(s, k, q, n, p, d, o),
           q # << >>, Head(q).ts = n.ts, NEW b \in LineT, b.ts = n.ts,
           \A m \in Modes : b.chg[m] = IF Head(q).chg[m] \in {Nothing, n.modes[m]} THEN Nothing
                                       ELSE n.modes[m]
    PROVE  Sound(s, k, Tail(q), n, Append(p, b), d \cup Crossing(Tail(q), n.ts, b.chg), o)
<1> DEFINE l == Head(q)
           r == Tail(q)
           z == Append(p, b)
           t == n.ts
<1>0. /\ s \in Chan /\ k \in Locks /\ q \in Seq(NetT) /\ n \in Server /\ p \in Seq(LineT)
      /\ s.ts \in 0 .. Start /\ n.ts \in 0 .. Start /\ n.modes \in Settings
  BY ChanIs DEF Sound, Typed, Server
<1>1. l \in NetT /\ r \in Seq(NetT)
  BY <1>0, TailIs
<1>2. z \in Seq(LineT)
  BY <1>0, AppendIs
<1>3. \A u, m, x, y : Leads(q, u, m, x, y) => Leads(r, u, m, Says(l, u, m, x), y)
  BY <1>0, LeadsTail
<1>4. \A u, m : Silent(q, u, m) => Silent(r, u, m)
  BY <1>0, SilentTail
<1>5. \A u, m, x, y : Leads(p, u, m, x, y) => Leads(z, u, m, x, Says(b, u, m, y))
  BY <1>0, LeadsAppend
<1>6. \A u, m : Silent(p, u, m) /\ (b.ts = u => b.chg[m] = Nothing) => Silent(z, u, m)
  BY <1>0, SilentAppend
<1>7. \A u, m, v : Opposed(p, u, m, v) \/ (b.ts = u /\ b.chg[m] \notin {Nothing, v}) => Opposed(z, u, m, v)
  BY <1>0, OpposedAppend
<1>8. Timed(s, r, n, p)
  BY <1>0, TimedTail DEF Sound
<1>9. 1 \in DOMAIN q /\ q[1] = l
  <2>1. Len(q) \in Nat /\ Len(q) # 0 /\ DOMAIN q = 1 .. Len(q) /\ q[1] = Head(q)
    BY <1>0, TailIs
  <2> QED
    BY <2>1
<1>10. DOMAIN p = 1 .. Len(p) /\ Len(p) \in Nat /\ DOMAIN z = 1 .. Len(p) + 1
       /\ (\A i \in 1 .. Len(p) : z[i] = p[i]) /\ z[Len(p) + 1] = b
  BY <1>0, AppendIs
<1>11. /\ \A i \in DOMAIN p : i \in DOMAIN z /\ z[i] = p[i]
       /\ \A i \in DOMAIN z : i \in DOMAIN p \/ z[i] = b
  BY <1>10
<1> HIDE DEF l, r, z
<1>12. s.ts <= t
  BY <1>9 DEF Sound, Timed, l
<1>13. Timed(s, r, n, z)
  <2>1. \A i \in DOMAIN z : z[i].ts >= n.ts
    BY <1>0, <1>8, <1>11 DEF Timed
  <2>2. n.ts < s.ts => \E i \in DOMAIN z : z[i].ts = n.ts
    BY <1>8, <1>11 DEF Timed
  <2> QED
    BY <1>8, <2>1, <2>2 DEF Timed
<1>14. NetSaid(s, n, z)
  BY <1>0, <1>12 DEF NetSaid
<1>15. SvcSaid(s, r, n)
  <2>1. s.ts < t => l.ts # s.ts
    BY <1>0 DEF l
  <2> QED
    BY <1>3, <2>1 DEF Sound, SvcSaid, Says
<1>16. l.ts = t
  BY DEF l
<1>17. \A m \in Modes : /\ b.chg[m] = IF l.chg[m] \in {Nothing, n.modes[m]} THEN Nothing ELSE n.modes[m]
                        /\ n.modes[m] # Nothing
  BY <1>0, SetsIs DEF l
<1>18. \A m \in Modes : l.chg[m] # Nothing => ~Silent(q, t, m)
  BY <1>9, <1>16 DEF Silent
<1>19. ASSUME NEW m \in Modes, m \notin d \cup Crossing(r, t, b.chg), m \notin s.crossed, m \notin s.lost
       PROVE  TrackedAt(s, r, n, z, m)
  <2>1. TrackedAt(s, q, n, p, m)
    BY <1>19 DEF Sound, Tracked
  <2>2. ASSUME s.ts = t PROVE Even(s, r, n, z, m)
    <3>1. Even(s, q, n, p, m)
      BY <2>1, <2>2 DEF TrackedAt
    <3>2. CASE l.chg[m] = Nothing
      <4>1. b.chg[m] = Nothing
        BY <1>17, <3>2
      <4>2. \A x : Says(l, t, m, x) = x /\ Says(b, t, m, x) = x
        BY <3>2, <4>1 DEF Says
      <4> QED
        BY <1>3, <1>4, <1>5, <1>6, <2>2, <3>1, <4>1, <4>2 DEF Even
    <3>3. CASE l.chg[m] # Nothing
      <4>1. Silent(p, t, m) /\ Leads(q, t, m, n.modes[m], s.told[m])
        BY <1>18, <2>2, <3>1, <3>3 DEF Even
      <4>2. Leads(r, t, m, l.chg[m], s.told[m])
        <5>1. Says(l, t, m, n.modes[m]) = l.chg[m]
          BY <1>16, <3>3 DEF Says
        <5> QED
          BY <1>3, <4>1, <5>1
      <4>3. CASE l.chg[m] = n.modes[m]
        <5>1. b.chg[m] = Nothing
          BY <1>17, <4>3
        <5> QED
          BY <1>6, <2>2, <4>1, <4>2, <4>3, <5>1 DEF Even
      <4>4. CASE l.chg[m] # n.modes[m]
        <5>1. b.chg[m] = n.modes[m] /\ b.chg[m] # Nothing
          BY <1>17, <3>3, <4>4
        <5>2. Silent(r, t, m)
          BY <1>19, <5>1 DEF Crossing, Touched, Silent
        <5>3. Leads(z, t, m, s.told[m], n.modes[m])
          <6>1. Leads(p, t, m, s.told[m], s.told[m])
            BY <4>1 DEF Leads
          <6>2. Says(b, t, m, s.told[m]) = n.modes[m]
            BY <5>1 DEF Says
          <6> QED
            BY <1>5, <6>1, <6>2
        <5> QED
          BY <2>2, <5>2, <5>3 DEF Even
      <4> QED
        BY <4>3, <4>4
    <3> QED
      BY <3>2, <3>3
  <2> QED
    BY <2>1, <2>2 DEF TrackedAt
<1>20. ASSUME NEW m \in Modes, NEW v \in Values(m), HeldAt(s, q, n, p, m, v)
       PROVE  HeldAt(s, r, n, z, m, v)
  <2>1. ASSUME s.ts = t, s.stack[m] = Nothing
        PROVE  Leads(r, t, m, n.modes[m], v) \/ Opposed(z, t, m, v)
    <3>1. Leads(q, t, m, n.modes[m], v) \/ Opposed(p, t, m, v)
      BY <1>20, <2>1 DEF HeldAt, Demanded
    <3>2. CASE Opposed(p, t, m, v)
      BY <1>7, <3>2
    <3>3. CASE Leads(q, t, m, n.modes[m], v)
      <4>1. Leads(r, t, m, Says(l, t, m, n.modes[m]), v)
        BY <1>3, <3>3
      <4>2. CASE l.chg[m] \in {Nothing, n.modes[m]}
        <5>1. Says(l, t, m, n.modes[m]) = n.modes[m]
          BY <4>2 DEF Says
        <5> QED
          BY <4>1, <5>1
      <4>3. CASE l.chg[m] \notin {Nothing, n.modes[m]}
        <5>1. b.chg[m] = n.modes[m] /\ n.modes[m] # Nothing /\ Says(l, t, m, n.modes[m]) = l.chg[m]
          BY <1>16, <1>17, <4>3 DEF Says
        <5>2. CASE v = l.chg[m]
          <6>1. b.chg[m] \notin {Nothing, v}
            BY <4>3, <5>1, <5>2
          <6> QED
            BY <1>7, <6>1
        <5>3. CASE v # l.chg[m]
          BY <4>1, <5>1, <5>3 DEF Leads
        <5> QED
          BY <5>2, <5>3
      <4> QED
        BY <4>2, <4>3
    <3> QED
      BY <3>1, <3>2, <3>3
  <2> QED
    BY <1>20, <2>1 DEF HeldAt, Demanded
<1>21. Tracked(s, r, n, z, d \cup Crossing(r, t, b.chg))
  BY <1>19 DEF Tracked
<1>22. Held(s, k, r, n, z, o)
  BY <1>20 DEF Sound, Held
<1>23. Typed(s, k, r, n, z)
  BY <1>0, <1>1, <1>2 DEF Typed
<1> QED
  BY <1>13, <1>14, <1>15, <1>21, <1>22, <1>23 DEF Sound, r, z

\* The server applies a line of services.
LEMMA ApplySound ==
    ASSUME NEW s, NEW k, NEW q, NEW n, NEW p, NEW d, NEW o, Sound(s, k, q, n, p, d, o),
           q # << >>, Head(q).ts <= n.ts, NEW g \in Server, g.ts = Head(q).ts,
           g.modes = Apply(IF Head(q).ts < n.ts THEN AllOff ELSE n.modes, Head(q).chg)
    PROVE  Sound(s, k, Tail(q), g, p, d, o)
<1> DEFINE l == Head(q)
           r == Tail(q)
           t == g.ts
<1>0. /\ s \in Chan /\ k \in Locks /\ q \in Seq(NetT) /\ n \in Server /\ p \in Seq(LineT)
      /\ s.ts \in 0 .. Start /\ n.ts \in 0 .. Start /\ t \in 0 .. Start
  BY ChanIs DEF Sound, Typed, Server
<1>1. l \in NetT /\ r \in Seq(NetT)
  BY <1>0, TailIs
<1>2. t <= n.ts
  OBVIOUS
<1>3. \A u, m, x, y : Leads(q, u, m, x, y) => Leads(r, u, m, Says(l, u, m, x), y)
  BY <1>0, LeadsTail
<1>4. \A u, m : Silent(q, u, m) => Silent(r, u, m)
  BY <1>0, SilentTail
<1>5. Timed(s, r, g, p)
  <2>1. g.ts = n.ts \/ (g.ts = Head(q).ts /\ g.ts < n.ts)
    BY <1>0, <1>2
  <2>2. Head(q).ts >= g.ts
    BY <1>0
  <2> QED
    BY <1>0, <2>1, <2>2, TimedTail DEF Sound
<1>6. 1 \in DOMAIN q /\ q[1] = l
  <2>1. Len(q) \in Nat /\ Len(q) # 0 /\ DOMAIN q = 1 .. Len(q) /\ q[1] = Head(q)
    BY <1>0, TailIs
  <2> QED
    BY <2>1
<1>7. /\ l.ts = t
      /\ \A m \in Modes : g.modes[m] = Says(l, t, m, IF t < n.ts THEN Off ELSE n.modes[m])
  BY DEF Apply, Says, AllOff
<1> HIDE DEF l, r
<1>8. s.ts <= t
  BY <1>6, <1>7 DEF Sound, Timed
<1>9. NetSaid(s, g, p)
  BY <1>0, <1>8 DEF NetSaid
<1>10. SvcSaid(s, r, g)
  <2>1. s.ts < t => s.ts < n.ts /\ l.ts # s.ts
    BY <1>0, <1>2, <1>7
  <2> QED
    BY <1>3, <2>1 DEF Sound, SvcSaid, Says
<1>11. ASSUME NEW m \in Modes, t < n.ts, s.ts = t
       PROVE  Silent(p, t, m) /\ Leads(r, t, m, g.modes[m], s.told[m])
  <2>1. \A i \in DOMAIN p : p[i].ts >= n.ts
    BY DEF Sound, Timed
  <2>2. Silent(p, t, m)
    BY <1>0, <1>11, <2>1 DEF Silent
  <2>3. Leads(q, t, m, Off, s.told[m])
    BY <1>11 DEF Sound, SvcSaid
  <2>4. g.modes[m] = Says(l, t, m, Off)
    BY <1>7, <1>11
  <2> QED
    BY <1>3, <2>2, <2>3, <2>4
<1>12. ASSUME NEW m \in Modes, m \notin d, m \notin s.crossed, m \notin s.lost
       PROVE  TrackedAt(s, r, g, p, m)
  <2>1. TrackedAt(s, q, n, p, m)
    BY <1>12 DEF Sound, Tracked
  <2>2. ASSUME s.ts = t PROVE Even(s, r, g, p, m)
    <3>1. CASE t < n.ts
      BY <1>11, <2>2, <3>1 DEF Even
    <3>2. CASE ~(t < n.ts)
      <4>1. t = n.ts
        BY <1>0, <1>2, <3>2
      <4>2. Even(s, q, n, p, m) /\ g.modes[m] = Says(l, t, m, n.modes[m])
        BY <1>7, <2>1, <2>2, <3>2, <4>1 DEF TrackedAt
      <4>3. CASE l.chg[m] = Nothing
        <5>1. g.modes[m] = n.modes[m] /\ \A x : Says(l, t, m, x) = x
          BY <4>2, <4>3 DEF Says
        <5> QED
          BY <1>3, <1>4, <2>2, <4>2, <5>1 DEF Even
      <4>4. CASE l.chg[m] # Nothing
        <5>1. ~Silent(q, t, m)
          BY <1>6, <1>7, <4>4 DEF Silent
        <5>2. Silent(p, t, m) /\ Leads(q, t, m, n.modes[m], s.told[m])
          BY <2>2, <4>2, <5>1 DEF Even
        <5> QED
          BY <1>3, <2>2, <4>2, <5>2 DEF Even
      <4> QED
        BY <4>3, <4>4
    <3> QED
      BY <3>1, <3>2
  <2> QED
    BY <2>1, <2>2 DEF TrackedAt
<1>13. ASSUME NEW m \in Modes, NEW v \in Values(m), HeldAt(s, q, n, p, m, v)
       PROVE  HeldAt(s, r, g, p, m, v)
  <2>1. ASSUME s.ts = t, s.stack[m] = Nothing
        PROVE  Leads(r, t, m, g.modes[m], v) \/ Opposed(p, t, m, v)
    <3>1. CASE t < n.ts
      <4>1. s.told[m] = v
        BY <1>13, <2>1 DEF HeldAt, Accounted
      <4> QED
        BY <1>11, <2>1, <3>1, <4>1
    <3>2. CASE ~(t < n.ts)
      <4>1. t = n.ts
        BY <1>0, <1>2, <3>2
      <4>2. Leads(q, t, m, n.modes[m], v) \/ Opposed(p, t, m, v)
        BY <1>13, <2>1, <4>1 DEF HeldAt, Demanded
      <4>3. g.modes[m] = Says(l, t, m, n.modes[m])
        BY <1>7, <3>2
      <4> QED
        BY <1>3, <4>2, <4>3
    <3> QED
      BY <3>1, <3>2
  <2> QED
    BY <1>13, <2>1 DEF HeldAt, Demanded
<1>14. Tracked(s, r, g, p, d)
  BY <1>12 DEF Tracked
<1>15. Held(s, k, r, g, p, o)
  BY <1>13 DEF Sound, Held
<1>16. Typed(s, k, r, g, p)
  BY <1>0, <1>1 DEF Typed
<1> QED
  BY <1>5, <1>9, <1>10, <1>14, <1>15, <1>16 DEF Sound, r

---------------------------------------------------------------------------
(* The locks *)

\* A sequence without one of its elements.
LEMMA RemoveAtIs ==
    ASSUME NEW S, NEW q \in Seq(S), NEW x \in 1 .. Len(q)
    PROVE  /\ RemoveAt(q, x) \in Seq(S) /\ Len(q) \in Nat /\ DOMAIN RemoveAt(q, x) = 1 .. Len(q) - 1
           /\ \A i \in 1 .. Len(q) - 1 : RemoveAt(q, x)[i] = q[IF i < x THEN i ELSE i + 1]
<1> DEFINE a == SubSeq(q, 1, x - 1)
           b == SubSeq(q, x + 1, Len(q))
<1>1. Len(q) \in Nat /\ x \in Nat /\ x >= 1 /\ x <= Len(q)
  OBVIOUS
<1>2. a \in Seq(S) /\ Len(a) = x - 1 /\ \A i \in 1 .. x - 1 : a[i] = q[i]
  BY <1>1
<1>3. b \in Seq(S) /\ Len(b) = Len(q) - x /\ \A i \in 1 .. Len(q) - x : b[i] = q[x + i]
  BY <1>1
<1>4. RemoveAt(q, x) = a \o b
  BY DEF RemoveAt
<1> HIDE DEF a, b
<1>5. a \o b \in Seq(S) /\ Len(a \o b) = Len(q) - 1 /\ DOMAIN (a \o b) = 1 .. Len(q) - 1
  <2>0. a \in Seq(S) /\ b \in Seq(S)
    BY <1>2, <1>3
  <2>1. a \o b \in Seq(S) /\ Len(a \o b) = Len(a) + Len(b)
    <3>1. a \o b \in Seq(S)
      BY <2>0
    <3>2. Len(a \o b) = Len(a) + Len(b)
      BY <2>0
    <3> QED
      BY <3>1, <3>2
  <2>2. Len(a \o b) = Len(q) - 1
    BY <1>1, <1>2, <1>3, <2>1
  <2>3. DOMAIN (a \o b) = 1 .. Len(a \o b)
    BY <2>1
  <2> QED
    BY <2>1, <2>2, <2>3
<1>6. ASSUME NEW i \in 1 .. Len(q) - 1 PROVE (a \o b)[i] = q[IF i < x THEN i ELSE i + 1]
  <2>1. CASE i < x
    <3>1. i \in 1 .. Len(a) /\ i \in 1 .. x - 1
      BY <1>1, <1>2, <2>1
    <3>2. (a \o b)[i] = a[i]
      BY <1>2, <1>3, <3>1
    <3> QED
      BY <1>2, <2>1, <3>1, <3>2
  <2>2. CASE ~(i < x)
    <3>1. i - (x - 1) \in 1 .. Len(q) - x /\ x + (i - (x - 1)) = i + 1 /\ i \in Len(a) + 1 .. Len(a) + Len(b)
      BY <1>1, <1>2, <1>3, <2>2
    <3>2. (a \o b)[i] = b[i - (x - 1)]
      BY <1>1, <1>2, <1>3, <3>1
    <3> QED
      BY <1>3, <2>2, <3>1, <3>2
  <2> QED
    BY <2>1, <2>2
<1> QED
  BY <1>1, <1>4, <1>5, <1>6

\* Of each mode at most one lock demands it and one forbids it.
Unique(locks) == \A i, j \in DOMAIN locks : Same(locks[i], locks[j].mode, locks[j].val) => i = j

\* What RemoveMLock leaves.
LEMMA WithoutIs ==
    ASSUME lock \in Locks, Unique(lock), NEW m \in Modes, NEW v \in Values(m)
    PROVE  /\ Without(m, v) \in Locks /\ Unique(Without(m, v))
           /\ \A i \in DOMAIN Without(m, v) : ~Same(Without(m, v)[i], m, v)
           /\ \A u \in Modes \ {m} : \A w : Rules(Without(m, v), u, w) => Rules(lock, u, w)
<1> DEFINE found == {i \in DOMAIN lock : Same(lock[i], m, v)}
           r == Without(m, v)
<1>1. CASE found = {}
  <2>1. r = lock
    BY <1>1 DEF Without
  <2> QED
    BY <1>1, <2>1
<1>2. CASE found # {}
  <2>1. PICK x \in DOMAIN lock : Same(lock[x], m, v)
    BY <1>2
  <2>2. found = {x}
    BY <2>1 DEF Unique, Same
  <2>3. DOMAIN lock = 1 .. Len(lock) /\ Len(lock) \in Nat /\ x \in 1 .. Len(lock)
    BY DEF Locks
  <2>4. Min(found) = x
    BY <2>2, <2>3 DEF Min
  <2>5. r = RemoveAt(lock, x)
    BY <1>2, <2>4 DEF Without
  <2> HIDE DEF found
  <2>6. /\ r \in Locks /\ DOMAIN r = 1 .. Len(lock) - 1
        /\ \A i \in 1 .. Len(lock) - 1 : r[i] = lock[IF i < x THEN i ELSE i + 1]
    BY <2>3, <2>5, RemoveAtIs DEF Locks
  <2> HIDE DEF r
  <2> DEFINE at == [i \in DOMAIN r |-> IF i < x THEN i ELSE i + 1]
  <2>7. /\ \A i \in DOMAIN r : at[i] \in DOMAIN lock /\ at[i] # x /\ r[i] = lock[at[i]]
        /\ \A i, j \in DOMAIN r : (i < j => at[i] < at[j]) /\ (i # j => at[i] # at[j])
    BY <2>3, <2>6
  <2>8. \A j \in DOMAIN lock \ {x} : \E i \in DOMAIN r : at[i] = j
    <3> SUFFICES ASSUME NEW j \in DOMAIN lock \ {x} PROVE \E i \in DOMAIN r : at[i] = j
      OBVIOUS
    <3>1. CASE j < x
      <4>1. j \in DOMAIN r
        BY <2>3, <2>6, <3>1
      <4> QED
        BY <3>1, <4>1
    <3>2. CASE ~(j < x)
      <4>1. j - 1 \in DOMAIN r /\ ~(j - 1 < x) /\ (j - 1) + 1 = j
        BY <2>3, <2>6, <3>2
      <4> QED
        BY <4>1
    <3> QED
      BY <3>1, <3>2
  <2>9. \A i, j \in DOMAIN r : at[j] > at[i] => j > i
    BY <2>3, <2>6, <2>7
  <2> HIDE DEF at
  <2>10. Unique(r)
    BY <2>7 DEF Unique
  <2>11. \A i \in DOMAIN r : ~Same(r[i], m, v)
    BY <2>1, <2>2, <2>7 DEF found
  <2>12. ASSUME NEW u \in Modes \ {m}, NEW w, Rules(r, u, w) PROVE Rules(lock, u, w)
    <3>1. PICK i \in DOMAIN r : r[i].mode = u /\ r[i].val = w /\ Final(r, i)
      BY <2>12 DEF Rules
    <3>2. ASSUME NEW j \in DOMAIN lock, j > at[i] PROVE lock[j].mode # u
      <4>1. CASE j = x
        BY <2>1, <4>1 DEF Same
      <4>2. CASE j # x
        <5>1. PICK h \in DOMAIN r : at[h] = j
          BY <2>8, <4>2
        <5> QED
          BY <2>7, <2>9, <3>1, <3>2, <5>1 DEF Final
      <4> QED
        BY <4>1, <4>2
    <3> QED
      BY <2>7, <3>1, <3>2 DEF Rules, Final
  <2> QED
    BY <2>6, <2>10, <2>11, <2>12 DEF r
<1> QED
  BY <1>1, <1>2

\* What SetMLock makes of the locks: the new one is the last for its mode.
LEMMA SetMLockIs ==
    ASSUME lock \in Locks, Unique(lock), NEW m \in Modes, NEW v \in Values(m)
    PROVE  /\ SetMLock(m, v) \in Locks /\ Unique(SetMLock(m, v))
           /\ \A w : Rules(SetMLock(m, v), m, w) => w = v
           /\ \A u \in Modes \ {m} : \A w : Rules(SetMLock(m, v), u, w) => Rules(lock, u, w)
<1> DEFINE q == Without(m, v)
           l == [mode |-> m, val |-> v]
           r == Append(q, l)
           n == Len(q)
<1>1. /\ q \in Locks /\ Unique(q) /\ \A i \in DOMAIN q : ~Same(q[i], m, v)
      /\ \A u \in Modes \ {m} : \A w : Rules(q, u, w) => Rules(lock, u, w)
  BY WithoutIs
<1>2. l \in LockT /\ l.mode = m /\ l.val = v
  BY DEF LockT, Values
<1>3. SetMLock(m, v) = r
  BY DEF SetMLock
<1> HIDE DEF q, l
<1>4. /\ r \in Locks /\ n \in Nat /\ DOMAIN q = 1 .. n /\ DOMAIN r = 1 .. n + 1
      /\ \A i \in 1 .. n : r[i] = q[i]
      /\ r[n + 1] = l
  BY <1>1, <1>2, AppendIs DEF Locks
<1> HIDE DEF r, n
<1>5. /\ \A i \in DOMAIN q : i \in DOMAIN r /\ r[i] = q[i] /\ n + 1 > i /\ i # n + 1
      /\ \A i \in DOMAIN r : i \in DOMAIN q \/ i = n + 1
      /\ n + 1 \in DOMAIN r
  BY <1>4
<1>6. Unique(r)
  <2>1. ASSUME NEW i \in DOMAIN r, NEW j \in DOMAIN r, Same(r[i], r[j].mode, r[j].val) PROVE i = j
    <3>1. CASE i \in DOMAIN q /\ j \in DOMAIN q
      BY <1>1, <1>5, <2>1, <3>1 DEF Unique
    <3>2. CASE i \in DOMAIN q /\ j = n + 1
      BY <1>1, <1>2, <1>4, <1>5, <2>1, <3>2
    <3>3. CASE i = n + 1 /\ j \in DOMAIN q
      BY <1>1, <1>2, <1>4, <1>5, <2>1, <3>3 DEF Same
    <3> QED
      BY <1>5, <3>1, <3>2, <3>3
  <2> QED
    BY <2>1 DEF Unique
<1>7. ASSUME NEW w, Rules(r, m, w) PROVE w = v
  BY <1>2, <1>4, <1>5, <1>7 DEF Rules, Final
<1>8. ASSUME NEW u \in Modes \ {m}, NEW w, Rules(r, u, w) PROVE Rules(q, u, w)
  <2>1. PICK i \in DOMAIN r : r[i].mode = u /\ r[i].val = w /\ Final(r, i)
    BY <1>8 DEF Rules
  <2>2. i \in DOMAIN q
    BY <1>2, <1>4, <1>5, <2>1
  <2>3. Final(q, i)
    BY <1>5, <2>1, <2>2 DEF Final
  <2> QED
    BY <1>5, <2>1, <2>2, <2>3 DEF Rules
<1> QED
  BY <1>1, <1>3, <1>4, <1>6, <1>7, <1>8

\* The locks on the mode m are not what they were, and nothing looks at them.
LEMMA DelSound ==
    ASSUME NEW s, NEW k, NEW q, NEW n, NEW p, NEW d, NEW o, Sound(s, k, q, n, p, d, o),
           NEW j \in Locks, NEW m \in Modes, \A u \in Modes \ {m} : \A w : Rules(j, u, w) => Rules(k, u, w)
    PROVE  Sound(s, j, q, n, p, d, o \cup {m})
<1>1. ASSUME ~s.bouncy, NEW u \in Modes, NEW w \in Values(u),
             u \notin o \cup {m}, u \notin s.lost, Rules(j, u, w)
      PROVE  HeldAt(s, q, n, p, u, w)
  <2>1. Rules(k, u, w)
    BY <1>1
  <2> QED
    BY <1>1, <2>1 DEF Sound, Held
<1>2. Held(s, j, q, n, p, o \cup {m})
  BY <1>1 DEF Held
<1>3. Typed(s, j, q, n, p)
  BY DEF Sound, Typed
<1> QED
  BY <1>2, <1>3 DEF Sound

\* The counters of the second do not matter.
LEMMA TickSound ==
    ASSUME NEW s, NEW k, NEW q, NEW n, NEW p, NEW d, NEW o, Sound(s, k, q, n, p, d, o)
    PROVE  Sound([s EXCEPT !.said = 0, !.heard = 0], k, q, n, p, d, o)
<1> DEFINE e == [s EXCEPT !.said = 0, !.heard = 0]
<1>1. s \in Chan
  BY DEF Sound, Typed
<1>2. 0 \in 0 .. BounceLimit
  BY DEF BounceLimit
<1>3. /\ e \in Chan /\ e.ts = s.ts /\ e.modes = s.modes /\ e.told = s.told /\ e.stack = s.stack
      /\ e.lost = s.lost /\ e.crossed = s.crossed /\ e.bouncy = s.bouncy
  BY <1>1, <1>2 DEF Chan
<1> HIDE DEF e
<1>4. Typed(e, k, q, n, p) /\ Timed(e, q, n, p) /\ NetSaid(e, n, p) /\ SvcSaid(e, q, n)
  BY <1>3 DEF Sound, Typed, Timed, NetSaid, SvcSaid
<1>5. Tracked(e, q, n, p, d)
  BY <1>3 DEF Sound, Tracked, TrackedAt, Accounted, Even
<1>6. Held(e, k, q, n, p, o)
  BY <1>3 DEF Sound, Held, HeldAt, Demanded, Accounted
<1> QED
  BY <1>4, <1>5, <1>6 DEF Sound, e

---------------------------------------------------------------------------
(* The inductive invariant *)

\* The history.
HistT == [left : 0 .. MaxInputs, doubt : SUBSET Modes, loose : SUBSET Modes]

\* The inductive invariant.  That the settled channel agrees is not inductive: it
\* speaks of no state with lines on their way.
ModesInv ==
    /\ Sound(svc, lock, toNet, net, toSvc, hist.doubt, hist.loose)
    /\ Unique(lock)
    /\ hist \in HistT

\* Only modes are in doubt.
LEMMA CrossingIs ==
    ASSUME NEW q, NEW t, NEW chg
    PROVE  Crossing(q, t, chg) \subseteq Modes
BY DEF Crossing, Touched

\* A synced channel without modes and without lines.
LEMMA ModesInitially == ModesInit => ModesInv
<1> SUFFICES ASSUME ModesInit
             PROVE  ModesInv
  OBVIOUS
<1>1. /\ svc.ts = Start /\ svc.modes = AllOff /\ svc.told = AllOff /\ svc.stack = Quiet
      /\ svc.lost = {} /\ svc.crossed = {} /\ svc.said = 0 /\ svc.heard = 0 /\ svc.bouncy = FALSE
      /\ net.ts = Start /\ net.modes = AllOff
      /\ lock = << >> /\ toNet = << >> /\ toSvc = << >>
      /\ hist.left = MaxInputs /\ hist.doubt = {} /\ hist.loose = {}
  BY DEF ModesInit
<1>2. /\ Start \in 0 .. Start /\ 0 \in 0 .. BounceLimit /\ MaxInputs \in 0 .. MaxInputs
      /\ AllOff \in Settings /\ Quiet \in Changes
  BY TimeAssumption, Gets DEF BounceLimit
<1>3. svc \in Chan
  BY <1>2 DEF ModesInit, Chan
<1>4. net \in Server
  BY <1>2 DEF ModesInit, Server
<1>5. hist \in HistT
  BY <1>2 DEF ModesInit, HistT
<1>6. Typed(svc, lock, toNet, net, toSvc)
  BY <1>1, <1>3, <1>4 DEF Typed, Locks
<1>7. Timed(svc, toNet, net, toSvc) /\ NetSaid(svc, net, toSvc) /\ SvcSaid(svc, toNet, net)
  <2>1. svc.ts = net.ts /\ ~(svc.ts < svc.ts)
    BY <1>1, TimeAssumption
  <2> QED
    BY <1>1, <2>1 DEF Timed, NetSaid, SvcSaid
<1>8. Tracked(svc, toNet, net, toSvc, hist.doubt)
  BY <1>1 DEF Tracked, TrackedAt, Accounted, Even, Silent, Leads, AllOff, Quiet
<1>9. Held(svc, lock, toNet, net, toSvc, hist.loose) /\ Unique(lock)
  BY <1>1 DEF Held, Rules, Unique
<1> QED
  BY <1>5, <1>6, <1>7, <1>8, <1>9 DEF ModesInv, Sound

\* A sequence over a set is one over a larger set.
LEMMA WiderSeq ==
    ASSUME NEW S, NEW T, S \subseteq T, NEW q \in Seq(S)
    PROVE  q \in Seq(T)
<1>1. q = [i \in 1 .. Len(q) |-> q[i]] /\ Len(q) \in Nat /\ \A i \in 1 .. Len(q) : q[i] \in S
  OBVIOUS
<1>2. \A i \in 1 .. Len(q) : q[i] \in T
  BY <1>1
<1>3. [i \in 1 .. Len(q) |-> q[i]] \in Seq(T)
  BY <1>1, <1>2
<1> QED
  BY <1>1, <1>3

\* The invariant contains the types.
LEMMA ModesTyped == ModesInv => ModesTypeOK
<1> SUFFICES ASSUME ModesInv
             PROVE  ModesTypeOK
  OBVIOUS
<1>1. Typed(svc, lock, toNet, net, toSvc) /\ Unique(lock) /\ hist \in HistT
  BY DEF ModesInv, Sound
<1>2. /\ lock \in Seq([mode : Modes, val : {On, Off} \cup Keys])
      /\ \A i \in DOMAIN lock : lock[i].val \in Values(lock[i].mode)
  <2>1. \A i \in DOMAIN lock : lock[i] \in LockT
    BY <1>1 DEF Typed, Locks
  <2>2. LockT \subseteq [mode : Modes, val : {On, Off} \cup Keys]
    BY DEF LockT
  <2>3. \A i \in DOMAIN lock : lock[i].val \in Values(lock[i].mode)
    BY <2>1 DEF LockT
  <2>4. lock \in Seq([mode : Modes, val : {On, Off} \cup Keys])
    BY <1>1, <2>2, WiderSeq DEF Typed, Locks
  <2> QED
    BY <2>3, <2>4
<1> QED
  BY <1>1, <1>2 DEF ModesTypeOK, Typed, Chan, Server, NetT, LineT, Unique, HistT

\* When every line has arrived, what is led to is what there is.
LEMMA ModesAgreed == ModesInv => Agrees
<1> SUFFICES ASSUME ModesInv, Settled
             PROVE  /\ svc.ts = net.ts
                    /\ \A m \in Modes \ (hist.doubt \cup svc.crossed \cup svc.lost) :
                          svc.modes[m] = net.modes[m]
  BY DEF Agrees
<1>1. svc.stack = Quiet /\ toNet = << >> /\ toSvc = << >>
  BY DEF Settled
<1>2. svc.ts \in Nat /\ net.ts \in Nat
  BY ChanIs DEF ModesInv, Sound, Typed, Server
<1>3. svc.ts = net.ts
  BY <1>1, <1>2 DEF ModesInv, Sound, Timed
<1>4. ASSUME NEW m \in Modes, m \notin hist.doubt, m \notin svc.crossed, m \notin svc.lost
      PROVE  svc.modes[m] = net.modes[m]
  <2>1. Accounted(svc, m) /\ Even(svc, toNet, net, toSvc, m)
    BY <1>3, <1>4 DEF ModesInv, Sound, Tracked, TrackedAt
  <2>2. svc.modes[m] = svc.told[m]
    BY <1>1, <2>1 DEF Accounted, Quiet
  <2>3. svc.told[m] = net.modes[m]
    BY <1>1, <2>1 DEF Even, Leads, LastSays
  <2> QED
    BY <2>2, <2>3
<1> QED
  BY <1>3, <1>4

\* When every line has arrived, none is left to oppose the lock.
LEMMA LocksHeld == ModesInv => LockHolds
<1> SUFFICES ASSUME ModesInv, Settled, ~svc.bouncy, NEW i \in DOMAIN lock,
                    ~\E j \in DOMAIN lock : j > i /\ lock[j].mode = lock[i].mode,
                    lock[i].mode \notin hist.loose \cup svc.lost
             PROVE  net.modes[lock[i].mode] = lock[i].val
  BY DEF LockHolds
<1> DEFINE m == lock[i].mode
           v == lock[i].val
<1>1. svc.stack = Quiet /\ toNet = << >> /\ toSvc = << >>
  BY DEF Settled
<1>2. svc.ts \in Nat /\ net.ts \in Nat /\ lock \in Locks
  BY ChanIs DEF ModesInv, Sound, Typed, Server
<1>3. svc.ts = net.ts
  BY <1>1, <1>2 DEF ModesInv, Sound, Timed
<1>4. m \in Modes /\ v \in Values(m)
  BY <1>2, LocksIs
<1>5. Rules(lock, m, v)
  BY DEF Rules, Final
<1> HIDE DEF m, v
<1>6. m \notin hist.loose /\ m \notin svc.lost
  BY DEF m
<1>7. HeldAt(svc, toNet, net, toSvc, m, v)
  BY <1>4, <1>5, <1>6 DEF ModesInv, Sound, Held
<1>8. Leads(toNet, svc.ts, m, net.modes[m], v) \/ Opposed(toSvc, svc.ts, m, v)
  BY <1>1, <1>3, <1>4, <1>7 DEF HeldAt, Demanded, Quiet
<1>9. net.modes[m] = v
  BY <1>1, <1>8 DEF Leads, LastSays, Opposed
<1> QED
  BY <1>9 DEF m, v

\* The history after a step.
LEMMA DoubtIs ==
    ASSUME hist \in HistT, NEW s \in SUBSET Modes, NEW u \in SUBSET Modes
    PROVE  /\ Doubt(s) \in HistT /\ Doubt(s).doubt = hist.doubt \cup s /\ Doubt(s).loose = hist.loose
           /\ Input => /\ Less(hist) \in HistT /\ Less(hist).doubt = hist.doubt
                       /\ Less(hist).loose = hist.loose
                       /\ Less(Doubt(s)) \in HistT /\ Less(Doubt(s)).doubt = hist.doubt \cup s
                       /\ Less(Doubt(s)).loose = hist.loose
                       /\ [Less(hist) EXCEPT !.loose = u] \in HistT
                       /\ [Less(hist) EXCEPT !.loose = u].doubt = hist.doubt
                       /\ [Less(hist) EXCEPT !.loose = u].loose = u
<1>1. MaxInputs \in Nat
  BY TimeAssumption
<1>2. Input => hist.left - 1 \in 0 .. MaxInputs
  BY <1>1 DEF HistT, Input
<1> QED
  BY <1>2 DEF HistT, Doubt, Less

\* The event loop sends the stacked changes.
LEMMA ProcessKeeps ==
    ASSUME ModesInv, ProcessModes
    PROVE  ModesInv'
<1> DEFINE x == Crossing(toSvc, svc.ts, svc.stack)
<1>1. Sound(svc, lock, toNet, net, toSvc, hist.doubt, hist.loose) /\ Unique(lock) /\ hist \in HistT
  BY DEF ModesInv
<1>2. /\ toNet' = Append(toNet, [kind |-> "mode", ts |-> svc.ts, chg |-> svc.stack])
      /\ svc' = [svc EXCEPT !.stack = Quiet, !.told = Apply(@, svc.stack)]
      /\ hist' = Doubt(x) /\ lock' = lock /\ net' = net /\ toSvc' = toSvc
  BY DEF ProcessModes, Tell
<1>3. x \in SUBSET Modes
  BY CrossingIs
<1>4. Sound(svc', lock, toNet', net, toSvc, hist.doubt \cup x, hist.loose)
  BY <1>1, <1>2, ProcessSound
<1> HIDE DEF x
<1>5. hist' \in HistT /\ hist'.doubt = hist.doubt \cup x /\ hist'.loose = hist.loose
  BY <1>1, <1>2, <1>3, DoubtIs
<1> QED
  BY <1>1, <1>2, <1>4, <1>5 DEF ModesInv

\* The first line is a line.
LEMMA HeadIs ==
    ASSUME NEW S, NEW q \in Seq(S), q # << >>
    PROVE  Head(q) \in S
OBVIOUS

\* Services hear a change of modes.
LEMMA HearModeKeeps ==
    ASSUME ModesInv, HearMode
    PROVE  ModesInv'
<1>1. Sound(svc, lock, toNet, net, toSvc, hist.doubt, hist.loose) /\ Unique(lock) /\ hist \in HistT
  BY DEF ModesInv
<1>2. /\ toSvc # << >> /\ svc' = SetModesInternal(svc, lock, Head(toSvc)) /\ toSvc' = Tail(toSvc)
      /\ lock' = lock /\ toNet' = toNet /\ net' = net /\ hist' = hist
  BY DEF HearMode
<1>3. svc \in Chan /\ lock \in Locks /\ Head(toSvc) \in LineT
  BY <1>1, <1>2, HeadIs DEF Sound, Typed
<1>4. Learns(svc, svc', lock, Head(toSvc))
  BY <1>2, <1>3, LineIs
<1>5. Sound(svc', lock, toNet, net, Tail(toSvc), hist.doubt, hist.loose)
  BY <1>1, <1>2, <1>4, HearSound
<1> QED
  BY <1>1, <1>2, <1>5 DEF ModesInv

\* Services hear a join, and ChanServ may lower the timestamp after it.
LEMMA HearJoinKeeps ==
    ASSUME ModesInv, HearJoin
    PROVE  ModesInv'
<1> DEFINE c == SJoin(svc, lock, Head(toSvc))
           d == Reset([c EXCEPT !.ts = Registered], lock)
           x == Crossing(Tail(toSvc), Registered, Sets(c.modes))
<1>1. Sound(svc, lock, toNet, net, toSvc, hist.doubt, hist.loose) /\ Unique(lock) /\ hist \in HistT
  BY DEF ModesInv
<1>2. toSvc # << >> /\ toSvc' = Tail(toSvc) /\ lock' = lock /\ net' = net
  BY DEF HearJoin
<1>3. svc \in Chan /\ lock \in Locks /\ Head(toSvc) \in LineT
  BY <1>1, <1>2, HeadIs DEF Sound, Typed
<1>4. Learns(svc, c, lock, Head(toSvc))
  BY <1>3, LineIs
<1>5. \/ AlwaysLower /\ c.ts > Registered
         /\ toNet' = Append(toNet, [kind |-> "chan", ts |-> Registered, chg |-> Sets(c.modes)])
         /\ svc' = Forgets(c, d) /\ hist' = Doubt(x)
      \/ svc' = c /\ toNet' = toNet /\ hist' = hist
  BY DEF HearJoin, Tell, Forgets
<1> HIDE DEF c
<1>6. Sound(c, lock, toNet, net, toSvc', hist.doubt, hist.loose)
  BY <1>1, <1>2, <1>4, HearSound
<1>7. CASE /\ c.ts > Registered
           /\ toNet' = Append(toNet, [kind |-> "chan", ts |-> Registered, chg |-> Sets(c.modes)])
           /\ svc' = Forgets(c, d) /\ hist' = Doubt(x)
  <2>1. c \in Chan /\ c.ts \in 0 .. Start
    BY <1>6, ChanIs DEF Sound, Typed
  <2>0. Registered \in Nat /\ Start \in Nat
    BY TimeAssumption
  <2>2. Registered \in 0 .. Start /\ Registered < c.ts
    BY <1>7, <2>0, <2>1
  <2>3. Announced(c, svc', lock, Registered)
    BY <1>3, <1>7, <2>1, <2>2, ForgetsIs
  <2>4. x = Crossing(toSvc', Registered, Sets(c.modes)) /\ x \in SUBSET Modes
    BY <1>2, CrossingIs
  <2>5. Sound(svc', lock, toNet', net, toSvc', hist.doubt \cup x, hist.loose)
    BY <1>6, <1>7, <2>2, <2>3, <2>4, AnnounceSound
  <2> HIDE DEF x
  <2>6. hist' \in HistT /\ hist'.doubt = hist.doubt \cup x /\ hist'.loose = hist.loose
    BY <1>1, <1>7, <2>4, DoubtIs
  <2> QED
    BY <1>1, <1>2, <2>5, <2>6 DEF ModesInv
<1>8. CASE svc' = c /\ toNet' = toNet /\ hist' = hist
  BY <1>1, <1>2, <1>6, <1>8 DEF ModesInv
<1> QED
  BY <1>5, <1>7, <1>8

\* A command sets a mode.
LEMMA SetKeeps ==
    ASSUME ModesInv, NEW m \in Modes, NEW v \in Values(m), Set(m, v)
    PROVE  ModesInv'
<1>1. Sound(svc, lock, toNet, net, toSvc, hist.doubt, hist.loose) /\ Unique(lock) /\ hist \in HistT
  BY DEF ModesInv
<1>2. /\ Input /\ svc.modes[m] # v /\ svc' = SetMode(svc, lock, m, v) /\ hist' = Less(hist)
      /\ lock' = lock /\ toNet' = toNet /\ net' = net /\ toSvc' = toSvc
  BY DEF Set
<1>3. svc \in Chan /\ lock \in Locks
  BY <1>1 DEF Sound, Typed
<1>4. Moved(svc, svc') /\ (~svc'.bouncy => Obeyed(svc', lock))
  BY <1>2, <1>3, SetModeIs
<1>5. Sound(svc', lock, toNet, net, toSvc, hist.doubt, hist.loose)
  BY <1>1, <1>4, MovesSound
<1>6. hist' \in HistT /\ hist'.doubt = hist.doubt /\ hist'.loose = hist.loose
  BY <1>1, <1>2, DoubtIs
<1> QED
  BY <1>1, <1>2, <1>5, <1>6 DEF ModesInv

\* A command adds a lock.
LEMMA LockAddKeeps ==
    ASSUME ModesInv, NEW m \in Modes, NEW v \in Values(m), LockAdd(m, v)
    PROVE  ModesInv'
<1> DEFINE x == (hist.loose \ {m}) \cup ((hist.doubt \cup svc.crossed) \cap {m})
<1>1. Sound(svc, lock, toNet, net, toSvc, hist.doubt, hist.loose) /\ Unique(lock) /\ hist \in HistT
  BY DEF ModesInv
<1>2. /\ Input /\ lock' = SetMLock(m, v) /\ svc' = CheckModes(svc, lock')
      /\ hist' = [Less(hist) EXCEPT !.loose = (@ \ {m}) \cup ((hist.doubt \cup svc.crossed) \cap {m})]
      /\ toNet' = toNet /\ net' = net /\ toSvc' = toSvc
  BY DEF LockAdd
<1>3. svc \in Chan /\ lock \in Locks
  BY <1>1 DEF Sound, Typed
<1>4. /\ lock' \in Locks /\ Unique(lock') /\ \A w : Rules(lock', m, w) => w = v
      /\ \A u \in Modes \ {m} : \A w : Rules(lock', u, w) => Rules(lock, u, w)
  BY <1>1, <1>2, <1>3, SetMLockIs
<1>5. Moved(svc, svc') /\ (~svc'.bouncy => Obeyed(svc', lock'))
  BY <1>2, <1>3, <1>4, CheckModesIs
<1>6. Sound(svc', lock', toNet, net, toSvc, hist.doubt, x)
  BY <1>1, <1>4, <1>5, LockSound
<1>7. Less(hist).loose = hist.loose /\ x \in SUBSET Modes
  BY <1>1, <1>2, DoubtIs DEF HistT
<1>8. hist' = [Less(hist) EXCEPT !.loose = x]
  BY <1>2, <1>7 DEF Less
<1> HIDE DEF x
<1>9. hist' \in HistT /\ hist'.doubt = hist.doubt /\ hist'.loose = x
  BY <1>1, <1>2, <1>7, <1>8, DoubtIs
<1> QED
  BY <1>2, <1>4, <1>6, <1>9 DEF ModesInv

\* A command deletes a lock.
LEMMA LockDelKeeps ==
    ASSUME ModesInv, NEW m \in Modes, NEW v \in Values(m), LockDel(m, v)
    PROVE  ModesInv'
<1> DEFINE x == hist.loose \cup {m}
<1>1. Sound(svc, lock, toNet, net, toSvc, hist.doubt, hist.loose) /\ Unique(lock) /\ hist \in HistT
  BY DEF ModesInv
<1>2. /\ Input /\ lock' = Without(m, v) /\ hist' = [Less(hist) EXCEPT !.loose = @ \cup {m}]
      /\ svc' = svc /\ toNet' = toNet /\ net' = net /\ toSvc' = toSvc
  BY DEF LockDel
<1>3. lock \in Locks
  BY <1>1 DEF Sound, Typed
<1>4. /\ lock' \in Locks /\ Unique(lock')
      /\ \A u \in Modes \ {m} : \A w : Rules(lock', u, w) => Rules(lock, u, w)
  BY <1>1, <1>2, <1>3, WithoutIs
<1>5. Sound(svc, lock', toNet, net, toSvc, hist.doubt, x)
  BY <1>1, <1>4, DelSound
<1>6. Less(hist).loose = hist.loose /\ x \in SUBSET Modes
  BY <1>1, <1>2, DoubtIs DEF HistT
<1>7. hist' = [Less(hist) EXCEPT !.loose = x]
  BY <1>2, <1>6 DEF Less
<1> HIDE DEF x
<1>8. hist' \in HistT /\ hist'.doubt = hist.doubt /\ hist'.loose = x
  BY <1>1, <1>2, <1>6, <1>7, DoubtIs
<1> QED
  BY <1>2, <1>4, <1>5, <1>8 DEF ModesInv

\* Changes to a setting make a setting.
LEMMA ApplyIs ==
    ASSUME NEW f \in Settings
    PROVE  /\ \A chg \in Changes : Apply(f, chg) \in Settings
           /\ Apply(f, Quiet) = f
<1>1. ASSUME NEW chg \in Changes PROVE Apply(f, chg) \in Settings
  BY <1>1 DEF Apply, Settings, Changes
<1>2. Apply(f, Quiet) = f
  BY DEF Apply, Quiet, Settings
<1> QED
  BY <1>1, <1>2

\* One change is a change of a channel.
LEMMA SingleIs ==
    ASSUME NEW m \in Modes, NEW v \in Values(m)
    PROVE  [Quiet EXCEPT ![m] = v] \in Changes
BY Gets, Puts

\* The server says a line with its own timestamp.
LEMMA SaysKeeps ==
    ASSUME ModesInv, Input, NEW l \in LineT, l.ts = net.ts, NetSays(l, Apply(net.modes, l.chg))
    PROVE  ModesInv'
<1> DEFINE x == Crossing(toNet, l.ts, l.chg)
<1>1. Sound(svc, lock, toNet, net, toSvc, hist.doubt, hist.loose) /\ Unique(lock) /\ hist \in HistT
  BY DEF ModesInv
<1>2. /\ toSvc' = Append(toSvc, l) /\ net' = [net EXCEPT !.ts = l.ts, !.modes = Apply(net.modes, l.chg)]
      /\ hist' = Less(Doubt(x)) /\ svc' = svc /\ lock' = lock /\ toNet' = toNet
  BY DEF NetSays
<1>3. net \in Server /\ net.modes \in Settings /\ l.chg \in Changes /\ l.ts \in 0 .. Start
  BY <1>1 DEF Sound, Typed, Server, LineT
<1>4. Apply(net.modes, l.chg) \in Settings
  BY <1>3, ApplyIs
<1>5. net' \in Server /\ net'.ts = net.ts /\ net'.modes = Apply(net.modes, l.chg)
  BY <1>2, <1>3, <1>4 DEF Server
<1>6. Sound(svc, lock, toNet, net', toSvc', hist.doubt \cup x, hist.loose)
  BY <1>1, <1>2, <1>5, SaysSound
<1>7. x \in SUBSET Modes
  BY CrossingIs
<1> HIDE DEF x
<1>8. hist' \in HistT /\ hist'.doubt = hist.doubt \cup x /\ hist'.loose = hist.loose
  BY <1>1, <1>2, <1>7, DoubtIs
<1> QED
  BY <1>1, <1>2, <1>6, <1>8 DEF ModesInv

\* A user changes a mode.
LEMMA UserModeKeeps ==
    ASSUME ModesInv, NEW m \in Modes, NEW v \in Values(m), UserMode(m, v)
    PROVE  ModesInv'
<1> DEFINE chg == [Quiet EXCEPT ![m] = v]
           l == NetLine("mode", net.ts, chg, FALSE)
<1>1. net.ts \in 0 .. Start
  BY DEF ModesInv, Sound, Typed, Server
<1>2. chg \in Changes
  BY SingleIs
<1>3. Input /\ NetSays(l, Apply(net.modes, chg))
  BY DEF UserMode
<1> HIDE DEF chg
<1>4. l \in LineT /\ l.ts = net.ts /\ l.chg = chg
  BY <1>1, <1>2 DEF NetLine, LineT
<1> HIDE DEF l
<1> QED
  BY <1>3, <1>4, SaysKeeps

\* A user joins.
LEMMA JoinKeeps ==
    ASSUME ModesInv, Join
    PROVE  ModesInv'
<1> DEFINE l == NetLine("join", net.ts, Quiet, TRUE)
<1>1. net.ts \in 0 .. Start /\ net.modes \in Settings
  BY DEF ModesInv, Sound, Typed, Server
<1>2. l \in LineT /\ l.ts = net.ts /\ l.chg = Quiet
  BY <1>1, Gets DEF NetLine, LineT
<1>3. Input /\ NetSays(l, net.modes)
  BY DEF Join
<1>4. Apply(net.modes, l.chg) = net.modes
  BY <1>1, <1>2, ApplyIs
<1> HIDE DEF l
<1> QED
  BY <1>2, <1>3, <1>4, SaysKeeps

\* A server with an older channel links.
LEMMA MergeKeeps ==
    ASSUME ModesInv, NEW t \in Olders, NEW f \in Settings, Merge(t, f)
    PROVE  ModesInv'
<1> DEFINE l == NetLine("join", t, Sets(f), TRUE)
           x == Crossing(toNet, l.ts, l.chg)
<1>1. Sound(svc, lock, toNet, net, toSvc, hist.doubt, hist.loose) /\ Unique(lock) /\ hist \in HistT
  BY DEF ModesInv
<1>2. net \in Server /\ net.ts \in 0 .. Start
  BY <1>1 DEF Sound, Typed, Server
<1>3. t \in Nat /\ Start \in Nat /\ t < net.ts /\ Input
  BY TimeAssumption DEF Merge
<1>4. t \in 0 .. Start
  BY <1>2, <1>3
<1>5. l \in LineT /\ l.ts = t /\ l.chg = Sets(f)
  <2>1. Sets(f) \in Changes
    BY SetsIs
  <2> QED
    BY <1>4, <2>1 DEF NetLine, LineT
<1>6. /\ toSvc' = Append(toSvc, l) /\ net' = [net EXCEPT !.ts = l.ts, !.modes = f]
      /\ hist' = Less(Doubt(x)) /\ svc' = svc /\ lock' = lock /\ toNet' = toNet
  BY DEF Merge, NetSays
<1> HIDE DEF l
<1>7. net' \in Server /\ net'.ts = l.ts /\ net'.modes = f
  BY <1>2, <1>4, <1>5, <1>6 DEF Server
<1>8. Sound(svc, lock, toNet, net', toSvc', hist.doubt \cup x, hist.loose)
  BY <1>1, <1>3, <1>5, <1>6, <1>7, MergeSound
<1>9. x \in SUBSET Modes
  BY CrossingIs
<1> HIDE DEF x
<1>10. hist' \in HistT /\ hist'.doubt = hist.doubt \cup x /\ hist'.loose = hist.loose
  BY <1>1, <1>3, <1>6, <1>9, DoubtIs
<1> QED
  BY <1>1, <1>6, <1>8, <1>10 DEF ModesInv

\* The next second.
LEMMA TickKeeps ==
    ASSUME ModesInv, Tick
    PROVE  ModesInv'
<1>1. Sound(svc, lock, toNet, net, toSvc, hist.doubt, hist.loose) /\ Unique(lock) /\ hist \in HistT
  BY DEF ModesInv
<1>2. /\ Input /\ svc' = [svc EXCEPT !.said = 0, !.heard = 0] /\ hist' = Less(hist)
      /\ lock' = lock /\ toNet' = toNet /\ net' = net /\ toSvc' = toSvc
  BY DEF Tick
<1>3. Sound(svc', lock, toNet, net, toSvc, hist.doubt, hist.loose)
  BY <1>1, <1>2, TickSound
<1>4. hist' \in HistT /\ hist'.doubt = hist.doubt /\ hist'.loose = hist.loose
  BY <1>1, <1>2, DoubtIs
<1> QED
  BY <1>1, <1>2, <1>3, <1>4 DEF ModesInv

\* The server hears a line: it drops it, takes it back or applies it.
LEMMA NetHearsKeeps ==
    ASSUME ModesInv, NetHears
    PROVE  ModesInv'
<1> DEFINE l == Head(toNet)
           old == IF l.ts < net.ts THEN AllOff ELSE net.modes
           back == [m \in Modes |-> IF l.chg[m] \in {Nothing, old[m]} THEN Nothing ELSE old[m]]
           b == NetLine("mode", net.ts, back, TRUE)
           x == Crossing(Tail(toNet), net.ts, back)
<1>1. Sound(svc, lock, toNet, net, toSvc, hist.doubt, hist.loose) /\ Unique(lock) /\ hist \in HistT
  BY DEF ModesInv
<1>2. toNet # << >> /\ toNet' = Tail(toNet) /\ svc' = svc /\ lock' = lock
  BY DEF NetHears
<1>3. toNet \in Seq(NetT) /\ net \in Server /\ net.ts \in 0 .. Start /\ net.modes \in Settings
  BY <1>1 DEF Sound, Typed, Server
<1>4. l \in NetT
  BY <1>2, <1>3, HeadIs
<1>5. \/ l.ts > net.ts /\ net' = net /\ toSvc' = toSvc /\ hist' = hist
      \/ ~(l.ts > net.ts) /\ l.kind = "mode" /\ toSvc' = Append(toSvc, b) /\ hist' = Doubt(x) /\ net' = net
      \/ ~(l.ts > net.ts) /\ net' = [net EXCEPT !.ts = l.ts, !.modes = Apply(old, l.chg)]
         /\ toSvc' = toSvc /\ hist' = hist
  BY DEF NetHears
<1>6. DOMAIN toNet = 1 .. Len(toNet) /\ toNet[1] = l /\ Len(toNet) # 0 /\ Len(toNet) \in Nat
  BY <1>2, <1>3, TailIs
<1> HIDE DEF l
<1>7. l.ts \in 0 .. Start /\ l.chg \in Changes
  BY <1>4 DEF NetT
<1>8. AllOff \in Settings /\ old \in Settings
  BY <1>3, Gets
<1>9. CASE l.ts > net.ts /\ net' = net /\ toSvc' = toSvc /\ hist' = hist
  <2>1. Sound(svc, lock, toNet', net, toSvc, hist.doubt, hist.loose)
    BY <1>1, <1>2, <1>9, DropSound DEF l
  <2> QED
    BY <1>1, <1>2, <1>9, <2>1 DEF ModesInv
<1>10. CASE ~(l.ts > net.ts) /\ l.kind = "mode" /\ toSvc' = Append(toSvc, b) /\ hist' = Doubt(x) /\ net' = net
  <2>1. l.ts = net.ts
    <3>1. ~(l.ts < net.ts)
      <4>1. SUFFICES ASSUME l.ts < net.ts PROVE FALSE
        OBVIOUS
      <4>2. 1 \in DOMAIN toNet /\ \A j \in DOMAIN toNet : j <= 1 => j = 1
        BY <1>6
      <4>3. PICK j \in DOMAIN toNet : j <= 1 /\ toNet[j].kind = "chan"
        BY <1>1, <1>6, <4>1, <4>2 DEF Sound, Timed
      <4> QED
        BY <1>6, <1>10, <4>2, <4>3
    <3> QED
      BY <1>3, <1>7, <1>10, <3>1
  <2>2. old = net.modes
    BY <1>3, <2>1
  <2> HIDE DEF old
  <2>3. \A m \in Modes : net.modes[m] \in Values(m)
    BY <1>3, Gets
  <2>4. /\ back \in Changes
        /\ \A m \in Modes : back[m] = IF l.chg[m] \in {Nothing, net.modes[m]} THEN Nothing ELSE net.modes[m]
    <3>1. \A m \in Modes : back[m] = IF l.chg[m] \in {Nothing, net.modes[m]} THEN Nothing ELSE net.modes[m]
      BY <2>2
    <3>2. \A m \in Modes : /\ back[m] \in {Nothing, On, Off} \cup Keys
                           /\ back[m] = Nothing \/ back[m] \in Values(m)
      BY <2>3, <3>1 DEF Values
    <3> QED
      BY <3>1, <3>2 DEF Changes
  <2> HIDE DEF back
  <2>5. b \in LineT /\ b.ts = net.ts /\ b.chg = back
    BY <1>3, <2>4 DEF NetLine, LineT
  <2> HIDE DEF b
  <2>6. Sound(svc, lock, toNet', net, toSvc', hist.doubt \cup x, hist.loose)
    <3>1. \A m \in Modes : b.chg[m] = IF Head(toNet).chg[m] \in {Nothing, net.modes[m]} THEN Nothing
                                      ELSE net.modes[m]
      BY <2>4, <2>5 DEF l
    <3>2. Head(toNet).ts = net.ts
      BY <2>1 DEF l
    <3>3. Sound(svc, lock, Tail(toNet), net, Append(toSvc, b),
                hist.doubt \cup Crossing(Tail(toNet), net.ts, b.chg), hist.loose)
      BY <1>1, <1>2, <2>5, <3>1, <3>2, BounceSound
    <3> QED
      BY <1>2, <1>10, <2>5, <3>3
  <2>7. x \in SUBSET Modes
    BY CrossingIs
  <2> HIDE DEF x
  <2>8. hist' \in HistT /\ hist'.doubt = hist.doubt \cup x /\ hist'.loose = hist.loose
    BY <1>1, <1>10, <2>7, DoubtIs
  <2> QED
    BY <1>1, <1>2, <1>10, <2>6, <2>8 DEF ModesInv
<1>11. CASE ~(l.ts > net.ts) /\ net' = [net EXCEPT !.ts = l.ts, !.modes = Apply(old, l.chg)]
            /\ toSvc' = toSvc /\ hist' = hist
  <2>1. Apply(old, l.chg) \in Settings
    BY <1>7, <1>8, ApplyIs
  <2>2. net' \in Server /\ net'.ts = l.ts /\ net'.modes = Apply(old, l.chg)
    BY <1>3, <1>7, <1>11, <2>1 DEF Server
  <2>3. l.ts <= net.ts
    BY <1>3, <1>7, <1>11
  <2>4. Sound(svc, lock, Tail(toNet), net', toSvc, hist.doubt, hist.loose)
    BY <1>1, <1>2, <2>2, <2>3, ApplySound DEF l
  <2> QED
    BY <1>1, <1>2, <1>11, <2>4 DEF ModesInv
<1> QED
  BY <1>5, <1>9, <1>10, <1>11

\* Every step of the specification keeps the invariant.
LEMMA ModesInductive == ModesInv /\ [ModesNext]_modesVars => ModesInv'
<1> SUFFICES ASSUME ModesInv, [ModesNext]_modesVars
             PROVE  ModesInv'
  OBVIOUS
<1>1. CASE ProcessModes
  BY <1>1, ProcessKeeps
<1>2. CASE HearMode
  BY <1>2, HearModeKeeps
<1>3. CASE HearJoin
  BY <1>3, HearJoinKeeps
<1>4. CASE NetHears
  BY <1>4, NetHearsKeeps
<1>5. CASE Tick
  BY <1>5, TickKeeps
<1>6. CASE Join
  BY <1>6, JoinKeeps
<1>7. ASSUME NEW m \in Modes, NEW v \in Values(m), Set(m, v) PROVE ModesInv'
  BY <1>7, SetKeeps
<1>8. ASSUME NEW m \in Modes, NEW v \in Values(m), LockAdd(m, v) PROVE ModesInv'
  BY <1>8, LockAddKeeps
<1>9. ASSUME NEW m \in Modes, NEW v \in Values(m), LockDel(m, v) PROVE ModesInv'
  BY <1>9, LockDelKeeps
<1>10. ASSUME NEW m \in Modes, NEW v \in Values(m), UserMode(m, v) PROVE ModesInv'
  BY <1>10, UserModeKeeps
<1>11. ASSUME NEW t \in Olders, NEW f \in Settings, Merge(t, f) PROVE ModesInv'
  BY <1>11, MergeKeeps
<1>12. CASE UNCHANGED modesVars
  BY <1>12 DEF modesVars, ModesInv
<1> QED
  BY <1>1, <1>2, <1>3, <1>4, <1>5, <1>6, <1>7, <1>8, <1>9, <1>10, <1>11, <1>12 DEF ModesNext, Work

\* The record of the channel, the stack, the locks and the lines stay well
\* formed, and RemoveMLock leaves of each mode at most one lock that demands it
\* and one that forbids it, for any number of modes, keys and timestamps
\* (Channel::SetModesInternal, StackerInfo::AddMode, ModeLocks::SetMLock).
THEOREM ModesTypeCorrect == ModesSpec => []ModesTypeOK
<1>1. ModesInv => ModesTypeOK
  BY ModesTyped
<1> QED
  BY <1>1, ModesInitially, ModesInductive, PTL DEF ModesSpec

\* Whatever users, servers and commands do and in whichever order the lines
\* cross, the record of services and the network have the same timestamp and
\* the same modes once every line has arrived, except for the modes that both
\* changed at once or of which a change was lost (Channel::SetModesInternal,
\* Channel::Reset, ModeManager::ProcessModes).
THEOREM ModesAgree == ModesSpec => []Agrees
<1>1. ModesInv => Agrees
  BY ModesAgreed
<1> QED
  BY <1>1, ModesInitially, ModesInductive, PTL DEF ModesSpec

\* Once every line has arrived the network has each mode as the last lock for it
\* demands, unless services gave up on the channel, a change was lost or the
\* lock is one nothing looked at since (Channel::CheckModes, CSMode::OnCheckModes).
THEOREM LocksHold == ModesSpec => []LockHolds
<1>1. ModesInv => LockHolds
  BY LocksHeld
<1> QED
  BY <1>1, ModesInitially, ModesInductive, PTL DEF ModesSpec

=============================================================================
