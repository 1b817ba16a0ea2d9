------------------------------ MODULE Protect ------------------------------
(***************************************************************************)
(* Protection of registered nicknames (nickserv, ns_recover, ns_logout).   *)
(*                                                                         *)
(* A user who takes the nickname of an account he is not logged in to is   *)
(* asked to identify and a NickServCollide timer starts.  When it fires,   *)
(* NickServ marks the nickname COLLIDED and has the IRC server change the  *)
(* user's nickname.  When the user has left the nickname it is HELD: the   *)
(* servers of the network refuse it (SVSHOLD) for a while, and a           *)
(* NickServHeld timer clears the mark at the same time.  The owner comes   *)
(* back with RECOVER, which lifts the hold or forces the user off.         *)
(*                                                                         *)
(* Messages to the IRC server and answers cross: a forced change is sent   *)
(* (force) and takes effect later, and until then the user may do          *)
(* anything.  Every nickname of Nicks is registered and protected, and     *)
(* the account it belongs to is written as the nickname itself.  The other *)
(* accounts are those of nicknames that nobody uses.                       *)
(*                                                                         *)
(* The server has SVSNICK and SVSHOLD (CanSVSNick, CanSVSHold), as         *)
(* InspIRCd and UnrealIRCd have.                                           *)
(***************************************************************************)
EXTENDS Naturals, Sequences

CONSTANTS Users,      \* clients of the network
          Nicks,      \* registered and protected nicknames
          Guest,      \* any nickname nobody registered
          None,       \* no account, nobody
          Accounts,   \* the accounts, of these nicknames and of others
          Knows,      \* the users and the accounts they can log in to
          MaxTimers,  \* bound: collide timers of one user for one nickname
          MaxHeld,    \* bound: release timers of one nickname that are running
          MaxForce    \* bound: forced changes of one user on their way

ASSUME NicksAssumption == {Guest, None} \cap (Accounts \cup Users) = {} /\ Guest # None
ASSUME AccountsAssumption == Nicks \subseteq Accounts /\ Knows \subseteq Users \X Accounts
ASSUME BoundsAssumption == {MaxTimers, MaxHeld, MaxForce} \subseteq Nat \ {0}

VARIABLES user,   \* what services know of each client
          mark,   \* the marks of each nickname, its timers and its hold
          force   \* per client, the nicknames services told the server to give it

vars == <<user, mark, force>>

Timers == Nicks \X {"live", "stale"}
\* nick None: not connected.  A timer is live while the time of the user's
\* last nickname change is the one the timer was made with.  svs is who asked
\* RECOVER for the nickname.  proved is history: since the user took this
\* nickname he was logged in to its account, or was never asked.
Gone == [nick |-> None, acct |-> None, burst |-> FALSE, svs |-> None,
         proved |-> TRUE, timers |-> [t \in Timers |-> 0]]
\* hold counts the release timers up to the one made with the network's hold,
\* oldest first; 0 is no hold.
Free == [collided |-> FALSE, held |-> FALSE, releases |-> 0, hold |-> 0]

Init ==
    /\ user  = [u \in Users |-> Gone]
    /\ mark  = [n \in Nicks |-> Free]
    /\ force = [u \in Users |-> << >>]

UsersOn(n) == {u \in Users : user[u].nick = n}
Online == {u \in Users : user[u].nick # None}

(***************************************************************************)
(* The handlers' parts, as functions of a user and of the marks.           *)
(***************************************************************************)
\* Validate: a timer for a user of nickname n.
Validate(x, n) == [x EXCEPT !.timers[<<n, "live">>] = @ + 1, !.proved = FALSE]

\* OnCancel: a nickname that somebody was forced off is held.
OnCancel_NoHold(M, n) ==
    IF n \in Nicks /\ M[n].collided
    THEN [M EXCEPT ![n].collided = FALSE, ![n].held = TRUE, ![n].releases = @ + 1]
    ELSE M
OnCancel(M, n) ==
    IF n \in Nicks /\ M[n].collided
    THEN [M EXCEPT ![n] = [collided |-> FALSE, held |-> TRUE,
                           releases |-> @.releases + 1, hold |-> @.releases + 1]]
    ELSE M

\* Release: the release timer goes on running.
Release(M, n) ==
    [M EXCEPT ![n].collided = FALSE, ![n].held = FALSE,
              ![n].hold = IF M[n].held THEN 0 ELSE @]

\* Collide: the server is told to give the user some other nickname.
Collide(u, n) ==
    /\ mark' = [mark EXCEPT ![n].collided = TRUE]
    /\ force' = [force EXCEPT ![u] = Append(@, Guest)]

\* The timers of a user who changed his nickname in a later second.  Of the
\* stale ones no more than MaxTimers count.
Aged(x) == [t \in Timers |->
    LET all == x.timers[t] + x.timers[<<t[1], "live">>]
    IN IF t[2] = "live" THEN 0
       ELSE IF all > MaxTimers THEN MaxTimers ELSE all]

\* User::ChangeNick with OnUserNickChange: the new nickname is validated.
Arrive_KeepSvs(x, n, later) ==
    LET moved == [x EXCEPT !.nick = n, !.proved = TRUE,
                           !.timers = IF later THEN Aged(x) ELSE @]
    IN IF n \in Nicks /\ n # x.acct THEN Validate(moved, n) ELSE moved
Arrive(x, n, later) ==
    LET moved == [x EXCEPT !.nick = n, !.svs = None, !.proved = TRUE,
                           !.timers = IF later THEN Aged(x) ELSE @]
    IN IF n \in Nicks /\ n # x.acct THEN Validate(moved, n) ELSE moved

\* User::Login.
Login(x, a) == [x EXCEPT !.acct = a, !.proved = @ \/ x.nick = a]

InBounds ==
    /\ \A u \in Users : Len(force'[u]) <= MaxForce
                     /\ \A t \in Timers : user'[u].timers[t] <= MaxTimers
    /\ \A n \in Nicks : mark'[n].releases <= MaxHeld

(***************************************************************************)
(* What users and servers do.  The servers refuse a nickname that is held  *)
(* or in use.                                                              *)
(***************************************************************************)
Takes(n) == n = Guest \/ (n \in Nicks /\ UsersOn(n) = {} /\ mark[n].hold = 0)

\* OnUserConnect: a user of a server that is still linking is not asked yet.
Connect(u, n, a, burst) ==
    /\ u \notin Online /\ Takes(n)
    /\ a # None => burst /\ <<u, a>> \in Knows
    /\ LET x == [Gone EXCEPT !.nick = n, !.acct = a, !.burst = burst]
       IN user' = [user EXCEPT ![u] =
                     IF burst \/ n \notin Nicks THEN x ELSE Validate(x, n)]
    /\ UNCHANGED <<mark, force>>

\* OnServerSync: the users of the server who are not logged in are asked.
Sync ==
    /\ \E u \in Users : user[u].burst
    /\ user' = [u \in Users |->
           LET x == user[u] IN
           IF x.burst /\ x.acct = None /\ x.nick \in Nicks
           THEN [Validate(x, x.nick) EXCEPT !.burst = FALSE]
           ELSE [x EXCEPT !.burst = FALSE]]
    /\ UNCHANGED <<mark, force>>
    /\ InBounds

\* A nickname change reaches services, F being the forced changes on their way.
\* ns_recover gives the nickname that was left to the user who asked for it, if
\* he is still there.  A change to the same nickname, in other letters or to
\* another one nobody registered, goes the same way but leaves nothing.
ChangeNick(u, n, later, F) ==
    LET old == user[u].nick
    IN /\ user' = [user EXCEPT ![u] = Arrive(@, n, later)]
       /\ mark' = IF n = old THEN mark ELSE OnCancel(mark, old)
       /\ force' = [w \in Users |->
              IF w # user[u].svs THEN F[w] ELSE Append(F[w], old)]

NickChange(u, n, later) ==
    /\ u \in Online /\ (n = user[u].nick \/ Takes(n))
    /\ ChangeNick(u, n, later, force)
    /\ InBounds

\* The server obeys.  Somebody else's nickname is not given away, and a user who
\* has the nickname already, in the same letters, is left alone.
ApplyForce(u) ==
    /\ u \in Online /\ force[u] # << >>
    /\ LET to == Head(force[u])
           n  == IF to # Guest /\ UsersOn(to) \ {u} # {} THEN Guest ELSE to
           sent == [force EXCEPT ![u] = Tail(@)]
       IN \/ n = user[u].nick /\ force' = sent /\ UNCHANGED <<user, mark>>
          \/ ChangeNick(u, n, TRUE, sent)
    /\ InBounds

\* ~User with OnPostUserLogoff.  Timers of a user who is gone do nothing, and
\* a reference to him is empty.
Leave(U, u) == [w \in Users |-> IF w = u THEN Gone
                                ELSE IF U[w].svs = u THEN [U[w] EXCEPT !.svs = None] ELSE U[w]]
Quit(u) ==
    /\ u \in Online
    /\ user' = Leave(user, u)
    /\ mark' = OnCancel(mark, user[u].nick)
    /\ force' = [force EXCEPT ![u] = << >>]
    /\ InBounds

\* User::Identify with OnNickIdentify: one timer of the account's nicknames.
Identify_AnyTimer(u, a) ==
    /\ u \in Online /\ <<u, a>> \in Knows
    /\ LET x == Login(user[u], a)
           found == {t \in Timers : x.timers[t] > 0}
       IN user' \in IF found = {} THEN {[user EXCEPT ![u] = x]}
                    ELSE {[user EXCEPT ![u] = [x EXCEPT !.timers[t] = @ - 1]] : t \in found}
    /\ UNCHANGED <<mark, force>>
Identify(u, a) ==
    /\ u \in Online /\ <<u, a>> \in Knows
    /\ LET x == Login(user[u], a)
           found == {t \in Timers : t[1] = a /\ x.timers[t] > 0}
       IN user' \in IF found = {} THEN {[user EXCEPT ![u] = x]}
                    ELSE {[user EXCEPT ![u] = [x EXCEPT !.timers[t] = @ - 1]] : t \in found}
    /\ UNCHANGED <<mark, force>>

\* LOGOUT, by the user or by an operator who may want him asked again.
Logout(u, revalidate) ==
    /\ u \in Online /\ user[u].acct # None
    /\ LET x == IF revalidate /\ user[u].nick \in Nicks
                THEN Validate(user[u], user[u].nick) ELSE user[u]
       IN user' = [user EXCEPT ![u] = [x EXCEPT !.acct = None]]
    /\ UNCHANGED <<mark, force>>
    /\ InBounds

(***************************************************************************)
(* What NickServ does.                                                     *)
(***************************************************************************)
\* NickServCollide::Tick.
CollideTick_Never(u, n) ==
    /\ u \in Online /\ user[u].timers[<<n, "live">>] > 0
    /\ user' = [user EXCEPT ![u].timers[<<n, "live">>] = @ - 1]
    /\ IF user[u].acct # None THEN UNCHANGED <<mark, force>> ELSE Collide(u, n)
    /\ InBounds
CollideTick(u, n) ==
    /\ u \in Online /\ user[u].timers[<<n, "live">>] > 0
    /\ user' = [user EXCEPT ![u].timers[<<n, "live">>] = @ - 1]
    /\ IF user[u].acct = n THEN UNCHANGED <<mark, force>> ELSE Collide(u, n)
    /\ InBounds

StaleTick(u, n) ==
    /\ user[u].timers[<<n, "stale">>] > 0
    /\ user' = [user EXCEPT ![u].timers[<<n, "stale">>] = @ - 1]
    /\ UNCHANGED <<mark, force>>

\* NickServHeld::Tick of the oldest timer.  The network's hold ends with the
\* timer it was made with.
HeldTick_HoldStays(n) ==
    /\ mark[n].releases > 0
    /\ mark' = [mark EXCEPT ![n].held = FALSE, ![n].releases = @ - 1]
    /\ UNCHANGED <<user, force>>
HeldTick(n) ==
    /\ mark[n].releases > 0
    /\ mark' = [mark EXCEPT ![n].held = FALSE, ![n].releases = @ - 1,
                            ![n].hold = IF @ = 0 THEN 0 ELSE @ - 1]
    /\ UNCHANGED <<user, force>>

\* RECOVER of n by user s, who is logged in to its account or gave the
\* password: a hold is lifted, a ghost of the owner is killed, anybody else is
\* forced off.
LoggedIn(U, s, n) == IF U[s].acct = None THEN [U EXCEPT ![s] = Login(@, n)] ELSE U
Recover(s, n) ==
    /\ s \in Online /\ user[s].nick # n /\ <<s, n>> \in Knows
    /\ \/ /\ mark[n].held
          /\ mark' = Release(mark, n)
          /\ UNCHANGED <<user, force>>
       \/ /\ ~mark[n].held
          /\ \E u \in UsersOn(n) :
               \/ /\ user[u].acct = n
                  /\ user' = Leave(LoggedIn(user, s, n), u)
                  /\ mark' = OnCancel(mark, n)
                  /\ force' = [force EXCEPT ![u] = << >>, ![s] = Append(@, n)]
               \/ /\ user[u].acct # n
                  /\ user' = [LoggedIn(user, s, n) EXCEPT ![u].svs = s]
                  /\ mark' = Release(mark, n)
                  /\ force' = [force EXCEPT ![u] = Append(@, Guest)]
    /\ InBounds

Next ==
    \/ \E u \in Users : \E n \in Nicks \cup {Guest} :
          \/ \E a \in Accounts \cup {None}, burst \in BOOLEAN : Connect(u, n, a, burst)
          \/ \E later \in BOOLEAN : NickChange(u, n, later)
    \/ Sync
    \/ \E u \in Users :
          \/ ApplyForce(u)
          \/ Quit(u)
          \/ \E a \in Accounts : Identify(u, a)
          \/ \E revalidate \in BOOLEAN : Logout(u, revalidate)
    \/ \E u \in Users, n \in Nicks :
          CollideTick(u, n) \/ StaleTick(u, n) \/ Recover(u, n)
    \/ \E n \in Nicks : HeldTick(n)

Spec == Init /\ [][Next]_vars

\* The user changes the letters of his nickname: the timers he has are stale,
\* and he is asked again.
Restart(u, n) ==
    /\ user[u].nick = n /\ user[u].timers[<<n, "live">>] > 0
    /\ NickChange(u, n, TRUE)

\* Timers fire unless a nickname change makes them stale first, and the server
\* obeys.
Fairness == /\ \A u \in Users :
                \A n \in Nicks : WF_vars(CollideTick(u, n) \/ Restart(u, n))
                             /\ WF_vars(ApplyForce(u))
            /\ \A n \in Nicks : WF_vars(HeldTick(n))
FairSpec == Spec /\ Fairness

-----------------------------------------------------------------------------
\* Types of the state; a hold ends with a release timer that is still running.
TypeOK ==
    /\ user \in [Users -> [nick : Nicks \cup {Guest, None}, acct : Accounts \cup {None},
                           burst : BOOLEAN, svs : Users \cup {None}, proved : BOOLEAN,
                           timers : [Timers -> 0 .. MaxTimers]]]
    /\ mark \in [Nicks -> [collided : BOOLEAN, held : BOOLEAN,
                           releases : 0 .. MaxHeld, hold : 0 .. MaxHeld]]
    /\ \A u \in Users : Len(force[u]) <= MaxForce
    /\ \A n \in Nicks : mark[n].hold <= mark[n].releases

\* A user who was asked to identify and has not done so while on the nickname.
Asked(u) == user[u].nick \in Nicks /\ ~user[u].proved

\* Whatever he does about his nicknames and accounts, a user who was asked to
\* identify and did not has a timer for the nickname he is on, or is on his
\* way to another one: Validate, OnNickIdentify and the timer's own checks
\* leave no gap between them.
Pursued == \A u \in Users : Asked(u) =>
    user[u].timers[<<user[u].nick, "live">>] > 0 \/ force[u] # << >>

\* A nickname that services say they hold is held by the network, through
\* every sequence of OnCancel, Release and release timers.
HeldMeansHold == \A n \in Nicks : mark[n].held => mark[n].hold # 0

\* A user whose nickname was asked for with RECOVER is about to lose it, so
\* the request does not wait for a nickname change of his own accord.
RecoverPending == \A u \in Users : user[u].svs # None => force[u] # << >>

\* A user who was asked to identify has done so or has left the nickname in
\* the end, unless he goes on for ever changing the letters of it before the
\* timer fires.
AskedEnds == \A u \in Users : \A n \in Nicks :
    \/ []<><<Restart(u, n)>>_vars
    \/ (user[u].nick = n /\ Asked(u)) ~> (user[u].nick # n \/ ~Asked(u))

\* The same without the exception: "Your nickname will be changed in %s if you
\* do not identify" (nickserv.cpp:251).
AskedLoses == \A u \in Users : \A n \in Nicks :
    (user[u].nick = n /\ Asked(u)) ~> (user[u].nick # n \/ ~Asked(u))

\* RECOVER finds the HELD mark of every nickname the network holds for
\* services ("If services are currently holding your nick, the hold will be
\* released", ns_recover.cpp:221).
HoldIsKnown == \A n \in Nicks : mark[n].hold # 0 => mark[n].held
=============================================================================
