------------------------------- MODULE Modes -------------------------------
(***************************************************************************)
(* Channel modes: what services believe a channel's modes are, the stacker *)
(* that collects their changes, the mode lock and the channel's timestamp  *)
(* (channels.cpp, modes.cpp, cs_mode.cpp, messages.cpp, chanserv.cpp).     *)
(*                                                                         *)
(* Services change their own record of the modes at once.  The change is   *)
(* stacked, and one line with all stacked changes goes to the network when *)
(* the event loop reaches the mode pipe.  A change that undoes a stacked   *)
(* one takes it off the stack.  Lines of both directions carry the         *)
(* timestamp of the channel: the older one wins, and whoever learns of an  *)
(* older one forgets the modes it had.                                     *)
(*                                                                         *)
(* One registered channel, synced, with flags (+n) and modes with a        *)
(* parameter (+k key, +l limit).  Statuses and lists are not part of it.  The        *)
(* network is one server (external); the lines between it and services     *)
(* arrive in order.                                                        *)
(***************************************************************************)
EXTENDS Naturals, FiniteSets, FiniteSetsExt, Sequences, SequencesExt

CONSTANTS Flags,       \* modes without a parameter
          Params,      \* modes with one
          NoArg,       \* those that are unset without it (minus_no_arg: +l)
          Keys,        \* their parameters
          On, Off,     \* a flag that is set, a mode that is not set
          Nothing,     \* a line or the stack does not speak of the mode
          Start,       \* the timestamp the channel has on both sides
          Registered,  \* the time it was registered
          Olders,      \* the timestamps of channels other servers link with
          AlwaysLower, \* chanserv:always_lower_ts
          MaxInputs    \* bound: what users, other servers and time do

ASSUME ModesAssumption == NoArg \subseteq Params /\ Flags \cap Params = {} /\ {On, Off, Nothing} \cap Keys = {}
ASSUME KindsAssumption == IsFiniteSet(Flags \cup Params)
ASSUME MarksAssumption == On # Off /\ Off # Nothing /\ Nothing # On
ASSUME TimeAssumption == {Start, Registered, MaxInputs} \cup Olders \subseteq Nat /\ AlwaysLower \in BOOLEAN

VARIABLES svc,    \* what services know of the channel
          lock,   \* its mode locks, oldest first
          toNet,  \* lines from services to the network
          net,    \* what the server has
          toSvc,  \* lines from the network to services
          hist    \* the inputs left, and what the properties tell apart

modesVars == <<svc, lock, toNet, net, toSvc, hist>>

Modes == Flags \cup Params
Values(m) == {Off} \cup IF m \in Params THEN Keys ELSE {On}
Settings == {f \in [Modes -> {On, Off} \cup Keys] : \A m \in Modes : f[m] \in Values(m)}
Quiet == [m \in Modes |-> Nothing]
AllOff == [m \in Modes |-> Off]
\* The changes that set the modes of a setting.
Sets(f) == [m \in Modes |-> IF f[m] = Off THEN Nothing ELSE f[m]]
\* The setting f after the changes chg.
Apply(f, chg) == [m \in Modes |-> IF chg[m] = Nothing THEN f[m] ELSE chg[m]]
Touched(chg) == {m \in Modes : chg[m] # Nothing}

\* said and heard count the changes of services and of servers in this second,
\* as far as CheckModes looks.  told, lost and crossed are history: what services
\* last said or heard the modes are, the modes of which a change was lost, and the
\* modes with a stacked change that services learnt something else of.
BounceLimit == 3
Count(n) == IF n < BounceLimit THEN n + 1 ELSE n

ModesInit ==
    /\ svc \in [ts : {Start}, modes : {AllOff}, told : {AllOff}, stack : {Quiet},
                lost : {{}}, crossed : {{}}, said : {0}, heard : {0}, bouncy : {FALSE}, keep : BOOLEAN]
    /\ net \in [ts : {Start}, modes : {AllOff}, ulined : BOOLEAN]
    /\ lock = << >> /\ toNet = << >> /\ toSvc = << >>
    /\ hist = [left |-> MaxInputs, doubt |-> {}, loose |-> {}]

---------------------------------------------------------------------------
(* Changes by services *)

\* A change that undoes a stacked one is not sent, and neither is the other.
AddMode(pending, v) == IF pending # Nothing /\ (pending = Off) # (v = Off) THEN Nothing ELSE v

Change(c, m, v) ==
    IF c.modes[m] = v THEN c
    ELSE LET cancelled == c.stack[m] # Nothing /\ AddMode(c.stack[m], v) = Nothing
         IN  [c EXCEPT !.modes[m] = v, !.stack[m] = AddMode(@, v), !.said = Count(@),
                       !.lost = IF cancelled /\ c.told[m] # v THEN @ \cup {m} ELSE @]

OnCheckModes(c, locks) == FoldLeft(LAMBDA d, l : Change(d, l.mode, l.val), c, locks)


\* A network that takes back what services set is left alone, for good.
CheckModes(c, locks) ==
    IF c.bouncy THEN c
    ELSE IF c.said = BounceLimit /\ c.heard = BounceLimit THEN [c EXCEPT !.bouncy = TRUE]
    ELSE OnCheckModes(c, locks)

SetMode(c, locks, m, v) ==
    IF c.modes[m] = v THEN c ELSE CheckModes(Change(c, m, v), locks)

\* The modes of the younger channel stay.
Lowered_NoReset(c, locks, t) == IF t < c.ts THEN [c EXCEPT !.ts = t] ELSE c

\* With KEEPMODES the modes of before are set again.
OnChannelSync(c, locks, last) ==
    IF ~c.keep THEN c
    ELSE FoldSet(LAMBDA m, d : SetMode(d, locks, m, last[m]), c, {m \in Modes : last[m] # Off})

\* The locks are not looked at after a reset.
Reset_NoSync(c, locks) == [c EXCEPT !.modes = AllOff, !.told = AllOff]

\* The stack stays.
Reset(c, locks) ==
    LET d == OnChannelSync([c EXCEPT !.modes = AllOff, !.told = AllOff], locks, c.modes)
        e == CheckModes(d, locks)
    IN  [e EXCEPT !.crossed = @ \cup (Touched(e.stack) \cap Touched(c.stack))]

(* Lines of the network *)

Lowered(c, locks, t) == IF t < c.ts THEN Reset([c EXCEPT !.ts = t], locks) ELSE c

\* A -l has no parameter, and leaves the loop before the others are looked at.
Bare(m, v) == m \in NoArg /\ v = Off

\* The modes of a line; the lock is looked at after each parameter.
Hear(c, locks, chg) ==
    FoldSet(LAMBDA m, d : LET e == [d EXCEPT !.modes[m] = chg[m], !.told[m] = chg[m],
                                             !.crossed = IF d.stack[m] = Nothing THEN @ ELSE @ \cup {m}]
                          IN  IF m \in Params /\ ~Bare(m, chg[m]) THEN CheckModes(e, locks) ELSE e,
            c, Touched(chg))

\* The locks are looked at only if something changed.
SetModesInternal_Changed(c, locks, l) ==
    IF l.ts > c.ts THEN c
    ELSE LET d == Lowered(c, locks, l.ts)
             e == Hear(d, locks, l.chg)
             changed == \E m \in Touched(l.chg) : ~Bare(m, l.chg[m]) /\ d.modes[m] # l.chg[m]
         IN  IF changed THEN CheckModes(IF l.server THEN [e EXCEPT !.heard = Count(@)] ELSE e, locks) ELSE e

\* A change is counted if a server made it, and a -l is none.
SetModesInternal(c, locks, l) ==
    IF l.ts > c.ts THEN c
    ELSE LET d == Lowered(c, locks, l.ts)
             e == Hear(d, locks, l.chg)
             changed == \E m \in Touched(l.chg) : ~Bare(m, l.chg[m]) /\ d.modes[m] # l.chg[m]
         IN  CheckModes(IF changed /\ l.server THEN [e EXCEPT !.heard = Count(@)] ELSE e, locks)

SJoin(c, locks, l) ==
    LET d == Lowered(c, locks, l.ts)
    IN  IF Touched(l.chg) = {} THEN d ELSE SetModesInternal(d, locks, l)

---------------------------------------------------------------------------
(* The line on its way and what crosses it *)

\* Modes that lines of the queue change under the same timestamp.
Crossing(queue, t, chg) ==
    {m \in Touched(chg) : \E i \in DOMAIN queue : queue[i].ts = t /\ queue[i].chg[m] # Nothing}

Doubt(s) == [hist EXCEPT !.doubt = @ \cup s]
Input == hist.left > 0
Less(h) == [h EXCEPT !.left = @ - 1]

Tell(kind, t, chg) == toNet' = Append(toNet, [kind |-> kind, ts |-> t, chg |-> chg])
NetLine(kind, t, chg, server) == [kind |-> kind, ts |-> t, chg |-> chg, server |-> server]

\* The event loop reaches the mode pipe.
ProcessModes ==
    /\ svc.stack # Quiet
    /\ Tell("mode", svc.ts, svc.stack)
    /\ svc' = [svc EXCEPT !.stack = Quiet, !.told = Apply(@, svc.stack)]
    /\ hist' = Doubt(Crossing(toSvc, svc.ts, svc.stack))
    /\ UNCHANGED <<lock, net, toSvc>>

HearMode ==
    /\ toSvc # << >> /\ Head(toSvc).kind = "mode"
    /\ svc' = SetModesInternal(svc, lock, Head(toSvc))
    /\ toSvc' = Tail(toSvc)
    /\ UNCHANGED <<lock, toNet, net, hist>>

HearJoin ==
    /\ toSvc # << >> /\ Head(toSvc).kind = "join"
    /\ LET c == SJoin(svc, lock, Head(toSvc))
           d == Reset([c EXCEPT !.ts = Registered], lock)
           forgotten == {m \in Modes : d.stack[m] = Nothing /\ d.modes[m] # c.modes[m]}
           chg == Sets(c.modes)
       IN  IF AlwaysLower /\ c.ts > Registered
           THEN /\ Tell("chan", Registered, chg)
                /\ svc' = [d EXCEPT !.told = c.modes, !.lost = @ \cup forgotten]
                /\ hist' = Doubt(Crossing(Tail(toSvc), Registered, chg))
           ELSE /\ svc' = c
                /\ UNCHANGED <<toNet, hist>>
    /\ toSvc' = Tail(toSvc)
    /\ UNCHANGED <<lock, net>>

---------------------------------------------------------------------------
(* Commands *)

Set(m, v) ==
    /\ Input
    /\ svc.modes[m] # v
    /\ svc' = SetMode(svc, lock, m, v)
    /\ hist' = Less(hist)
    /\ UNCHANGED <<lock, toNet, net, toSvc>>

Same(l, m, v) == l.mode = m /\ (l.val = Off) = (v = Off)
\* Without the first such lock.
Without(m, v) ==
    LET found == {i \in DOMAIN lock : Same(lock[i], m, v)}
    IN  IF found = {} THEN lock ELSE RemoveAt(lock, Min(found))

\* The lock of before stays.
SetMLock_Twice(m, v) == Append(lock, [mode |-> m, val |-> v])
SetMLock(m, v) == Append(Without(m, v), [mode |-> m, val |-> v])

LockAdd(m, v) ==
    /\ Input
    /\ lock' = SetMLock(m, v)
    /\ svc' = CheckModes(svc, lock')
    /\ hist' = [Less(hist) EXCEPT !.loose = (@ \ {m}) \cup ((hist.doubt \cup svc.crossed) \cap {m})]
    /\ UNCHANGED <<toNet, net, toSvc>>

\* The lock that is left for the mode is not looked at.
LockDel(m, v) ==
    /\ Input
    /\ Without(m, v) # lock
    /\ lock' = Without(m, v)
    /\ hist' = [Less(hist) EXCEPT !.loose = @ \cup {m}]
    /\ UNCHANGED <<svc, toNet, net, toSvc>>

---------------------------------------------------------------------------
(* The network (external) and time *)

NetSays(l, modes) ==
    /\ toSvc' = Append(toSvc, l)
    /\ net' = [net EXCEPT !.ts = l.ts, !.modes = modes]
    /\ hist' = Less(Doubt(Crossing(toNet, l.ts, l.chg)))
    /\ UNCHANGED <<svc, lock, toNet>>

UserMode(m, v) ==
    /\ Input
    /\ net.modes[m] # v
    /\ LET chg == [Quiet EXCEPT ![m] = v]
       IN  NetSays(NetLine("mode", net.ts, chg, FALSE), Apply(net.modes, chg))

Join ==
    /\ Input
    /\ NetSays(NetLine("join", net.ts, Quiet, TRUE), net.modes)

\* A server with an older channel of this name links.
Merge(t, f) ==
    /\ Input
    /\ t < net.ts
    /\ NetSays(NetLine("join", t, Sets(f), TRUE), f)

\* The server drops what is younger than its channel, forgets its modes for an
\* older one, and takes back modes of services it does not trust.
NetHears ==
    /\ toNet # << >>
    /\ toNet' = Tail(toNet)
    /\ LET l == Head(toNet)
           old == IF l.ts < net.ts THEN AllOff ELSE net.modes
           back == [m \in Modes |-> IF l.chg[m] \in {Nothing, old[m]} THEN Nothing ELSE old[m]]
       IN  IF l.ts > net.ts THEN UNCHANGED <<net, toSvc, hist>>
           ELSE IF l.kind = "mode" /\ ~net.ulined /\ back # Quiet
           THEN /\ toSvc' = Append(toSvc, NetLine("mode", net.ts, back, TRUE))
                /\ hist' = Doubt(Crossing(Tail(toNet), net.ts, back))
                /\ UNCHANGED net
           ELSE /\ net' = [net EXCEPT !.ts = l.ts, !.modes = Apply(old, l.chg)]
                /\ UNCHANGED <<toSvc, hist>>
    /\ UNCHANGED <<svc, lock>>

\* The next second.
Tick ==
    /\ Input
    /\ svc.said > 0 \/ svc.heard > 0
    /\ svc' = [svc EXCEPT !.said = 0, !.heard = 0]
    /\ hist' = Less(hist)
    /\ UNCHANGED <<lock, toNet, net, toSvc>>

\* What services and the server do without a new input.
Work == ProcessModes \/ HearMode \/ HearJoin \/ NetHears

ModesNext ==
    \/ Work \/ Tick \/ Join
    \/ \E m \in Modes : \E v \in Values(m) :
          Set(m, v) \/ LockAdd(m, v) \/ LockDel(m, v) \/ UserMode(m, v)
    \/ \E t \in Olders, f \in Settings : Merge(t, f)

ModesSpec == ModesInit /\ [][ModesNext]_modesVars

\* Nothing stacked, nothing on its way.
Settled == svc.stack = Quiet /\ toNet = << >> /\ toSvc = << >>

\* The event loop polls the pipe, and the connection delivers.  This is
\* WF_modesVars(Work): Work can be done unless the channel is settled.
ModesFairSpec == ModesSpec /\ ([]<>Settled \/ []<><<Work>>_modesVars)

---------------------------------------------------------------------------
(* Properties *)

Changes == {f \in [Modes -> {Nothing, On, Off} \cup Keys] :
               \A m \in Modes : f[m] = Nothing \/ f[m] \in Values(m)}

\* The record of the channel, the stack, the locks and the lines are well
\* formed, and of each mode at most one lock demands it and one forbids it.
ModesTypeOK ==
    /\ svc \in [ts : 0 .. Start, modes : Settings, told : Settings, stack : Changes,
                lost : SUBSET Modes, crossed : SUBSET Modes, said : 0 .. BounceLimit, heard : 0 .. BounceLimit,
                bouncy : BOOLEAN, keep : BOOLEAN]
    /\ net \in [ts : 0 .. Start, modes : Settings, ulined : BOOLEAN]
    /\ lock \in Seq([mode : Modes, val : {On, Off} \cup Keys])
    /\ \A i \in DOMAIN lock : lock[i].val \in Values(lock[i].mode)
    /\ \A i, j \in DOMAIN lock : Same(lock[i], lock[j].mode, lock[j].val) => i = j
    /\ toNet \in Seq([kind : {"mode", "chan"}, ts : 0 .. Start, chg : Changes])
    /\ toSvc \in Seq([kind : {"mode", "join"}, ts : 0 .. Start, chg : Changes, server : BOOLEAN])
    /\ hist \in [left : 0 .. MaxInputs, doubt : SUBSET Modes, loose : SUBSET Modes]

\* Once every line has arrived, the record services keep of the channel and the
\* channel on the network have the same timestamp and the same modes.  Left out
\* are modes that both sides changed at once; modes stacked when a line that sets
\* them came (Channel::Reset leaves the stack, and KEEPMODES adds to it before the
\* line is applied); and modes of which a change was lost: it and the stacked one
\* it undoes were both dropped although the network was not where the second one
\* leads (another parameter, or a line of the network had done meanwhile what was
\* stacked); or always_lower_ts made services tell the network modes and then
\* forget them.
Agrees ==
    Settled => /\ svc.ts = net.ts
               /\ \A m \in Modes \ (hist.doubt \cup svc.crossed \cup svc.lost) : svc.modes[m] = net.modes[m]

\* Once every line has arrived the network has each mode as the last lock for
\* it demands, whatever users, other servers and commands did in between and in
\* whichever order the lines crossed; unless a change was lost, services have
\* given up on the channel, or the lock was set when the record was already
\* wrong or is only the last one since a later one was deleted
\* (Channel::CheckModes after each change, CSMode::OnCheckModes).
LockHolds ==
    Settled /\ ~svc.bouncy =>
        \A i \in DOMAIN lock :
            LET m == lock[i].mode
            IN  \/ \E j \in DOMAIN lock : j > i /\ lock[j].mode = m
                \/ m \in hist.loose \cup svc.lost
                \/ net.modes[m] = lock[i].val

\* A server takes back a mode that it unsets without a parameter.
TakenBack(m) == \E i \in DOMAIN toSvc : toSvc[i].server /\ toSvc[i].chg[m] = Off


\* The same of every mode: "Number of server MODEs this second" (channels.h:85)
\* is what CheckModes goes by.
FightAlwaysEnds == <>[]Settled

\* A set and an unset of the same mode in one cycle leave the network where it
\* was, and that is where services believe it is (StackerInfo::AddMode).
CancelIsNoChange ==
    \A m \in Modes : svc.stack[m] = Nothing => svc.modes[m] = svc.told[m]

=============================================================================
