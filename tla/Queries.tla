------------------------------ MODULE Queries ------------------------------
(***************************************************************************)
(* Password checks that wait for a database.  A module that wants to know  *)
(* whether a password is right creates an IdentifyRequest (src/account.cpp)*)
(* and asks the authentication modules.  sql_authentication and            *)
(* ldap_authentication hold the request and pass a query to the thread of  *)
(* mysql or ldap; the answer comes back through a queue and a pipe that    *)
(* wakes the main thread.  A request that nobody holds any more is told    *)
(* its verdict and deleted, once.                                          *)
(*                                                                         *)
(* An LDAP check is three queries in a row: bind as the administrator,     *)
(* search for the user, bind as the user, all on one connection.           *)
(*                                                                         *)
(* Connections are removed and added by a reload of the configuration, and *)
(* modules are unloaded, while their queries are anywhere on that way.     *)
(* None is the request of a query of another module.  Undefined behaviour  *)
(* (bad) ends the run.                                                     *)
(***************************************************************************)
EXTENDS Naturals, SequencesExt

CONSTANTS Reqs,    \* IdentifyRequests, each used again once nothing refers to it
          None,    \* the query of another module
          MaxQueries   \* bound: queries and answers under way when one is added

ASSUME NoneAssumption == None \notin Reqs
ASSUME BoundAssumption == MaxQueries \in Nat

Holders == {"sqlauth", "ldapauth"}

VARIABLES req,      \* the IdentifyRequests
          loaded,   \* the authentication modules that are loaded
          main,     \* what the main thread is in the middle of
          sql,      \* the mysql module: queues, connection, thread and pipe
          ldap      \* the ldap module

vars == <<req, loaded, main, sql, ldap>>

Closed == [open |-> FALSE, holds |-> {}, dispatched |-> FALSE,
           success |-> FALSE, told |-> 1, bad |-> FALSE]
One(b) == IF b THEN 1 ELSE 0

Init ==
    /\ req = [r \in Reqs |-> Closed]
    /\ loaded = Holders
    /\ main = "idle"
    /\ sql  = [up |-> TRUE, queries |-> << >>, done |-> << >>, byte |-> FALSE,
               pc |-> "loop", cur |-> None, result |-> "no",
               dangling |-> FALSE, bad |-> FALSE]
    /\ ldap = [up |-> TRUE, queries |-> << >>, batch |-> << >>, done |-> << >>,
               byte |-> FALSE, pc |-> "top", exit |-> FALSE, lost |-> {}]

\* An answer that is ready.  Of the answers to other modules one is enough.
Keep(done, a) ==
    IF a.req = None /\ \E i \in DOMAIN done : done[i].req = None THEN done
    ELSE Append(done, a)

\* What is left of a queue without the elements of R.
Without(queue, R) ==
    FoldLeft(LAMBDA t, e : IF e \in R THEN t ELSE Append(t, e), << >>, queue)

Crashed == sql.bad \/ \E r \in Reqs : req[r].bad

(***************************************************************************)
(* IdentifyRequest, as functions of the table of requests.                 *)
(***************************************************************************)
\* OnFail, unless the request succeeded, and delete.
Finish(q, r) == [q EXCEPT ![r] = [Closed EXCEPT !.told = q[r].told + One(~q[r].success)]]

Release(q, r, m) ==
    LET left == [q EXCEPT ![r].holds = @ \ {m}]
    IN IF ~q[r].open THEN [q EXCEPT ![r].bad = TRUE]
       ELSE IF left[r].holds = {} /\ left[r].dispatched THEN Finish(left, r)
       ELSE left

Success_Again(q, r) ==
    IF q[r].open THEN [q EXCEPT ![r].told = @ + 1, ![r].success = TRUE]
    ELSE [q EXCEPT ![r].bad = TRUE]
Success(q, r) ==
    IF ~q[r].open THEN [q EXCEPT ![r].bad = TRUE]
    ELSE IF q[r].success THEN q
    ELSE [q EXCEPT ![r].told = @ + 1, ![r].success = TRUE]

Dispatch(q, r) ==
    IF q[r].holds = {} THEN Finish(q, r) ELSE [q EXCEPT ![r].dispatched = TRUE]

\* A module that is unloaded holds nothing, and the requests it made end.
ModuleUnload(q, m) ==
    LET Ends(r) == m = "owner" \/ (q[r].holds \subseteq {m} /\ q[r].dispatched)
    IN [r \in Reqs |-> IF ~q[r].open THEN q[r]
                       ELSE IF Ends(r) THEN Finish(q, r)[r]
                       ELSE [q[r] EXCEPT !.holds = @ \ {m}]]

(***************************************************************************)
(* mysql.                                                                  *)
(***************************************************************************)
\* MySQLService::Run, which also wakes the thread.
Run(s, r) == [s EXCEPT !.queries = Append(@, r),
                       !.pc = IF @ = "wait" THEN "loop" ELSE @]

\* The dispatcher keeps a reference to the element at the front of a deque.
\* Erasing an element destroys the front one if it is the front one, or if
\* the elements before it are the fewer and are moved up.  The last ones go
\* first.
InHand(s) == s.pc \in {"took", "run", "ran"}
EraseQueries(s, R) ==
    LET gone     == {i \in DOMAIN s.queries : s.queries[i] \in R}
        Size(i)  == Len(s.queries) - Cardinality({j \in gone : j > i})
        Moves(i) == i = 1 \/ i - 1 < Size(i) \div 2
    IN [s EXCEPT !.queries = Without(@, R),
                 !.dangling = @ \/ (InHand(s) /\ \E i \in gone : Moves(i))]

\* SQLAuthenticationResult::OnResult and OnError, with its destructor.
Deliver(q, a) ==
    IF a.req = None THEN q
    ELSE Release(IF a.result = "yes" THEN Success(q, a.req) ELSE q, a.req, "sqlauth")
DeliverAll(q, answers) == FoldLeft(Deliver, q, answers)

\* DispatcherThread::Run.  It holds the mutex in "loop", where the main
\* thread finds it taken, and gives it up to run the query.
SqlTake ==
    /\ sql.pc = "loop" /\ sql.queries # << >>
    /\ sql' = [sql EXCEPT !.pc = "took", !.cur = Head(sql.queries)]
    /\ UNCHANGED <<req, loaded, main, ldap>>

SqlRun ==
    /\ sql.pc = "took"
    /\ sql' = [sql EXCEPT !.pc = "run", !.bad = sql.dangling]
    /\ UNCHANGED <<req, loaded, main, ldap>>

SqlRan(res) ==
    /\ sql.pc = "run"
    /\ sql' = [sql EXCEPT !.pc = "ran", !.result = res]
    /\ UNCHANGED <<req, loaded, main, ldap>>

SqlFinish ==
    /\ sql.pc = "ran"
    /\ LET next == [sql EXCEPT !.pc = "loop", !.cur = None, !.result = "no", !.dangling = FALSE]
       IN sql' = IF sql.queries = << >> THEN next
                ELSE IF sql.dangling THEN [sql EXCEPT !.bad = TRUE]
                ELSE [next EXCEPT !.queries = Tail(@),
                                  !.done = Keep(@, [req |-> sql.cur, result |-> sql.result])]
    /\ UNCHANGED <<req, loaded, main, ldap>>

SqlWait ==
    /\ sql.pc = "loop" /\ sql.queries = << >>
    /\ sql' = [sql EXCEPT !.pc = "wait", !.byte = @ \/ sql.done # << >>]
    /\ UNCHANGED <<req, loaded, main, ldap>>

(***************************************************************************)
(* ldap.                                                                   *)
(***************************************************************************)
\* QueueRequest, which also wakes the thread.
Queue_NoWake(l, r, op) ==
    [l EXCEPT !.queries = Append(@, [req |-> r, op |-> op])]
Queue(l, r, op) ==
    [l EXCEPT !.queries = Append(@, [req |-> r, op |-> op]),
              !.pc = IF @ = "wait" THEN "send" ELSE @]

\* IdentifyInterface::OnResult and OnError, then the deletion of the request
\* with the interface, unless the interface has passed its hold on.
AfterOp(op) == IF op = "admin" THEN "search" ELSE "user"
Asks(a)  == a.op \in {"admin", "search"} /\ a.result = "yes"
Right(a) == a.op = "user" /\ a.result = "yes"
Answered_Keeps(w, a) ==
    IF a.req = None THEN w
    ELSE CASE Asks(a)  -> [w EXCEPT !.l = Queue(w.l, a.req, AfterOp(a.op))]
           [] Right(a) -> [w EXCEPT !.q = Release(Success(w.q, a.req), a.req, "ldapauth")]
           [] OTHER    -> w
Answered(w, a) ==
    IF a.req = None THEN w
    ELSE CASE Asks(a)  -> [w EXCEPT !.l = Queue(w.l, a.req, AfterOp(a.op))]
           [] Right(a) -> [w EXCEPT !.q = Release(Success(w.q, a.req), a.req, "ldapauth")]
           [] OTHER    -> [w EXCEPT !.q = Release(w.q, a.req, "ldapauth")]
Drop(q, e) == IF e.req = None THEN q ELSE Release(q, e.req, "ldapauth")
ReleaseAll(q, entries) == FoldLeft(Drop, q, entries)

\* LDAPService::Run.  The exit flag is read before the mutex is taken.
LdapTop ==
    /\ ldap.pc = "top"
    /\ ldap' = [ldap EXCEPT !.pc = IF ldap.exit THEN "exit" ELSE "check"]
    /\ UNCHANGED <<req, loaded, main, sql>>

LdapCheck ==
    /\ ldap.pc = "check"
    /\ ldap' = [ldap EXCEPT !.pc = IF ldap.queries = << >> THEN "wait" ELSE "send"]
    /\ UNCHANGED <<req, loaded, main, sql>>

\* SendRequests takes the queue, with process_mutex from here on.
LdapSend ==
    /\ ldap.pc = "send"
    /\ ldap' = [ldap EXCEPT !.batch = ldap.queries, !.queries = << >>,
                            !.pc = IF ldap.queries = << >> THEN "top" ELSE "process"]
    /\ UNCHANGED <<req, loaded, main, sql>>

\* LDAPRequest::run and BuildReply, after one more try if the server is down.
LdapRun(res) ==
    /\ ldap.pc = "process" /\ ldap.batch # << >>
    /\ LET e == Head(ldap.batch)
       IN ldap' = [ldap EXCEPT !.batch = Tail(@),
                     !.done = Keep(@, [req |-> e.req, op |-> e.op, result |-> res])]
    /\ UNCHANGED <<req, loaded, main, sql>>

LdapSent ==
    /\ ldap.pc = "process" /\ ldap.batch = << >>
    /\ ldap' = [ldap EXCEPT !.pc = "top", !.byte = TRUE]
    /\ UNCHANGED <<req, loaded, main, sql>>

(***************************************************************************)
(* The main thread.                                                        *)
(***************************************************************************)
Entries  == ToSet(ldap.queries) \cup ToSet(ldap.batch) \cup ToSet(ldap.done)
InSql    == ToSet(sql.queries) \cup {a.req : a \in ToSet(sql.done)}
InLdap   == {e.req : e \in Entries}
Idle     == main = "idle"
Room     == Len(sql.queries) + Len(sql.done) + Len(ldap.queries) + Len(ldap.batch)
              + Len(ldap.done) < MaxQueries

\* IDENTIFY and the other commands that check a password.  The encryption
\* modules answer at once: local is whether the password is the stored one.
Identify(r, local) ==
    /\ Idle /\ Room /\ ~req[r].open /\ r \notin InSql \cup InLdap \cup ldap.lost
    /\ InHand(sql) => sql.cur # r
    /\ LET asked == {m \in loaded : IF m = "sqlauth" THEN sql.up ELSE ldap.up}
           new   == [req EXCEPT ![r] = [Closed EXCEPT !.open = TRUE, !.holds = asked, !.told = 0]]
       IN /\ req'  = Dispatch(IF local THEN Success(new, r) ELSE new, r)
          /\ sql'  = IF "sqlauth" \in asked THEN Run(sql, r) ELSE sql
          /\ ldap' = IF "ldapauth" \in asked THEN Queue(ldap, r, "admin") ELSE ldap
    /\ UNCHANGED <<loaded, main>>

\* Another module's queries.
OtherSql ==
    /\ Idle /\ Room /\ sql.up /\ None \notin ToSet(sql.queries) /\ ~(InHand(sql) /\ sql.cur = None)
    /\ sql' = Run(sql, None)
    /\ UNCHANGED <<req, loaded, main, ldap>>
OtherLdap ==
    /\ Idle /\ Room /\ ldap.up
    /\ \A e \in ToSet(ldap.queries \o ldap.batch) : e.req # None
    /\ ldap' = Queue(ldap, None, "add")
    /\ UNCHANGED <<req, loaded, main, sql>>

\* Pipe::ProcessRead calls OnNotify and only then empties the pipe.
SqlNotify ==
    /\ Idle /\ sql.byte
    /\ req' = DeliverAll(req, sql.done)
    /\ sql' = [sql EXCEPT !.done = << >>]
    /\ main' = "sql"
    /\ UNCHANGED <<loaded, ldap>>
LdapNotify ==
    /\ Idle /\ ldap.byte
    /\ LET w == FoldLeft(Answered, [q |-> req, l |-> [ldap EXCEPT !.done = << >>]], ldap.done)
       IN req' = w.q /\ ldap' = w.l
    /\ main' = "ldap"
    /\ UNCHANGED <<loaded, sql>>
Drain ==
    /\ main \in {"sql", "ldap"} /\ main' = "idle"
    /\ sql'  = IF main = "sql" THEN [sql EXCEPT !.byte = FALSE] ELSE sql
    /\ ldap' = IF main = "ldap" THEN [ldap EXCEPT !.byte = FALSE] ELSE ldap
    /\ UNCHANGED <<req, loaded>>

\* ModuleSQL::OnModuleUnload waits for the query in hand only if the first of
\* the queue goes, then delivers what is finished.  The result objects of
\* the erased queries are left behind; ModuleUnload drops their holds.
UnloadSqlAuth ==
    /\ Idle /\ "sqlauth" \in loaded
    /\ (sql.queries # << >> /\ Head(sql.queries) # None) => sql.pc # "run"
    /\ LET erased == EraseQueries(sql, Reqs)
       IN /\ sql' = [erased EXCEPT !.done = << >>]
          /\ req' = ModuleUnload(DeliverAll(req, sql.done), "sqlauth")
    /\ loaded' = loaded \ {"sqlauth"}
    /\ UNCHANGED <<main, ldap>>

\* ModuleLDAP::OnModuleUnload waits for the batch and deletes the module's
\* requests from both queues.
UnloadLdapAuth ==
    /\ Idle /\ "ldapauth" \in loaded /\ ldap.pc # "process"
    /\ LET ours == {e \in Entries : e.req # None}
       IN ldap' = [ldap EXCEPT !.queries = Without(@, ours), !.done = Without(@, ours),
                               !.lost = {}]
    /\ req' = ModuleUnload(ReleaseAll(req, ldap.queries \o ldap.done), "ldapauth")
    /\ loaded' = loaded \ {"ldapauth"}
    /\ UNCHANGED <<main, sql>>

\* The module that made the requests goes, and is loaded again at once.
UnloadOwner ==
    /\ Idle /\ req' = ModuleUnload(req, "owner")
    /\ UNCHANGED <<loaded, main, sql, ldap>>

LoadModule(m) ==
    /\ Idle /\ m \notin loaded /\ loaded' = loaded \cup {m}
    /\ UNCHANGED <<req, main, sql, ldap>>

\* OnReload: a connection is taken out of the configuration, or put back.
\* ~MySQLService waits for the query in hand, answers and erases the rest.
RemoveSql ==
    /\ Idle /\ sql.up /\ sql.pc # "run"
    /\ req' = DeliverAll(req, [i \in DOMAIN sql.queries |->
                 [req |-> Reverse(sql.queries)[i], result |-> "no"]])
    /\ sql' = [EraseQueries(sql, Reqs \cup {None}) EXCEPT !.up = FALSE]
    /\ UNCHANGED <<loaded, main, ldap>>
AddSql ==
    /\ Idle /\ ~sql.up /\ sql' = [sql EXCEPT !.up = TRUE]
    /\ UNCHANGED <<req, loaded, main, ldap>>

\* The thread of a connection is told to exit, woken and joined.
RemoveLdap ==
    /\ Idle /\ Room /\ ldap.up
    /\ ldap' = [ldap EXCEPT !.exit = TRUE, !.pc = IF @ = "wait" THEN "send" ELSE @]
    /\ main' = "join"
    /\ UNCHANGED <<req, loaded, sql>>
\* ~LDAPService answers the queries; the second loop, meant for the results,
\* goes over the queries again, which are gone.
LdapJoined ==
    /\ main = "join" /\ ldap.pc = "exit"
    /\ req' = ReleaseAll(req, ldap.queries)
    /\ ldap' = [ldap EXCEPT !.up = FALSE, !.queries = << >>, !.done = << >>, !.byte = FALSE,
                  !.lost = @ \cup ({a.req : a \in ToSet(ldap.done)} \ {None})]
    /\ main' = "idle"
    /\ UNCHANGED <<loaded, sql>>
AddLdap ==
    /\ Idle /\ ~ldap.up
    /\ ldap' = [ldap EXCEPT !.up = TRUE, !.exit = FALSE, !.pc = "top"]
    /\ UNCHANGED <<req, loaded, main, sql>>

Outside ==
    \/ \E r \in Reqs, local \in BOOLEAN : Identify(r, local)
    \/ OtherSql \/ OtherLdap
    \/ UnloadSqlAuth \/ UnloadLdapAuth \/ UnloadOwner
    \/ \E m \in Holders : LoadModule(m)
    \/ RemoveSql \/ AddSql \/ RemoveLdap \/ AddLdap

SqlThread  == SqlTake \/ SqlRun \/ (\E res \in {"yes", "no"} : SqlRan(res))
                \/ SqlFinish \/ SqlWait
LdapThread == LdapTop \/ LdapCheck \/ LdapSend \/ LdapSent
                \/ \E res \in {"yes", "no"} : LdapRun(res)
Main       == SqlNotify \/ LdapNotify \/ Drain \/ LdapJoined

Next == ~Crashed /\ (Outside \/ SqlThread \/ LdapThread \/ Main)

Spec == Init /\ [][Next]_vars

(***************************************************************************)
(* Properties.                                                             *)
(***************************************************************************)
Request == [open : BOOLEAN, holds : SUBSET Holders, dispatched : BOOLEAN,
            success : BOOLEAN, told : 0..2, bad : BOOLEAN]
LdapOps == {"admin", "search", "user", "add"}

\* The shape of the state; the thread of ldap works on nothing between batches.
TypeOK ==
    /\ req \in [Reqs -> Request]
    /\ loaded \subseteq Holders /\ main \in {"idle", "sql", "ldap", "join"}
    /\ ToSet(sql.queries) \subseteq Reqs \cup {None}
    /\ sql.pc \in {"loop", "wait", "took", "run", "ran"}
    /\ ldap.pc \in {"top", "check", "wait", "send", "process", "exit"}
    /\ \A e \in Entries : e.req \in Reqs \cup {None} /\ e.op \in LdapOps
    /\ ldap.pc # "process" => ldap.batch = << >>
    /\ ldap.lost \subseteq Reqs

\* A request waits for exactly the modules that have a query of it under way,
\* wherever that query is, so that every hold has something that will release
\* it; and the threads and queues are in a state they can be in.  (lost are those
\* ~LDAPService forgot.)
HoldsExact ==
    /\ TypeOK
    /\ ~Crashed => \A r \in Reqs : req[r].open =>
        req[r].holds = {m \in Holders : IF m = "sqlauth" THEN r \in InSql
                                        ELSE r \in InLdap \cup ldap.lost}

\* Whoever answers first, last or twice, and whatever is unloaded meanwhile, the
\* client is told once: success at once, failure only when the last hold goes.
ToldOnce ==
    \A r \in Reqs : req[r].told = IF req[r].open /\ ~req[r].success THEN 0 ELSE 1

\* No query waits for a thread that sleeps, and no thread sleeps on answers
\* without having said so: an answer waits only for the next notification,
\* which is missed when it arrives while the main thread empties the pipe.
NoneSleepsOn ==
    ~Crashed =>
       /\ sql.queries # << >> => sql.pc # "wait"
       /\ ldap.queries # << >> => ldap.pc \notin {"wait", "exit"} \/ main = "join"

\* "even though this may have already finished successfully we return that it
\* didn't": a connection that goes away answers the finished requests too.
AllAnswered == ldap.lost = {}

\* "prevents us from deleting a connection while a query is executing in the
\* thread": the thread never runs a query whose connection or text is gone.
LockProtects == ~sql.bad

\* A request is not used after it was deleted.
NoUseAfterFree == \A r \in Reqs : ~req[r].bad

\* A thread that is told to exit does not go to sleep.
ExitIsHeard == ~(ldap.exit /\ ldap.pc = "wait")

\* An answer that is ready is announced.
AnswersAnnounced ==
    main = "idle" /\ sql.done # << >> /\ sql.pc = "wait" => sql.byte
=============================================================================
