--------------------------- MODULE Queries_proof ---------------------------
(***************************************************************************)
(* Proofs about Queries: what is told to the one who waits, what a request *)
(* waits for and whether the threads that have the answer are awake, for   *)
(* any set of requests and any number of queries.                          *)
(***************************************************************************)
EXTENDS Queries, Folding, SequenceTheorems

Ids == Reqs \cup {None}
Answers == [req : Ids, result : {"yes", "no"}]
LdapQueries == [req : Ids, op : LdapOps]
LdapAnswers == [req : Ids, op : LdapOps, result : {"yes", "no"}]
LdapEntries == LdapQueries \cup LdapAnswers

\* The requests in a queue of mysql, and those in another queue.
IdsIn(s)  == {s[i] : i \in DOMAIN s} \ {None}
ReqsIn(s) == {s[i].req : i \in DOMAIN s} \ {None}
\* No request is in the queue twice.
OnceId(s)  == \A i, j \in DOMAIN s : s[i] = s[j] /\ s[i] # None => i = j
OnceReq(s) == \A i, j \in DOMAIN s : s[i].req = s[j].req /\ s[i].req # None => i = j

\* The tables of requests that have told what they should have.
ToldRight(t) ==
    /\ t.told = IF t.open /\ ~t.success THEN 0 ELSE 1
    /\ t.bad => ~t.open
Table == {q \in [Reqs -> Request] : \A r \in Reqs : ToldRight(q[r])}
Sound(q) == \A r \in Reqs : ~q[r].bad

\* Open requests wait for mysql if they are in S and for ldap if they are in L.
Exact(q, S, L) ==
    \A r \in Reqs : q[r].open =>
        /\ "sqlauth" \in q[r].holds <=> r \in S
        /\ "ldapauth" \in q[r].holds <=> r \in L

SqlType ==
    [up : BOOLEAN, queries : Seq(Ids), done : Seq(Answers), byte : BOOLEAN,
     pc : {"loop", "wait", "took", "run", "ran"}, cur : Ids, result : {"yes", "no"},
     dangling : BOOLEAN, bad : BOOLEAN]
LdapType ==
    [up : BOOLEAN, queries : Seq(LdapQueries), batch : Seq(LdapQueries),
     done : Seq(LdapAnswers), byte : BOOLEAN,
     pc : {"top", "check", "wait", "send", "process", "exit"}, exit : BOOLEAN,
     lost : SUBSET Reqs]

Types ==
    /\ req \in Table
    /\ loaded \subseteq Holders /\ main \in {"idle", "sql", "ldap", "join"}
    /\ sql \in SqlType /\ ldap \in LdapType

\* A request is in one place of mysql, and what the dispatcher has in hand is at
\* the front of the queue unless that has been erased.
SqlPlaces ==
    /\ OnceId(sql.queries) /\ OnceReq(sql.done)
    /\ IdsIn(sql.queries) \cap ReqsIn(sql.done) = {}
    /\ InHand(sql) /\ ~sql.dangling => sql.queries # << >> /\ Head(sql.queries) = sql.cur
    /\ sql.queries # << >> => sql.pc # "wait"

\* A request is in one place of ldap.
LdapPlaces ==
    /\ OnceReq(ldap.queries) /\ OnceReq(ldap.batch) /\ OnceReq(ldap.done)
    /\ ReqsIn(ldap.queries) \cap ReqsIn(ldap.batch) = {}
    /\ ReqsIn(ldap.queries) \cap ReqsIn(ldap.done) = {}
    /\ ReqsIn(ldap.batch) \cap ReqsIn(ldap.done) = {}
    /\ ldap.lost \cap (ReqsIn(ldap.queries) \cup ReqsIn(ldap.batch) \cup ReqsIn(ldap.done)) = {}

\* The thread of ldap is told to exit only by the main thread that joins it, and
\* a connection that is down has none.
LdapThreads ==
    /\ ldap.pc # "process" => ldap.batch = << >>
    /\ ldap.exit => main = "join" \/ ~ldap.up
    /\ ldap.pc = "exit" => ldap.exit
    /\ ~ldap.up => ldap.pc = "exit" /\ ldap.queries = << >> /\ ldap.done = << >> /\ ~ldap.byte
    /\ main = "join" => ldap.up
    /\ ldap.queries # << >> => ldap.pc # "wait" \/ main = "join"

InSqlQueues  == IdsIn(sql.queries) \cup ReqsIn(sql.done)
InLdapQueues == ReqsIn(ldap.queries) \cup ReqsIn(ldap.batch) \cup ReqsIn(ldap.done)

IInv ==
    /\ Types /\ SqlPlaces /\ LdapPlaces /\ LdapThreads
    /\ ~Crashed => Exact(req, InSqlQueues, InLdapQueues \cup ldap.lost)

-----------------------------------------------------------------------------
(* The table of requests.                                                  *)

\* One row of the table is replaced at a time.
LEMMA PutRow ==
    ASSUME NEW q \in Table, NEW r \in Reqs, NEW t \in Request, ToldRight(t)
    PROVE  [q EXCEPT ![r] = t] \in Table
BY DEF Table

\* A request that is given up leaves a table that has told what it should have:
\* OnFail is called unless the request succeeded.
LEMMA FinishTable ==
    ASSUME NEW q \in Table, NEW r \in Reqs, q[r].open
    PROVE  Finish(q, r) = [q EXCEPT ![r] = Closed] /\ Finish(q, r) \in Table
<1>1. q[r] \in Request /\ ToldRight(q[r])
  BY DEF Table
<1>2. q[r].told + One(~q[r].success) = 1
  <2>1. CASE q[r].success
    BY <1>1, <2>1 DEF ToldRight, One
  <2>2. CASE ~q[r].success
    BY <1>1, <2>2 DEF ToldRight, One
  <2> QED
    BY <2>1, <2>2
<1>3. [Closed EXCEPT !.told = q[r].told + One(~q[r].success)] = Closed
  BY <1>2 DEF Closed
<1>4. Closed \in Request /\ ToldRight(Closed)
  BY DEF Closed, Request, ToldRight
<1> QED
  BY <1>3, <1>4, PutRow DEF Finish

\* What Release does: it changes one row; a request that was deleted is used (bad),
\* and of one that was not the module holds nothing any more.
LEMMA ReleaseRow ==
    ASSUME NEW q \in Table, NEW r \in Reqs, NEW m \in Holders
    PROVE  \E t \in Request :
              /\ Release(q, r, m) = [q EXCEPT ![r] = t] /\ ToldRight(t)
              /\ q[r].open => ~t.bad /\ (t.open => t.holds = q[r].holds \ {m})
              /\ ~q[r].open => t.bad
<1> DEFINE u    == [q[r] EXCEPT !.holds = @ \ {m}]
           left == [q EXCEPT ![r].holds = @ \ {m}]
           old  == q[r]
<1>1. q \in [Reqs -> Request] /\ old \in Request /\ ToldRight(old) /\ (old.open => ~old.bad)
  BY DEF Table, ToldRight
<1>2. u \in Request /\ ToldRight(u) /\ u.open = old.open /\ u.bad = old.bad
      /\ u.holds = old.holds \ {m}
  BY <1>1 DEF Request, ToldRight
<1>3. left = [q EXCEPT ![r] = u] /\ left[r] = u
  BY <1>1
<1> HIDE DEF u, left, old
<1>4. left \in Table
  BY <1>2, <1>3, PutRow
<1>5. CASE ~old.open
  <2> DEFINE t == [old EXCEPT !.bad = TRUE]
  <2>1. t \in Request /\ ToldRight(t) /\ t.bad
    BY <1>1, <1>5 DEF Request, ToldRight
  <2>2. Release(q, r, m) = [q EXCEPT ![r] = t]
    <3>1. Release(q, r, m) = [q EXCEPT ![r].bad = TRUE]
      BY <1>5 DEF Release, old
    <3> QED
      BY <1>1, <3>1 DEF old
  <2> HIDE DEF t
  <2> QED
    BY <1>5, <2>1, <2>2 DEF old
<1>6. CASE old.open /\ left[r].holds = {} /\ left[r].dispatched
  <2>1. Release(q, r, m) = Finish(left, r)
    BY <1>6 DEF Release, left, old
  <2>2. Finish(left, r) = [left EXCEPT ![r] = Closed]
    BY <1>2, <1>3, <1>4, <1>6, FinishTable
  <2>3. [left EXCEPT ![r] = Closed] = [q EXCEPT ![r] = Closed]
    BY <1>1, <1>3
  <2>4. Closed \in Request /\ ToldRight(Closed) /\ ~Closed.bad /\ ~Closed.open
    BY DEF Closed, Request, ToldRight
  <2> QED
    BY <1>6, <2>1, <2>2, <2>3, <2>4 DEF old
<1>7. CASE old.open /\ ~(left[r].holds = {} /\ left[r].dispatched)
  <2>1. Release(q, r, m) = left
    BY <1>7 DEF Release, left, old
  <2> QED
    BY <1>1, <1>2, <1>3, <1>7, <2>1 DEF old
<1> QED
  BY <1>5, <1>6, <1>7

\* What Success does: it changes one row, and not what the request waits for.
LEMMA SuccessRow ==
    ASSUME NEW q \in Table, NEW r \in Reqs
    PROVE  \E t \in Request :
              /\ Success(q, r) = [q EXCEPT ![r] = t] /\ ToldRight(t)
              /\ t.open = q[r].open /\ t.holds = q[r].holds
              /\ q[r].open => ~t.bad
              /\ ~q[r].open => t.bad
<1> DEFINE old == q[r]
<1>1. q \in [Reqs -> Request] /\ old \in Request /\ ToldRight(old) /\ (old.open => ~old.bad)
  BY DEF Table, ToldRight
<1>2. CASE ~old.open
  <2> DEFINE t == [old EXCEPT !.bad = TRUE]
  <2>1. t \in Request /\ ToldRight(t) /\ t.bad /\ t.open = old.open /\ t.holds = old.holds
    BY <1>1, <1>2 DEF Request, ToldRight
  <2>2. Success(q, r) = [q EXCEPT ![r] = t]
    <3>1. Success(q, r) = [q EXCEPT ![r].bad = TRUE]
      BY <1>2 DEF Success
    <3> QED
      BY <1>1, <3>1
  <2> HIDE DEF t
  <2> QED
    BY <1>2, <2>1, <2>2
<1>3. CASE old.open /\ old.success
  <2>1. Success(q, r) = [q EXCEPT ![r] = old]
    BY <1>1, <1>3 DEF Success
  <2> QED
    BY <1>1, <1>3, <2>1
<1>4. CASE old.open /\ ~old.success
  <2> DEFINE t == [old EXCEPT !.told = 1, !.success = TRUE]
  <2>1. t \in Request
    <3>1. 1 \in 0..2
      OBVIOUS
    <3>2. [old EXCEPT !.told = 1] \in Request
      BY <1>1, <3>1 DEF Request
    <3> QED
      BY <1>1, <3>2 DEF Request
  <2>2. t.told = 1 /\ t.success = TRUE /\ t.bad = old.bad /\ t.open = old.open
        /\ t.holds = old.holds
    BY <1>1 DEF Request
  <2>3. ToldRight(t)
    BY <1>1, <1>4, <2>2 DEF ToldRight
  <2>4. Success(q, r) = [q EXCEPT ![r] = t]
    <3>1. old.told + 1 = 1
      BY <1>1, <1>4 DEF ToldRight
    <3> QED
      BY <1>1, <1>4, <3>1 DEF Success
  <2> HIDE DEF t
  <2> QED
    BY <1>1, <1>4, <2>1, <2>2, <2>3, <2>4
<1> QED
  BY <1>2, <1>3, <1>4

\* Release and Success keep the table as it should be, whoever calls them and
\* however often; a request that was used after its deletion stays so.
LEMMA ReleaseTable ==
    ASSUME NEW q \in Table, NEW r \in Reqs, NEW m \in Holders
    PROVE  /\ Release(q, r, m) \in Table
           /\ Sound(Release(q, r, m)) => Sound(q) /\ q[r].open
<1>1. PICK t \in Request :
              /\ Release(q, r, m) = [q EXCEPT ![r] = t] /\ ToldRight(t)
              /\ ~q[r].open => t.bad
  BY ReleaseRow
<1>2. q \in [Reqs -> Request] /\ (q[r].open => ~q[r].bad)
  BY DEF Table, ToldRight
<1> QED
  BY <1>1, <1>2, PutRow DEF Sound

\* The same of Success.
LEMMA SuccessTable ==
    ASSUME NEW q \in Table, NEW r \in Reqs
    PROVE  /\ Success(q, r) \in Table
           /\ Sound(Success(q, r)) => Sound(q) /\ q[r].open
<1>1. PICK t \in Request :
              /\ Success(q, r) = [q EXCEPT ![r] = t] /\ ToldRight(t)
              /\ ~q[r].open => t.bad
  BY SuccessRow
<1>2. q \in [Reqs -> Request] /\ (q[r].open => ~q[r].bad)
  BY DEF Table, ToldRight
<1> QED
  BY <1>1, <1>2, PutRow DEF Sound

\* A module that releases a request drops out of what the request waits for.
LEMMA ReleaseExact ==
    ASSUME NEW q \in Table, NEW r \in Reqs, NEW m \in Holders, NEW S, NEW L,
           Exact(q, S, L), Sound(Release(q, r, m))
    PROVE  /\ m = "sqlauth" => Exact(Release(q, r, m), S \ {r}, L)
           /\ m = "ldapauth" => Exact(Release(q, r, m), S, L \ {r})
<1>1. PICK t \in Request :
              /\ Release(q, r, m) = [q EXCEPT ![r] = t]
              /\ q[r].open /\ t.open => t.holds = q[r].holds \ {m}
  BY ReleaseRow
<1>2. q \in [Reqs -> Request] /\ q[r].open
  BY ReleaseTable DEF Table
<1>3. "sqlauth" # "ldapauth"
  OBVIOUS
<1> QED
  BY <1>1, <1>2, <1>3 DEF Exact

\* A request that is told of success waits for what it waited for.
LEMMA SuccessExact ==
    ASSUME NEW q \in Table, NEW r \in Reqs, NEW S, NEW L, Exact(q, S, L)
    PROVE  Exact(Success(q, r), S, L)
<1>1. PICK t \in Request :
              /\ Success(q, r) = [q EXCEPT ![r] = t]
              /\ t.open = q[r].open /\ t.holds = q[r].holds
  BY SuccessRow
<1>2. q \in [Reqs -> Request]
  BY DEF Table
<1> QED
  BY <1>1, <1>2 DEF Exact

\* The unloading of a module keeps it.
LEMMA UnloadTable ==
    ASSUME NEW q \in Table, NEW m
    PROVE  ModuleUnload(q, m) \in Table
<1> DEFINE u == ModuleUnload(q, m)
<1>1. ASSUME NEW r \in Reqs
      PROVE  u[r] \in Request /\ ToldRight(u[r])
  <2>1. q[r] \in Request /\ ToldRight(q[r])
    BY DEF Table
  <2>2. CASE u[r] = q[r]
    BY <2>1, <2>2
  <2>3. CASE q[r].open /\ u[r] = Finish(q, r)[r]
    <3>1. Finish(q, r) \in Table
      BY <2>3, FinishTable
    <3> QED
      BY <2>3, <3>1 DEF Table
  <2>4. CASE u[r] = [q[r] EXCEPT !.holds = @ \ {m}]
    <3> DEFINE t == [q[r] EXCEPT !.holds = @ \ {m}]
    <3>1. t \in Request /\ ToldRight(t)
      BY <2>1 DEF Request, ToldRight
    <3> QED
      BY <2>4, <3>1
  <2> QED
    BY <2>2, <2>3, <2>4 DEF ModuleUnload
<1>2. u = [r \in Reqs |-> u[r]]
  BY DEF ModuleUnload
<1> HIDE DEF u
<1>3. u \in [Reqs -> Request]
  BY <1>1, <1>2
<1>4. u \in Table
  BY <1>1, <1>3 DEF Table
<1> QED
  BY <1>4 DEF u

\* A module that is unloaded holds nothing: what is left of an open request is
\* what the other module holds.
LEMMA UnloadExact ==
    ASSUME NEW q \in Table, NEW m, NEW S, NEW L, Exact(q, S, L)
    PROVE  /\ m = "sqlauth" => \A T : Exact(ModuleUnload(q, m), T \ Reqs, L)
           /\ m = "ldapauth" => \A T : Exact(ModuleUnload(q, m), S, T \ Reqs)
           /\ m = "owner" => Exact(ModuleUnload(q, m), S, L)
           /\ Sound(ModuleUnload(q, m)) => Sound(q)
<1> DEFINE u == ModuleUnload(q, m)
<1>1. ASSUME NEW r \in Reqs
      PROVE  /\ u[r].open => q[r].open /\ m # "owner" /\ u[r].holds = q[r].holds \ {m}
             /\ ~u[r].bad => ~q[r].bad
  <2>1. q[r] \in Request /\ ToldRight(q[r])
    BY DEF Table
  <2>2. CASE ~q[r].open
    <3>1. u[r] = q[r]
      BY <2>2 DEF ModuleUnload
    <3> QED
      BY <2>2, <3>1
  <2>3. CASE q[r].open /\ u[r] = Finish(q, r)[r]
    <3>1. u[r] = Closed
      BY <2>3, FinishTable DEF Table
    <3> QED
      BY <2>1, <2>3, <3>1 DEF Closed, ToldRight
  <2>4. CASE q[r].open /\ m # "owner" /\ u[r] = [q[r] EXCEPT !.holds = @ \ {m}]
    BY <2>1, <2>4 DEF Request
  <2> QED
    BY <2>2, <2>3, <2>4 DEF ModuleUnload
<1> HIDE DEF u
<1>2. "sqlauth" # "ldapauth"
  OBVIOUS
<1> QED
  BY <1>1, <1>2 DEF Exact, Sound, u

-----------------------------------------------------------------------------
(* The loops over queues and answers, one round after the other.           *)

\* One round of the loop that erases the elements of R from a queue.
WithoutOne(t, e, R) == IF e \in R THEN t ELSE Append(t, e)

\* The loop that erases the elements of R from a queue.
LEMMA WithoutStages ==
    ASSUME NEW X, NEW queue \in Seq(X), NEW R
    PROVE  \E d : /\ d[0] = << >> /\ d[Len(queue)] = Without(queue, R)
                  /\ \A i \in 0..Len(queue) : d[i] \in Seq(X)
                  /\ \A i \in 1..Len(queue) : d[i] = WithoutOne(d[i - 1], queue[i], R)
<1> DEFINE n == Len(queue)
           G == [p \in Seq(X) \X X |-> IF p[2] \in R THEN p[1] ELSE Append(p[1], p[2])]
           Loop(f) == f = [s \in SUBSET (1..n) |-> IF s = {} THEN << >>
                             ELSE IF queue[Max(s)] \in R THEN f[s \ {Max(s)}] ELSE Append(f[s \ {Max(s)}], queue[Max(s)])]
           I == CHOOSE f : Loop(f)
<1>1. n \in Nat /\ queue \in [1..n -> X] /\ DOMAIN queue = 1..n
  OBVIOUS
<1>2. G \in [Seq(X) \X X -> Seq(X)] /\ << >> \in Seq(X)
  OBVIOUS
<1>3. PICK f \in [SUBSET (1..n) -> Seq(X)] : IsFold(f, n, << >>, G, queue)
  <2> HIDE DEF G, n
  <2> QED
    BY <1>1, <1>2, FoldExists
<1>4. ASSUME NEW s \in SUBSET (1..n), s # {}
      PROVE  f[s] = IF queue[Max(s)] \in R THEN f[s \ {Max(s)}] ELSE Append(f[s \ {Max(s)}], queue[Max(s)])
  <2>1. Max(s) \in 1..n
    BY <1>1, <1>4, MaxOf
  <2>2. f[s \ {Max(s)}] \in Seq(X) /\ queue[Max(s)] \in X
    BY <1>1, <2>1
  <2> QED
    BY <1>3, <1>4, <2>2 DEF IsFold
<1>5. Loop(f)
  BY <1>3, <1>4 DEF IsFold
<1>6. Loop(I)
  BY <1>5
<1>7. Without(queue, R) = I[1..n]
  BY <1>1 DEF Without, FoldLeft, MapThenFoldSet
<1>8. ASSUME NEW i \in 1..n
      PROVE  I[1..i] = IF queue[i] \in R THEN I[1..(i - 1)] ELSE Append(I[1..(i - 1)], queue[i])
  <2>1. 1..i \in SUBSET (1..n) /\ i \in Nat /\ i # 0
    BY <1>1
  <2> HIDE DEF I
  <2> QED
    BY <1>6, <2>1, FirstOf
<1>9. I[1..0] = << >>
  <2>1. 1..0 = {}
    OBVIOUS
  <2> HIDE DEF I
  <2> QED
    BY <1>6, <2>1
<1> DEFINE d == [i \in 0..n |-> I[1..i]]
<1> HIDE DEF I
<1>10. d[0] = << >> /\ d[n] = Without(queue, R)
       /\ \A i \in 1..n : d[i] = IF queue[i] \in R THEN d[i - 1] ELSE Append(d[i - 1], queue[i])
  BY <1>1, <1>7, <1>8, <1>9
<1> HIDE DEF d
<1>11. \A i \in 0..n : d[i] \in Seq(X)
  <2>1. ASSUME NEW i \in 1..n, d[i - 1] \in Seq(X) PROVE d[i] \in Seq(X)
    <3>1. G[<<d[i - 1], queue[i]>>] \in Seq(X)
      BY <1>1, <1>2, <2>1
    <3> QED
      BY <1>1, <1>10, <2>1, <3>1
  <2>2. n \in Nat
    BY <1>1
  <2>3. d[0] \in Seq(X)
    BY <1>10
  <2> DEFINE A == Seq(X)
  <2>4. d[0] \in A /\ \A i \in 1..n : d[i - 1] \in A => d[i] \in A
    BY <2>1, <2>3
  <2> HIDE DEF n, A
  <2>5. \A i \in 0..n : d[i] \in A
    BY <2>2, <2>4, Stages
  <2> QED
    BY <2>5 DEF A
<1> QED
  BY <1>10, <1>11 DEF WithoutOne

\* One answer of mysql that is delivered.
LEMMA DeliverRow ==
    ASSUME NEW q \in Table, NEW a \in Answers
    PROVE  /\ Deliver(q, a) \in Table
           /\ Sound(Deliver(q, a)) => Sound(q)
<1> DEFINE t == IF a.result = "yes" THEN Success(q, a.req) ELSE q
<1>1. CASE a.req = None
  BY <1>1 DEF Deliver
<1>2. CASE a.req # None
  <2>1. a.req \in Reqs /\ Deliver(q, a) = Release(t, a.req, "sqlauth") /\ "sqlauth" \in Holders
    BY <1>2 DEF Deliver, Answers, Ids, Holders
  <2>2. t \in Table /\ (Sound(t) => Sound(q))
    BY <2>1, SuccessTable
  <2> HIDE DEF t
  <2> QED
    BY <2>1, <2>2, ReleaseTable
<1> QED
  BY <1>1, <1>2

\* The request of an answer of mysql does not wait for mysql any more.
LEMMA DeliverExact ==
    ASSUME NEW q \in Table, NEW a \in Answers, NEW S, NEW L,
           Exact(q, S, L), Sound(Deliver(q, a))
    PROVE  Exact(Deliver(q, a), S \ {a.req}, L)
<1> DEFINE t == IF a.result = "yes" THEN Success(q, a.req) ELSE q
<1>1. CASE a.req = None
  <2>1. Deliver(q, a) = q
    BY <1>1 DEF Deliver
  <2> QED
    BY <1>1, <2>1, NoneAssumption DEF Exact
<1>2. CASE a.req # None
  <2>1. a.req \in Reqs /\ Deliver(q, a) = Release(t, a.req, "sqlauth") /\ "sqlauth" \in Holders
    BY <1>2 DEF Deliver, Answers, Ids, Holders
  <2>2. t \in Table /\ Exact(t, S, L)
    BY <2>1, SuccessTable, SuccessExact
  <2> HIDE DEF t
  <2>3. Exact(Release(t, a.req, "sqlauth"), S \ {a.req}, L)
    BY <2>1, <2>2, ReleaseExact
  <2> QED
    BY <2>1, <2>3
<1> QED
  BY <1>1, <1>2

\* The loop that delivers the answers of mysql.
LEMMA DeliverStages ==
    ASSUME NEW q \in Table, NEW z \in Seq(Answers)
    PROVE  \E d : /\ d[0] = q /\ d[Len(z)] = DeliverAll(q, z)
                  /\ \A i \in 0..Len(z) : d[i] \in Table
                  /\ \A i \in 1..Len(z) : d[i] = Deliver(d[i - 1], z[i])
<1> DEFINE n == Len(z)
           G == [p \in Table \X Answers |-> Deliver(p[1], p[2])]
           Loop(f) == f = [s \in SUBSET (1..n) |-> IF s = {} THEN q
                             ELSE Deliver(f[s \ {Max(s)}], z[Max(s)])]
           I == CHOOSE f : Loop(f)
<1>1. n \in Nat /\ z \in [1..n -> Answers] /\ DOMAIN z = 1..n
  OBVIOUS
<1>2. G \in [Table \X Answers -> Table] /\ q \in Table
  BY DeliverRow
<1>3. PICK f \in [SUBSET (1..n) -> Table] : IsFold(f, n, q, G, z)
  <2> HIDE DEF G, n
  <2> QED
    BY <1>1, <1>2, FoldExists
<1>4. ASSUME NEW s \in SUBSET (1..n), s # {}
      PROVE  f[s] = Deliver(f[s \ {Max(s)}], z[Max(s)])
  <2>1. Max(s) \in 1..n
    BY <1>1, <1>4, MaxOf
  <2>2. f[s \ {Max(s)}] \in Table /\ z[Max(s)] \in Answers
    BY <1>1, <2>1
  <2> QED
    BY <1>3, <1>4, <2>2 DEF IsFold
<1>5. Loop(f)
  BY <1>3, <1>4 DEF IsFold
<1>6. Loop(I)
  BY <1>5
<1>7. DeliverAll(q, z) = I[1..n]
  BY <1>1 DEF DeliverAll, FoldLeft, MapThenFoldSet
<1>8. ASSUME NEW i \in 1..n
      PROVE  I[1..i] = Deliver(I[1..(i - 1)], z[i])
  <2>1. 1..i \in SUBSET (1..n) /\ i \in Nat /\ i # 0
    BY <1>1
  <2> HIDE DEF I
  <2> QED
    BY <1>6, <2>1, FirstOf
<1>9. I[1..0] = q
  <2>1. 1..0 = {}
    OBVIOUS
  <2> HIDE DEF I
  <2> QED
    BY <1>6, <2>1
<1> DEFINE d == [i \in 0..n |-> I[1..i]]
<1> HIDE DEF I
<1>10. d[0] = q /\ d[n] = DeliverAll(q, z)
       /\ \A i \in 1..n : d[i] = Deliver(d[i - 1], z[i])
  BY <1>1, <1>7, <1>8, <1>9
<1> HIDE DEF d
<1>11. \A i \in 0..n : d[i] \in Table
  <2>1. ASSUME NEW i \in 1..n, d[i - 1] \in Table PROVE d[i] \in Table
    <3>1. G[<<d[i - 1], z[i]>>] \in Table
      BY <1>1, <1>2, <2>1
    <3> QED
      BY <1>1, <1>10, <2>1, <3>1
  <2> HIDE DEF n
  <2> QED
    BY <1>1, <1>2, <1>10, <2>1, Stages
<1> QED
  BY <1>10, <1>11

\* A request that was answered does not wait for mysql any more, whatever the
\* answers are and in whichever order they come.
LEMMA DeliverAllExact ==
    ASSUME NEW q \in Table, NEW z \in Seq(Answers), NEW S, NEW L, Exact(q, S, L)
    PROVE  /\ DeliverAll(q, z) \in Table
           /\ Sound(DeliverAll(q, z)) =>
                 Sound(q) /\ Exact(DeliverAll(q, z), S \ ReqsIn(z), L)
<1>1. PICK d : /\ d[0] = q /\ d[Len(z)] = DeliverAll(q, z)
               /\ \A i \in 0..Len(z) : d[i] \in Table
               /\ \A i \in 1..Len(z) : d[i] = Deliver(d[i - 1], z[i])
  BY DeliverStages
<1>2. Len(z) \in Nat /\ DOMAIN z = 1..Len(z) /\ \A i \in 1..Len(z) : z[i] \in Answers
  OBVIOUS
<1> DEFINE Done(i) == {z[j].req : j \in 1..i}
           Good(i) == Sound(d[i]) =>
                         Sound(q) /\ Exact(d[i], S \ Done(i), L)
           T == {i \in 0..Len(z) : Good(i)}
<1>3. Good(0)
  <2>1. Done(0) = {}
    OBVIOUS
  <2>2. S \ Done(0) = S /\ L = L
    BY <2>1
  <2> HIDE DEF Done
  <2> QED
    BY <1>1, <2>2
<1>4. ASSUME NEW i \in 1..Len(z), Good(i - 1) PROVE Good(i)
  <2>1. d[i - 1] \in Table /\ d[i] = Deliver(d[i - 1], z[i]) /\ z[i] \in Answers
    BY <1>1, <1>2
  <2>2. S \ Done(i) = (S \ Done(i - 1)) \ {z[i].req}
    <3>1. 1..i = 1..(i - 1) \cup {i}
      OBVIOUS
    <3> QED
      BY <3>1
  <2> HIDE DEF Done
  <2>3. SUFFICES ASSUME Sound(d[i]) PROVE Sound(q) /\ Exact(d[i], S \ Done(i), L)
    OBVIOUS
  <2>4. Sound(d[i - 1])
    BY <2>1, <2>3, DeliverRow
  <2>5. Exact(d[i - 1], S \ Done(i - 1), L)
    BY <1>4, <2>4
  <2>6. Exact(d[i], (S \ Done(i - 1)) \ {z[i].req}, L)
    BY <2>1, <2>3, <2>5, DeliverExact
  <2> QED
    BY <1>4, <2>2, <2>4, <2>6
<1>5. Good(Len(z))
  <2> HIDE DEF Good
  <2>1. 0 \in T /\ \A i \in 1..Len(z) : i - 1 \in T => i \in T
    BY <1>2, <1>3, <1>4
  <2> HIDE DEF T
  <2>2. \A i \in 0..Len(z) : i \in T
    BY <1>2, <2>1, UpTo
  <2> USE DEF T
  <2> QED
    BY <1>2, <2>2
<1>6. Exact(d[Len(z)], S \ Done(Len(z)), L) =>
         Exact(d[Len(z)], S \ ReqsIn(z), L)
  BY <1>2, NoneAssumption DEF ReqsIn, Exact
<1> HIDE DEF Done
<1> QED
  BY <1>1, <1>2, <1>5, <1>6

\* One request of ldap that is deleted without an answer.
LEMMA ReleaseEntry ==
    ASSUME NEW q \in Table, NEW e \in LdapEntries
    PROVE  /\ Drop(q, e) \in Table
           /\ Sound(Drop(q, e)) => Sound(q)
<1>1. CASE e.req = None
  BY <1>1 DEF Drop
<1>2. CASE e.req # None
  <2>1. e.req \in Reqs /\ "ldapauth" \in Holders
    BY <1>2 DEF Ids, Holders, LdapEntries, LdapQueries, LdapAnswers
  <2> QED
    BY <1>2, <2>1, ReleaseTable DEF Drop
<1> QED
  BY <1>1, <1>2

\* A request of ldap that is deleted does not wait for ldap any more.
LEMMA ReleaseEntryExact ==
    ASSUME NEW q \in Table, NEW e \in LdapEntries, NEW S, NEW L,
           Exact(q, S, L), Sound(Drop(q, e))
    PROVE  Exact(Drop(q, e), S, L \ {e.req})
<1>1. CASE e.req = None
  <2>1. Drop(q, e) = q
    BY <1>1 DEF Drop
  <2> QED
    BY <1>1, <2>1, NoneAssumption DEF Exact
<1>2. CASE e.req # None
  <2>1. e.req \in Reqs /\ "ldapauth" \in Holders
    BY <1>2 DEF Ids, Holders, LdapEntries, LdapQueries, LdapAnswers
  <2>2. Drop(q, e) = Release(q, e.req, "ldapauth")
    BY <1>2 DEF Drop
  <2>3. Exact(Release(q, e.req, "ldapauth"), S, L \ {e.req})
    BY <2>1, <2>2, ReleaseExact
  <2> QED
    BY <2>2, <2>3
<1> QED
  BY <1>1, <1>2

\* The loop that deletes requests of ldap.
LEMMA ReleaseStages ==
    ASSUME NEW q \in Table, NEW z \in Seq(LdapEntries)
    PROVE  \E d : /\ d[0] = q /\ d[Len(z)] = ReleaseAll(q, z)
                  /\ \A i \in 0..Len(z) : d[i] \in Table
                  /\ \A i \in 1..Len(z) : d[i] = Drop(d[i - 1], z[i])
<1> DEFINE n == Len(z)
           G == [p \in Table \X LdapEntries |-> Drop(p[1], p[2])]
           Loop(f) == f = [s \in SUBSET (1..n) |-> IF s = {} THEN q
                             ELSE Drop(f[s \ {Max(s)}], z[Max(s)])]
           I == CHOOSE f : Loop(f)
<1>1. n \in Nat /\ z \in [1..n -> LdapEntries] /\ DOMAIN z = 1..n
  OBVIOUS
<1>2. G \in [Table \X LdapEntries -> Table] /\ q \in Table
  BY ReleaseEntry
<1>3. PICK f \in [SUBSET (1..n) -> Table] : IsFold(f, n, q, G, z)
  <2> HIDE DEF G, n
  <2> QED
    BY <1>1, <1>2, FoldExists
<1>4. ASSUME NEW s \in SUBSET (1..n), s # {}
      PROVE  f[s] = Drop(f[s \ {Max(s)}], z[Max(s)])
  <2>1. Max(s) \in 1..n
    BY <1>1, <1>4, MaxOf
  <2>2. f[s \ {Max(s)}] \in Table /\ z[Max(s)] \in LdapEntries
    BY <1>1, <2>1
  <2> QED
    BY <1>3, <1>4, <2>2 DEF IsFold
<1>5. Loop(f)
  BY <1>3, <1>4 DEF IsFold
<1>6. Loop(I)
  BY <1>5
<1>7. ReleaseAll(q, z) = I[1..n]
  BY <1>1 DEF ReleaseAll, FoldLeft, MapThenFoldSet
<1>8. ASSUME NEW i \in 1..n
      PROVE  I[1..i] = Drop(I[1..(i - 1)], z[i])
  <2>1. 1..i \in SUBSET (1..n) /\ i \in Nat /\ i # 0
    BY <1>1
  <2> HIDE DEF I
  <2> QED
    BY <1>6, <2>1, FirstOf
<1>9. I[1..0] = q
  <2>1. 1..0 = {}
    OBVIOUS
  <2> HIDE DEF I
  <2> QED
    BY <1>6, <2>1
<1> DEFINE d == [i \in 0..n |-> I[1..i]]
<1> HIDE DEF I
<1>10. d[0] = q /\ d[n] = ReleaseAll(q, z)
       /\ \A i \in 1..n : d[i] = Drop(d[i - 1], z[i])
  BY <1>1, <1>7, <1>8, <1>9
<1> HIDE DEF d
<1>11. \A i \in 0..n : d[i] \in Table
  <2>1. ASSUME NEW i \in 1..n, d[i - 1] \in Table PROVE d[i] \in Table
    <3>1. G[<<d[i - 1], z[i]>>] \in Table
      BY <1>1, <1>2, <2>1
    <3> QED
      BY <1>1, <1>10, <2>1, <3>1
  <2> HIDE DEF n
  <2> QED
    BY <1>1, <1>2, <1>10, <2>1, Stages
<1> QED
  BY <1>10, <1>11

\* A request that ldap deletes does not wait for it any more.
LEMMA ReleaseAllExact ==
    ASSUME NEW q \in Table, NEW z \in Seq(LdapEntries), NEW S, NEW L, Exact(q, S, L)
    PROVE  /\ ReleaseAll(q, z) \in Table
           /\ Sound(ReleaseAll(q, z)) =>
                 Sound(q) /\ Exact(ReleaseAll(q, z), S, L \ ReqsIn(z))
<1>1. PICK d : /\ d[0] = q /\ d[Len(z)] = ReleaseAll(q, z)
               /\ \A i \in 0..Len(z) : d[i] \in Table
               /\ \A i \in 1..Len(z) : d[i] = Drop(d[i - 1], z[i])
  BY ReleaseStages
<1>2. Len(z) \in Nat /\ DOMAIN z = 1..Len(z) /\ \A i \in 1..Len(z) : z[i] \in LdapEntries
  OBVIOUS
<1> DEFINE Done(i) == {z[j].req : j \in 1..i}
           Good(i) == Sound(d[i]) =>
                         Sound(q) /\ Exact(d[i], S, L \ Done(i))
           T == {i \in 0..Len(z) : Good(i)}
<1>3. Good(0)
  <2>1. Done(0) = {}
    OBVIOUS
  <2>2. S = S /\ L \ Done(0) = L
    BY <2>1
  <2> HIDE DEF Done
  <2> QED
    BY <1>1, <2>2
<1>4. ASSUME NEW i \in 1..Len(z), Good(i - 1) PROVE Good(i)
  <2>1. d[i - 1] \in Table /\ d[i] = Drop(d[i - 1], z[i]) /\ z[i] \in LdapEntries
    BY <1>1, <1>2
  <2>2. L \ Done(i) = (L \ Done(i - 1)) \ {z[i].req}
    <3>1. 1..i = 1..(i - 1) \cup {i}
      OBVIOUS
    <3> QED
      BY <3>1
  <2> HIDE DEF Done
  <2>3. SUFFICES ASSUME Sound(d[i]) PROVE Sound(q) /\ Exact(d[i], S, L \ Done(i))
    OBVIOUS
  <2>4. Sound(d[i - 1])
    BY <2>1, <2>3, ReleaseEntry
  <2>5. Exact(d[i - 1], S, L \ Done(i - 1))
    BY <1>4, <2>4
  <2>6. Exact(d[i], S, (L \ Done(i - 1)) \ {z[i].req})
    BY <2>1, <2>3, <2>5, ReleaseEntryExact
  <2> QED
    BY <1>4, <2>2, <2>4, <2>6
<1>5. Good(Len(z))
  <2> HIDE DEF Good
  <2>1. 0 \in T /\ \A i \in 1..Len(z) : i - 1 \in T => i \in T
    BY <1>2, <1>3, <1>4
  <2> HIDE DEF T
  <2>2. \A i \in 0..Len(z) : i \in T
    BY <1>2, <2>1, UpTo
  <2> USE DEF T
  <2> QED
    BY <1>2, <2>2
<1>6. Exact(d[Len(z)], S, L \ Done(Len(z))) =>
         Exact(d[Len(z)], S, L \ ReqsIn(z))
  BY <1>2, NoneAssumption DEF ReqsIn, Exact
<1> HIDE DEF Done
<1> QED
  BY <1>1, <1>2, <1>5, <1>6

-----------------------------------------------------------------------------
(* Queues.                                                                 *)

\* What is left of a queue without R: elements of the queue that are not in R,
\* the first of the queue first if it is not in R.
LEMMA WithoutFacts ==
    ASSUME NEW X, NEW queue \in Seq(X), NEW R
    PROVE  /\ Without(queue, R) \in Seq(X)
           /\ \A j \in DOMAIN Without(queue, R) : Without(queue, R)[j] \in X \ R
           /\ queue = << >> => Without(queue, R) = << >>
           /\ queue # << >> /\ queue[1] \notin R =>
                 Without(queue, R) # << >> /\ Without(queue, R)[1] = queue[1]
<1>0. PICK w : w = Without(queue, R)
  OBVIOUS
<1>1. PICK d : /\ d[0] = << >> /\ d[Len(queue)] = Without(queue, R)
               /\ \A i \in 0..Len(queue) : d[i] \in Seq(X)
               /\ \A i \in 1..Len(queue) : d[i] = WithoutOne(d[i - 1], queue[i], R)
  BY <1>0, WithoutStages
<1> DEFINE Good(t, i) == /\ t \in Seq(X) /\ \A j \in DOMAIN t : t[j] \in X \ R
                         /\ i # 0 /\ queue[1] \notin R => t # << >> /\ t[1] = queue[1]
           T == {i \in 0..Len(queue) : Good(d[i], i)}
<1>2. 0 \in T
  BY <1>1
<1>3. ASSUME NEW i \in 1..Len(queue), i - 1 \in T PROVE i \in T
  <2>1. d[i - 1] \in Seq(X) /\ Good(d[i - 1], i - 1) /\ queue[i] \in X /\ i \in 0..Len(queue)
        /\ d[i] = IF queue[i] \in R THEN d[i - 1] ELSE Append(d[i - 1], queue[i])
    BY <1>1, <1>3 DEF WithoutOne
  <2>2. CASE queue[i] \in R
    <3>1. i = 1 \/ i - 1 # 0
      OBVIOUS
    <3> QED
      BY <2>1, <2>2, <3>1
  <2>3. CASE queue[i] \notin R
    <3> DEFINE u == d[i - 1]
    <3>1. d[i] = Append(u, queue[i]) /\ u \in Seq(X) /\ \A j \in DOMAIN u : u[j] \in X \ R
      BY <2>1, <2>3
    <3>2. i = 1 => u = << >> /\ queue[i] = queue[1]
      BY <1>1
    <3>3. i # 1 => (queue[1] \notin R => u # << >> /\ u[1] = queue[1])
      BY <2>1
    <3> HIDE DEF u
    <3>4. Len(d[i]) = Len(u) + 1 /\ d[i] \in Seq(X) /\ d[i][Len(u) + 1] = queue[i]
          /\ \A j \in 1..Len(u) : d[i][j] = u[j]
      <4> DEFINE v == queue[i]
                 t == Append(u, v)
      <4>1. v \in X
        OBVIOUS
      <4> HIDE DEF v
      <4>2. Len(t) = Len(u) + 1 /\ t \in Seq(X) /\ t[Len(u) + 1] = v
            /\ \A j \in 1..Len(u) : t[j] = u[j]
        BY <3>1, <4>1
      <4> HIDE DEF t
      <4>3. d[i] = t
        BY <3>1 DEF t, v
      <4> QED
        BY <4>2, <4>3 DEF v
    <3>5. \A j \in DOMAIN d[i] : d[i][j] \in X \ R
      <4>1. \A j \in DOMAIN d[i] : j \in 1..Len(u) \/ j = Len(u) + 1
        BY <3>1, <3>4
      <4> QED
        BY <2>1, <2>3, <3>1, <3>4, <4>1
    <3>6. queue[1] \notin R => d[i] # << >> /\ d[i][1] = queue[1]
      <4>1. CASE i = 1
        <5>1. Len(u) = 0 /\ Len(d[i]) = 1 /\ d[i][1] = queue[1]
          BY <3>2, <3>4, <4>1
        <5> QED
          BY <5>1
      <4>2. CASE i # 1
        <5>1. queue[1] \notin R => Len(u) \in Nat /\ Len(u) # 0 /\ u[1] = queue[1]
          BY <3>1, <3>3, <4>2
        <5>2. queue[1] \notin R => 1 \in 1..Len(u) /\ Len(d[i]) # 0
          BY <3>1, <3>4, <5>1
        <5> QED
          BY <3>4, <5>1, <5>2
      <4> QED
        BY <4>1, <4>2
    <3> QED
      BY <2>1, <3>4, <3>5, <3>6
  <2> QED
    BY <2>2, <2>3
<1>4. Len(queue) \in T
  <2> HIDE DEF T
  <2>1. Len(queue) \in Nat
    OBVIOUS
  <2>2. \A i \in 0..Len(queue) : i \in T
    BY <1>2, <1>3, <2>1, UpTo
  <2> QED
    BY <2>1, <2>2
<1> QED
  BY <1>1, <1>4

\* A queue of mysql to which an element is added.
LEMMA AppendIds ==
    ASSUME NEW s \in Seq(Ids), NEW e \in Ids
    PROVE  /\ Append(s, e) \in Seq(Ids) /\ Append(s, e) # << >>
           /\ s # << >> => Head(Append(s, e)) = Head(s)
           /\ IdsIn(Append(s, e)) = IdsIn(s) \cup ({e} \ {None})
           /\ OnceId(s) /\ e \notin IdsIn(s) => OnceId(Append(s, e))
<1> DEFINE t == Append(s, e)
<1>1. t \in Seq(Ids) /\ t # << >> /\ Len(t) = Len(s) + 1 /\ t[Len(s) + 1] = e
      /\ DOMAIN t = 1..(Len(s) + 1) /\ DOMAIN s = 1..Len(s) /\ Len(s) \in Nat
      /\ \A i \in 1..Len(s) : t[i] = s[i]
  OBVIOUS
<1>2. s # << >> => Head(t) = Head(s)
  OBVIOUS
<1> HIDE DEF t
<1>3. DOMAIN t = DOMAIN s \cup {Len(s) + 1}
  BY <1>1
<1>4. IdsIn(t) = IdsIn(s) \cup ({e} \ {None})
  BY <1>1, <1>3 DEF IdsIn
<1>5. OnceId(s) /\ e \notin IdsIn(s) => OnceId(t)
  BY <1>1, <1>3 DEF IdsIn, OnceId
<1> QED
  BY <1>1, <1>2, <1>4, <1>5 DEF t

\* A queue of mysql that loses its first element.
LEMMA TailIds ==
    ASSUME NEW s \in Seq(Ids), s # << >>, OnceId(s)
    PROVE  /\ Tail(s) \in Seq(Ids) /\ OnceId(Tail(s)) /\ Head(s) \in Ids
           /\ IdsIn(Tail(s)) = IdsIn(s) \ {Head(s)}
<1> DEFINE t == Tail(s)
<1>1. t \in Seq(Ids) /\ Len(t) = Len(s) - 1 /\ Head(s) = s[1] /\ Len(s) \in Nat \ {0}
      /\ DOMAIN t = 1..(Len(s) - 1) /\ DOMAIN s = 1..Len(s)
      /\ (\A i \in 1..(Len(s) - 1) : t[i] = s[i + 1]) /\ Head(s) \in Ids
  OBVIOUS
<1> HIDE DEF t
<1>2. \A i \in DOMAIN t : i + 1 \in DOMAIN s /\ i + 1 # 1 /\ t[i] = s[i + 1]
  BY <1>1
<1>3. \A i \in DOMAIN s : i = 1 \/ (i - 1 \in DOMAIN t /\ t[i - 1] = s[i])
  BY <1>1
<1>4. OnceId(t)
  <2>1. \A i, j \in DOMAIN t : i + 1 = j + 1 => i = j
    BY <1>1
  <2> QED
    BY <1>2, <2>1 DEF OnceId
<1>5. 1 \in DOMAIN s
  BY <1>1
<1>6. IdsIn(t) \subseteq IdsIn(s) \ {Head(s)}
  BY <1>1, <1>2, <1>5 DEF OnceId, IdsIn
<1>7. IdsIn(s) \ {Head(s)} \subseteq IdsIn(t)
  BY <1>1, <1>3, <1>5 DEF IdsIn
<1> QED
  BY <1>1, <1>4, <1>6, <1>7 DEF t

\* The same of a queue of ldap or of answers.
LEMMA AppendReqs ==
    ASSUME NEW X, NEW s \in Seq(X), NEW e \in X
    PROVE  /\ Append(s, e) \in Seq(X) /\ Append(s, e) # << >>
           /\ ReqsIn(Append(s, e)) = ReqsIn(s) \cup ({e.req} \ {None})
           /\ OnceReq(s) /\ e.req \notin ReqsIn(s) => OnceReq(Append(s, e))
<1> DEFINE t == Append(s, e)
<1>1. t \in Seq(X) /\ t # << >> /\ Len(t) = Len(s) + 1 /\ t[Len(s) + 1] = e
      /\ DOMAIN t = 1..(Len(s) + 1) /\ DOMAIN s = 1..Len(s) /\ Len(s) \in Nat
      /\ \A i \in 1..Len(s) : t[i] = s[i]
  OBVIOUS
<1> HIDE DEF t
<1>3. DOMAIN t = DOMAIN s \cup {Len(s) + 1}
  BY <1>1
<1>4. ReqsIn(t) = ReqsIn(s) \cup ({e.req} \ {None})
  BY <1>1, <1>3 DEF ReqsIn
<1>5. OnceReq(s) /\ e.req \notin ReqsIn(s) => OnceReq(t)
  BY <1>1, <1>3 DEF ReqsIn, OnceReq
<1> QED
  BY <1>1, <1>4, <1>5 DEF t

\* A queue of ldap or of answers that loses its first element.
LEMMA TailReqs ==
    ASSUME NEW X, NEW s \in Seq(X), s # << >>, OnceReq(s)
    PROVE  /\ Tail(s) \in Seq(X) /\ OnceReq(Tail(s)) /\ Head(s) \in X
           /\ ReqsIn(Tail(s)) = ReqsIn(s) \ {Head(s).req}
           /\ Head(s).req \in ReqsIn(s) \cup {None}
<1> DEFINE t == Tail(s)
<1>1. t \in Seq(X) /\ Len(t) = Len(s) - 1 /\ Head(s) = s[1] /\ Len(s) \in Nat \ {0}
      /\ DOMAIN t = 1..(Len(s) - 1) /\ DOMAIN s = 1..Len(s)
      /\ (\A i \in 1..(Len(s) - 1) : t[i] = s[i + 1]) /\ Head(s) \in X
  OBVIOUS
<1> HIDE DEF t
<1>2. \A i \in DOMAIN t : i + 1 \in DOMAIN s /\ i + 1 # 1 /\ t[i] = s[i + 1]
  BY <1>1
<1>3. \A i \in DOMAIN s : i = 1 \/ (i - 1 \in DOMAIN t /\ t[i - 1] = s[i])
  BY <1>1
<1>4. OnceReq(t)
  <2>1. \A i, j \in DOMAIN t : i + 1 = j + 1 => i = j
    BY <1>1
  <2> QED
    BY <1>2, <2>1 DEF OnceReq
<1>5. 1 \in DOMAIN s
  BY <1>1
<1>6. ReqsIn(t) \subseteq ReqsIn(s) \ {Head(s).req}
  BY <1>1, <1>2, <1>5 DEF OnceReq, ReqsIn
<1>7. ReqsIn(s) \ {Head(s).req} \subseteq ReqsIn(t)
  BY <1>1, <1>3, <1>5 DEF ReqsIn
<1>8. Head(s).req \in ReqsIn(s) \cup {None}
  BY <1>1, <1>5 DEF ReqsIn
<1> QED
  BY <1>1, <1>4, <1>6, <1>7, <1>8 DEF t

\* An answer that is ready is added, but one to another module only once.
LEMMA KeepReqs ==
    ASSUME NEW X, NEW s \in Seq(X), NEW a \in X, OnceReq(s), a.req \notin ReqsIn(s)
    PROVE  /\ Keep(s, a) \in Seq(X) /\ OnceReq(Keep(s, a))
           /\ ReqsIn(Keep(s, a)) = ReqsIn(s) \cup ({a.req} \ {None})
<1>1. CASE Keep(s, a) = s /\ a.req = None
  BY <1>1
<1>2. CASE Keep(s, a) = Append(s, a)
  BY <1>2, AppendReqs
<1> QED
  BY <1>1, <1>2 DEF Keep

\* A queue that is empty.
LEMMA EmptyQueue ==
    /\ IdsIn(<< >>) = {} /\ OnceId(<< >>) /\ ReqsIn(<< >>) = {} /\ OnceReq(<< >>)
BY DEF IdsIn, OnceId, ReqsIn, OnceReq
\* A queue of mysql in which only other modules have queries.
LEMMA OthersId ==
    ASSUME NEW s, \A i \in DOMAIN s : s[i] = None
    PROVE  IdsIn(s) = {} /\ OnceId(s)
BY DEF IdsIn, OnceId
\* The same of ldap.
LEMMA OthersReq ==
    ASSUME NEW s, \A i \in DOMAIN s : s[i].req = None
    PROVE  ReqsIn(s) = {} /\ OnceReq(s)
BY DEF ReqsIn, OnceReq

-----------------------------------------------------------------------------
(* Answers of ldap, each of which may put the next query in the queue.     *)

Books == [q : Table, l : LdapType]

\* A query that is queued, and the thread of ldap that is woken.
LEMMA QueueFacts ==
    ASSUME NEW l \in LdapType, NEW r \in Ids, NEW op \in LdapOps
    PROVE  /\ Queue(l, r, op) \in LdapType
           /\ Queue(l, r, op) = [l EXCEPT !.queries = Queue(l, r, op).queries,
                                          !.pc = Queue(l, r, op).pc]
           /\ Queue(l, r, op).queries # << >>
           /\ Queue(l, r, op).pc = IF l.pc = "wait" THEN "send" ELSE l.pc
           /\ ReqsIn(Queue(l, r, op).queries) = ReqsIn(l.queries) \cup ({r} \ {None})
           /\ OnceReq(l.queries) /\ r \notin ReqsIn(l.queries) => OnceReq(Queue(l, r, op).queries)
<1> DEFINE e == [req |-> r, op |-> op]
           s == Append(l.queries, e)
           p == IF l.pc = "wait" THEN "send" ELSE l.pc
<1>1. e \in LdapQueries /\ e.req = r
  BY DEF LdapQueries
<1>2. l.queries \in Seq(LdapQueries)
        /\ l.pc \in {"top", "check", "wait", "send", "process", "exit"}
  BY DEF LdapType
<1>3. Queue(l, r, op) = [l EXCEPT !.queries = s, !.pc = p]
  BY DEF Queue
<1> HIDE DEF e
<1>4. s \in Seq(LdapQueries) /\ s # << >> /\ ReqsIn(s) = ReqsIn(l.queries) \cup ({r} \ {None})
      /\ (OnceReq(l.queries) /\ r \notin ReqsIn(l.queries) => OnceReq(s))
  BY <1>1, <1>2, AppendReqs
<1>5. p \in {"top", "check", "wait", "send", "process", "exit"}
  BY <1>2
<1> HIDE DEF s, p
<1> DEFINE k == [l EXCEPT !.queries = s, !.pc = p]
<1>6. k \in LdapType /\ k.queries = s /\ k.pc = p
  BY <1>4, <1>5 DEF LdapType
<1> HIDE DEF k
<1>7. Queue(l, r, op) = k
  BY <1>3 DEF k
<1> QED
  BY <1>3, <1>4, <1>6, <1>7 DEF p, k

\* What one answer of ldap does: it asks for the next query, or the request is
\* told and released.
LEMMA AnsweredRow ==
    ASSUME NEW w \in Books, NEW a \in LdapAnswers
    PROVE  /\ Answered(w, a) \in Books
           /\ \/ /\ a.req = None /\ Answered(w, a) = w
              \/ /\ a.req \in Reqs /\ Answered(w, a).q = w.q
                 /\ \E op \in LdapOps : Answered(w, a).l = Queue(w.l, a.req, op)
              \/ /\ a.req \in Reqs /\ Answered(w, a).l = w.l
                 /\ \/ Answered(w, a).q = Release(w.q, a.req, "ldapauth")
                    \/ Answered(w, a).q = Release(Success(w.q, a.req), a.req, "ldapauth")
<1>1. w.q \in Table /\ w.l \in LdapType /\ w = [q |-> w.q, l |-> w.l]
  BY DEF Books
<1>2. a.req \in Ids /\ (a.req # None => a.req \in Reqs)
  BY DEF LdapAnswers, Ids
<1>3. CASE a.req = None
  BY <1>3 DEF Answered
<1>4. CASE a.req # None /\ Asks(a)
  <2> DEFINE l2 == Queue(w.l, a.req, AfterOp(a.op))
  <2>1. AfterOp(a.op) \in LdapOps
    BY DEF AfterOp, LdapOps
  <2>2. l2 \in LdapType
    BY <1>1, <1>2, <2>1, QueueFacts
  <2>3. Answered(w, a) = [w EXCEPT !.l = l2]
    <3>1. ~Right(a)
      BY <1>4 DEF Asks, Right
    <3> QED
      BY <1>4, <3>1 DEF Answered
  <2> HIDE DEF l2
  <2>4. Answered(w, a) \in Books /\ Answered(w, a).q = w.q /\ Answered(w, a).l = l2
    BY <1>1, <2>2, <2>3 DEF Books
  <2> QED
    BY <1>2, <1>4, <2>1, <2>4 DEF l2
<1>5. CASE a.req # None /\ ~Asks(a)
  <2> DEFINE t == IF Right(a) THEN Release(Success(w.q, a.req), a.req, "ldapauth")
                  ELSE Release(w.q, a.req, "ldapauth")
  <2>1. a.req \in Reqs /\ "ldapauth" \in Holders
    BY <1>2, <1>5 DEF Holders
  <2>2. t \in Table
    BY <1>1, <2>1, SuccessTable, ReleaseTable
  <2>3. Answered(w, a) = [w EXCEPT !.q = t]
    BY <1>5 DEF Answered
  <2>4. t = Release(w.q, a.req, "ldapauth") \/ t = Release(Success(w.q, a.req), a.req, "ldapauth")
    OBVIOUS
  <2> HIDE DEF t
  <2>5. Answered(w, a) \in Books /\ Answered(w, a).l = w.l /\ Answered(w, a).q = t
    BY <1>1, <2>2, <2>3 DEF Books
  <2> QED
    BY <2>1, <2>4, <2>5
<1> QED
  BY <1>3, <1>4, <1>5

\* The loop that handles the answers of ldap.
LEMMA AnsweredStages ==
    ASSUME NEW w \in Books, NEW z \in Seq(LdapAnswers)
    PROVE  \E d : /\ d[0] = w /\ d[Len(z)] = FoldLeft(Answered, w, z)
                  /\ \A i \in 0..Len(z) : d[i] \in Books
                  /\ \A i \in 1..Len(z) : d[i] = Answered(d[i - 1], z[i])
<1> DEFINE n == Len(z)
           G == [p \in Books \X LdapAnswers |-> Answered(p[1], p[2])]
           Loop(f) == f = [s \in SUBSET (1..n) |-> IF s = {} THEN w
                             ELSE Answered(f[s \ {Max(s)}], z[Max(s)])]
           I == CHOOSE f : Loop(f)
<1>1. n \in Nat /\ z \in [1..n -> LdapAnswers] /\ DOMAIN z = 1..n
  OBVIOUS
<1>2. G \in [Books \X LdapAnswers -> Books] /\ w \in Books
  BY AnsweredRow
<1>3. PICK f \in [SUBSET (1..n) -> Books] : IsFold(f, n, w, G, z)
  <2> HIDE DEF G, n
  <2> QED
    BY <1>1, <1>2, FoldExists
<1>4. ASSUME NEW s \in SUBSET (1..n), s # {}
      PROVE  f[s] = Answered(f[s \ {Max(s)}], z[Max(s)])
  <2>1. Max(s) \in 1..n
    BY <1>1, <1>4, MaxOf
  <2>2. f[s \ {Max(s)}] \in Books /\ z[Max(s)] \in LdapAnswers
    BY <1>1, <2>1
  <2> QED
    BY <1>3, <1>4, <2>2 DEF IsFold
<1>5. Loop(f)
  BY <1>3, <1>4 DEF IsFold
<1>6. Loop(I)
  BY <1>5
<1>7. FoldLeft(Answered, w, z) = I[1..n]
  BY <1>1 DEF FoldLeft, MapThenFoldSet
<1>8. ASSUME NEW i \in 1..n
      PROVE  I[1..i] = Answered(I[1..(i - 1)], z[i])
  <2>1. 1..i \in SUBSET (1..n) /\ i \in Nat /\ i # 0
    BY <1>1
  <2> HIDE DEF I
  <2> QED
    BY <1>6, <2>1, FirstOf
<1>9. I[1..0] = w
  <2>1. 1..0 = {}
    OBVIOUS
  <2> HIDE DEF I
  <2> QED
    BY <1>6, <2>1
<1> DEFINE d == [i \in 0..n |-> I[1..i]]
<1> HIDE DEF I
<1>10. d[0] = w /\ d[n] = FoldLeft(Answered, w, z)
       /\ \A i \in 1..n : d[i] = Answered(d[i - 1], z[i])
  BY <1>1, <1>7, <1>8, <1>9
<1> HIDE DEF d
<1>11. \A i \in 0..n : d[i] \in Books
  <2>1. ASSUME NEW i \in 1..n, d[i - 1] \in Books PROVE d[i] \in Books
    <3>1. G[<<d[i - 1], z[i]>>] \in Books
      BY <1>1, <1>2, <2>1
    <3> QED
      BY <1>1, <1>10, <2>1, <3>1
  <2> HIDE DEF n
  <2> QED
    BY <1>1, <1>2, <1>10, <2>1, Stages
<1> QED
  BY <1>10, <1>11

\* Only the queue of ldap has changed, and a thread that slept has been woken.
SameLdap(k, l) ==
    /\ l.up = k.up /\ l.batch = k.batch /\ l.done = k.done /\ l.byte = k.byte
    /\ l.exit = k.exit /\ l.lost = k.lost
    /\ l.pc = k.pc \/ (k.pc = "wait" /\ l.pc = "send")
    /\ l.queries = k.queries \/ l.pc # "wait"

\* What is between w and v when the answers for D have been handled: a request
\* of D waits for ldap if it is in its queue again.
Handled(w, v, D, S, L) ==
    /\ v \in Books /\ OnceReq(v.l.queries)
    /\ ReqsIn(w.l.queries) \subseteq ReqsIn(v.l.queries)
    /\ ReqsIn(v.l.queries) \subseteq ReqsIn(w.l.queries) \cup D
    /\ SameLdap(w.l, v.l)
    /\ Sound(v.q) => Sound(w.q) /\ Exact(v.q, S, (L \ D) \cup ReqsIn(v.l.queries))

\* An answer of ldap for a request that has not been answered.
LEMMA AnsweredOne ==
    ASSUME NEW w \in Books, NEW v, NEW D, NEW S, NEW L, Handled(w, v, D, S, L),
           NEW a \in LdapAnswers, a.req \notin D, a.req \notin ReqsIn(w.l.queries),
           a.req \in L \cup {None}
    PROVE  Handled(w, Answered(v, a), D \cup ({a.req} \ {None}), S, L)
<1> DEFINE u == Answered(v, a)
           E == D \cup ({a.req} \ {None})
           Q == ReqsIn(v.l.queries)
<1>1. v \in Books /\ v.q \in Table /\ v.l \in LdapType /\ OnceReq(v.l.queries)
      /\ ReqsIn(w.l.queries) \subseteq Q /\ Q \subseteq ReqsIn(w.l.queries) \cup D
      /\ SameLdap(w.l, v.l)
      /\ (Sound(v.q) => Sound(w.q) /\ Exact(v.q, S, (L \ D) \cup Q))
  BY DEF Handled, Books
<1>2. u \in Books
  BY <1>1, AnsweredRow
<1>3. a.req \notin Q /\ a.req \in Ids
  BY <1>1 DEF LdapAnswers
<1>4. ASSUME a.req = None, u = v PROVE Handled(w, u, E, S, L)
  <2>1. E = D
    BY <1>4
  <2> HIDE DEF E, u
  <2> QED
    BY <1>4, <2>1
<1>5. ASSUME a.req \in Reqs, u.q = v.q, NEW op \in LdapOps, u.l = Queue(v.l, a.req, op)
      PROVE  Handled(w, u, E, S, L)
  <2>1. u.l.queries # << >> /\ u.l.pc = (IF v.l.pc = "wait" THEN "send" ELSE v.l.pc)
        /\ ReqsIn(u.l.queries) = Q \cup {a.req} /\ OnceReq(u.l.queries)
    <3> DEFINE k == v.l
               r == a.req
    <3>1. k \in LdapType /\ r \in Ids /\ r \in Reqs /\ r \notin ReqsIn(k.queries) /\ OnceReq(k.queries)
      BY <1>1, <1>3, <1>5
    <3>2. u.l = Queue(k, r, op) /\ Q = ReqsIn(k.queries)
      BY <1>5
    <3> HIDE DEF k, r, u, Q
    <3>3. op \in LdapOps
      OBVIOUS
    <3>4. Queue(k, r, op).queries # << >> /\ OnceReq(Queue(k, r, op).queries)
          /\ ReqsIn(Queue(k, r, op).queries) = ReqsIn(k.queries) \cup ({r} \ {None})
      BY <3>1, <3>3, QueueFacts
    <3>5. Queue(k, r, op).pc = IF k.pc = "wait" THEN "send" ELSE k.pc
      BY <3>1 DEF Queue, LdapType
    <3> QED
      BY <3>1, <3>2, <3>4, <3>5, NoneAssumption DEF k, r
  <2>2. u.l.up = v.l.up /\ u.l.batch = v.l.batch /\ u.l.done = v.l.done /\ u.l.byte = v.l.byte
        /\ u.l.exit = v.l.exit /\ u.l.lost = v.l.lost
    BY <1>1, <1>5 DEF Queue, LdapType
  <2> HIDE DEF u
  <2>3. SameLdap(w.l, u.l)
    BY <1>1, <2>1, <2>2 DEF SameLdap
  <2>4. E = D \cup {a.req}
    BY <1>5, NoneAssumption
  <2>5. (L \ D) \cup Q = (L \ E) \cup ReqsIn(u.l.queries)
    BY <1>3, <1>5, <2>1, <2>4, NoneAssumption
  <2> HIDE DEF E, Q
  <2>6. Sound(u.q) => Sound(w.q) /\ Exact(u.q, S, (L \ E) \cup ReqsIn(u.l.queries))
    BY <1>1, <1>5, <2>5
  <2> QED
    BY <1>1, <1>2, <2>1, <2>3, <2>4, <2>6 DEF Handled, Q
<1>6. ASSUME a.req \in Reqs, u.l = v.l, NEW t \in Table, Sound(t) => Sound(v.q),
             \A T : Exact(v.q, S, T) => Exact(t, S, T), u.q = Release(t, a.req, "ldapauth")
      PROVE  Handled(w, u, E, S, L)
  <2>1. "ldapauth" \in Holders
    BY DEF Holders
  <2>2. Sound(u.q) => Sound(t)
    BY <1>6, <2>1, ReleaseTable
  <2>3. (L \ E) \cup Q = ((L \ D) \cup Q) \ {a.req}
    BY <1>3, <1>6, NoneAssumption
  <2>4. ASSUME Sound(u.q)
        PROVE  Sound(w.q) /\ Exact(u.q, S, (L \ E) \cup Q)
    <3>1. Sound(v.q) /\ Sound(w.q) /\ Exact(v.q, S, (L \ D) \cup Q)
      BY <1>1, <1>6, <2>2, <2>4
    <3>2. Exact(t, S, (L \ D) \cup Q)
      BY <1>6, <3>1
    <3>3. Sound(Release(t, a.req, "ldapauth"))
      BY <1>6, <2>4
    <3> HIDE DEF E, Q, u
    <3>4. Exact(Release(t, a.req, "ldapauth"), S, ((L \ D) \cup Q) \ {a.req})
      BY <1>6, <2>1, <3>2, <3>3, ReleaseExact
    <3> QED
      BY <1>6, <2>3, <3>1, <3>4
  <2>5. D \subseteq E /\ ReqsIn(u.l.queries) = Q
    BY <1>6
  <2> HIDE DEF E, u
  <2> QED
    BY <1>1, <1>2, <1>6, <2>4, <2>5 DEF Handled
<1>7. ASSUME a.req \in Reqs, u.l = v.l,
             u.q = Release(Success(v.q, a.req), a.req, "ldapauth")
      PROVE  Handled(w, u, E, S, L)
  <2>1. \A T : Exact(v.q, S, T) => Exact(Success(v.q, a.req), S, T)
    BY <1>1, <1>7, SuccessExact
  <2>2. Success(v.q, a.req) \in Table
        /\ (Sound(Success(v.q, a.req)) => Sound(v.q))
    BY <1>1, <1>7, SuccessTable
  <2> HIDE DEF u, E
  <2> QED
    BY <1>6, <1>7, <2>1, <2>2
<1>8. ASSUME a.req \in Reqs, u.l = v.l, u.q = Release(v.q, a.req, "ldapauth")
      PROVE  Handled(w, u, E, S, L)
  <2> HIDE DEF u, E
  <2> QED
    BY <1>1, <1>6, <1>8
<1>9. \/ a.req = None /\ u = v
      \/ a.req \in Reqs /\ u.q = v.q /\ \E op \in LdapOps : u.l = Queue(v.l, a.req, op)
      \/ /\ a.req \in Reqs /\ u.l = v.l
         /\ \/ u.q = Release(v.q, a.req, "ldapauth")
            \/ u.q = Release(Success(v.q, a.req), a.req, "ldapauth")
  BY <1>1, AnsweredRow
<1> HIDE DEF u, E
<1>10. Handled(w, u, E, S, L)
  BY <1>4, <1>5, <1>7, <1>8, <1>9
<1> QED
  BY <1>10 DEF u, E

\* The answers of ldap, each for another request, and all for requests that wait
\* for ldap.
LEMMA AnsweredAll ==
    ASSUME NEW w \in Books, NEW z \in Seq(LdapAnswers), NEW S, NEW L,
           OnceReq(z), OnceReq(w.l.queries), Exact(w.q, S, L),
           ReqsIn(w.l.queries) \cap ReqsIn(z) = {},
           ReqsIn(w.l.queries) \subseteq L, ReqsIn(z) \subseteq L
    PROVE  /\ Handled(w, FoldLeft(Answered, w, z), ReqsIn(z), S, L)
           /\ z = << >> => FoldLeft(Answered, w, z) = w
<1>1. PICK d : /\ d[0] = w /\ d[Len(z)] = FoldLeft(Answered, w, z)
               /\ \A i \in 0..Len(z) : d[i] \in Books
               /\ \A i \in 1..Len(z) : d[i] = Answered(d[i - 1], z[i])
  BY AnsweredStages
<1>2. Len(z) \in Nat /\ DOMAIN z = 1..Len(z) /\ \A i \in 1..Len(z) : z[i] \in LdapAnswers
  OBVIOUS
<1> DEFINE D(i) == {z[j].req : j \in 1..i} \ {None}
           Good(i) == Handled(w, d[i], D(i), S, L)
           T == {i \in 0..Len(z) : Good(i)}
<1>3. Good(0)
  <2>1. D(0) = {}
    OBVIOUS
  <2>2. SameLdap(w.l, w.l)
    BY DEF SameLdap
  <2>3. (L \ {}) \cup ReqsIn(w.l.queries) = L
    OBVIOUS
  <2> HIDE DEF D
  <2> QED
    BY <1>1, <2>1, <2>2, <2>3 DEF Handled
<1>4. ASSUME NEW i \in 1..Len(z), Good(i - 1) PROVE Good(i)
  <2> DEFINE a == z[i]
  <2>1. a \in LdapAnswers /\ d[i] = Answered(d[i - 1], a) /\ i \in DOMAIN z
    BY <1>1, <1>2
  <2>2. a.req \notin D(i - 1)
    <3>1. \A j \in 1..(i - 1) : j \in DOMAIN z /\ j # i
      BY <1>2
    <3> QED
      BY <2>1, <3>1 DEF OnceReq
  <2>3. a.req \in ReqsIn(z) \cup {None}
    BY <2>1 DEF ReqsIn
  <2>4. a.req \notin ReqsIn(w.l.queries) /\ a.req \in L \cup {None}
    BY <2>3 DEF ReqsIn
  <2>5. D(i) = D(i - 1) \cup ({a.req} \ {None})
    <3>1. 1..i = 1..(i - 1) \cup {i}
      OBVIOUS
    <3> QED
      BY <3>1
  <2> HIDE DEF D, a
  <2>6. Handled(w, d[i - 1], D(i - 1), S, L)
    BY <1>4
  <2>7. Handled(w, Answered(d[i - 1], a), D(i - 1) \cup ({a.req} \ {None}), S, L)
    BY <2>1, <2>2, <2>4, <2>6, AnsweredOne
  <2> QED
    BY <2>1, <2>5, <2>7
<1>5. Good(Len(z))
  <2> HIDE DEF Good
  <2>1. 0 \in T /\ \A i \in 1..Len(z) : i - 1 \in T => i \in T
    BY <1>2, <1>3, <1>4
  <2> HIDE DEF T
  <2>2. \A i \in 0..Len(z) : i \in T
    BY <1>2, <2>1, UpTo
  <2> USE DEF T
  <2> QED
    BY <1>2, <2>2
<1>6. D(Len(z)) = ReqsIn(z)
  BY <1>2 DEF ReqsIn
<1>7. z = << >> => d[Len(z)] = w
  BY <1>1
<1> HIDE DEF D
<1> QED
  BY <1>1, <1>5, <1>6, <1>7

-----------------------------------------------------------------------------
(* The steps.                                                              *)

\* A step that leaves mysql alone.
LEMMA SqlStutter ==
    ASSUME SqlPlaces, UNCHANGED sql
    PROVE  SqlPlaces' /\ InSqlQueues' = InSqlQueues
BY DEF SqlPlaces, InSqlQueues, InHand, OnceId, OnceReq, IdsIn, ReqsIn

\* A step that leaves ldap alone.
LEMMA LdapStutter ==
    ASSUME LdapPlaces, UNCHANGED ldap
    PROVE  LdapPlaces' /\ (InLdapQueues \cup ldap.lost)' = InLdapQueues \cup ldap.lost
BY DEF LdapPlaces, InLdapQueues, OnceReq, ReqsIn

\* The dispatcher of mysql, when it neither adds nor removes a query.
LEMMA SqlMoves ==
    ASSUME IInv, ~Crashed, SqlTake \/ SqlRun \/ (\E res \in {"yes", "no"} : SqlRan(res)) \/ SqlWait
    PROVE  IInv'
<1>1. sql \in SqlType /\ req \in Table /\ ldap \in LdapType
  BY DEF IInv, Types
<1>2. UNCHANGED <<req, loaded, main, ldap>>
  BY DEF SqlTake, SqlRun, SqlRan, SqlWait
<1>3. sql' \in SqlType
  <2>1. CASE SqlTake
    <3>1. Head(sql.queries) \in Ids
      BY <1>1, <2>1 DEF SqlTake, SqlType
    <3> QED
      BY <1>1, <2>1, <3>1 DEF SqlTake, SqlType
  <2>2. CASE SqlRun
    BY <1>1, <2>2 DEF SqlRun, SqlType
  <2>3. CASE \E res \in {"yes", "no"} : SqlRan(res)
    BY <1>1, <2>3 DEF SqlRan, SqlType
  <2>4. CASE SqlWait
    <3>1. (sql.byte \/ sql.done # << >>) \in BOOLEAN
      OBVIOUS
    <3> QED
      BY <1>1, <2>4, <3>1 DEF SqlWait, SqlType
  <2> QED
    BY <2>1, <2>2, <2>3, <2>4
<1>4. sql'.queries = sql.queries /\ sql'.done = sql.done /\ sql'.dangling = sql.dangling
  BY <1>1 DEF SqlTake, SqlRun, SqlRan, SqlWait, SqlType
<1>5. /\ InHand(sql)' /\ ~InHand(sql) => sql.queries # << >> /\ sql'.cur = Head(sql.queries)
      /\ InHand(sql)' /\ InHand(sql) => sql'.cur = sql.cur
      /\ sql'.pc = "wait" => sql.queries = << >>
  BY <1>1 DEF SqlTake, SqlRun, SqlRan, SqlWait, SqlType, InHand
<1>6. SqlPlaces' /\ InSqlQueues' = InSqlQueues
  <2>1. SqlPlaces
    BY DEF IInv
  <2>2. OnceId(sql.queries)' /\ OnceReq(sql.done)' /\ IdsIn(sql.queries)' = IdsIn(sql.queries)
        /\ ReqsIn(sql.done)' = ReqsIn(sql.done)
    BY <1>4, <2>1 DEF SqlPlaces, OnceId, OnceReq, IdsIn, ReqsIn
  <2> QED
    BY <1>4, <1>5, <2>1, <2>2 DEF SqlPlaces, InSqlQueues
<1>7. LdapPlaces' /\ (InLdapQueues \cup ldap.lost)' = InLdapQueues \cup ldap.lost
  BY <1>2, LdapStutter DEF IInv
<1>8. Types' /\ LdapThreads'
  BY <1>2, <1>3 DEF IInv, Types, LdapThreads
<1>9. Exact(req, InSqlQueues, InLdapQueues \cup ldap.lost)'
  BY <1>2, <1>6, <1>7 DEF IInv, Exact
<1> QED
  BY <1>6, <1>7, <1>8, <1>9 DEF IInv

\* The dispatcher puts the answer of its query where the main thread finds it.
LEMMA SqlFinishes ==
    ASSUME IInv, ~Crashed, SqlFinish
    PROVE  IInv'
<1>1. sql \in SqlType /\ req \in Table /\ ldap \in LdapType /\ SqlPlaces
  BY DEF IInv, Types
<1>2. UNCHANGED <<req, loaded, main, ldap>> /\ sql.pc = "ran"
  BY DEF SqlFinish
<1>3. LdapPlaces' /\ (InLdapQueues \cup ldap.lost)' = InLdapQueues \cup ldap.lost /\ LdapThreads'
  BY <1>2, LdapStutter DEF IInv, LdapThreads
<1> DEFINE next == [sql EXCEPT !.pc = "loop", !.cur = None, !.result = "no", !.dangling = FALSE]
<1>4. /\ next \in SqlType /\ next.pc = "loop" /\ next.queries = sql.queries /\ next.done = sql.done
      /\ ~InHand(next)
  BY <1>1 DEF SqlType, Ids, InHand
<1>5. CASE sql.queries = << >>
  <2>1. sql' = next
    BY <1>5 DEF SqlFinish
  <2> HIDE DEF next
  <2>2. sql' \in SqlType /\ sql'.queries = sql.queries /\ sql'.done = sql.done /\ ~InHand(sql') /\ sql'.pc = "loop"
    BY <1>4, <2>1
  <2>3. SqlPlaces' /\ InSqlQueues' = InSqlQueues
    BY <1>1, <2>2 DEF SqlPlaces, InSqlQueues, OnceId, OnceReq, IdsIn, ReqsIn
  <2>4. Types'
    BY <1>2, <2>2 DEF IInv, Types
  <2> QED
    BY <1>2, <1>3, <2>3, <2>4 DEF IInv, Exact
<1>6. CASE sql.queries # << >> /\ sql.dangling
  <2>1. sql' = [sql EXCEPT !.bad = TRUE]
    BY <1>6 DEF SqlFinish
  <2>2. sql' \in SqlType /\ sql'.bad
    BY <1>1, <2>1 DEF SqlType
  <2>3. sql'.queries = sql.queries /\ sql'.done = sql.done /\ sql'.pc = "ran" /\ sql'.dangling
    BY <1>1, <1>2, <1>6, <2>1 DEF SqlType
  <2>4. SqlPlaces'
    BY <1>1, <2>3 DEF SqlPlaces, OnceId, OnceReq, IdsIn, ReqsIn
  <2>5. Types' /\ Crashed'
    BY <1>2, <2>2 DEF IInv, Types, Crashed
  <2> QED
    BY <1>2, <1>3, <2>4, <2>5 DEF IInv
<1>7. CASE sql.queries # << >> /\ ~sql.dangling
  <2> DEFINE e == sql.cur
             a == [req |-> e, result |-> sql.result]
             qs == Tail(sql.queries)
             ds == Keep(sql.done, a)
  <2>1. sql' = [next EXCEPT !.queries = qs, !.done = ds]
    BY <1>1, <1>7 DEF SqlFinish, SqlType
  <2>2. Head(sql.queries) = e
    BY <1>1, <1>2, <1>7 DEF SqlPlaces, InHand
  <2>3. sql.queries \in Seq(Ids) /\ OnceId(sql.queries) /\ sql.done \in Seq(Answers) /\ OnceReq(sql.done)
    BY <1>1 DEF SqlType, SqlPlaces
  <2>4. e \in Ids /\ e \in IdsIn(sql.queries) \cup {None}
    BY <1>7, <2>2, <2>3 DEF IdsIn
  <2>5. a \in Answers /\ a.req = e
    BY <1>1, <2>4 DEF Answers, SqlType
  <2> HIDE DEF e
  <2>6. e \notin ReqsIn(sql.done)
    BY <1>1, <2>4 DEF SqlPlaces, ReqsIn
  <2> HIDE DEF a, qs, ds, next
  <2>7. ds \in Seq(Answers) /\ OnceReq(ds) /\ ReqsIn(ds) = ReqsIn(sql.done) \cup ({e} \ {None})
    BY <2>3, <2>5, <2>6, KeepReqs DEF ds
  <2>8. qs \in Seq(Ids) /\ OnceId(qs) /\ IdsIn(qs) = IdsIn(sql.queries) \ {e}
    BY <1>7, <2>2, <2>3, TailIds DEF qs
  <2>9. sql' \in SqlType /\ sql'.queries = qs /\ sql'.done = ds /\ sql'.pc = "loop"
    BY <1>4, <2>1, <2>7, <2>8 DEF SqlType
  <2>10. IdsIn(sql.queries)' = IdsIn(sql.queries) \ {e} /\ ReqsIn(sql.done)' = ReqsIn(sql.done) \cup ({e} \ {None})
         /\ OnceId(sql.queries)' /\ OnceReq(sql.done)'
    BY <2>7, <2>8, <2>9
  <2>11. SqlPlaces'
    BY <1>1, <2>9, <2>10 DEF SqlPlaces, InHand
  <2>12. InSqlQueues' = InSqlQueues
    BY <2>4, <2>10 DEF InSqlQueues, IdsIn
  <2>13. Types'
    BY <1>2, <2>9 DEF IInv, Types
  <2> QED
    BY <1>2, <1>3, <2>11, <2>12, <2>13 DEF IInv, Exact
<1> QED
  BY <1>5, <1>6, <1>7

\* The thread of ldap, when it leaves the queries where they are.
LEMMA LdapMoves ==
    ASSUME IInv, ~Crashed, LdapTop \/ LdapCheck \/ LdapSent
    PROVE  IInv'
<1>1. sql \in SqlType /\ req \in Table /\ ldap \in LdapType /\ LdapPlaces /\ LdapThreads
  BY DEF IInv, Types
<1>2. UNCHANGED <<req, loaded, main, sql>>
  BY DEF LdapTop, LdapCheck, LdapSent
<1>3. /\ ldap' \in LdapType
      /\ ldap'.queries = ldap.queries /\ ldap'.batch = ldap.batch /\ ldap'.done = ldap.done
      /\ ldap'.lost = ldap.lost /\ ldap'.up = ldap.up /\ ldap'.exit = ldap.exit
  BY <1>1 DEF LdapTop, LdapCheck, LdapSent, LdapType
<1>4. /\ ldap.pc \notin {"exit", "wait"} /\ ldap'.pc # "process"
      /\ ldap.pc = "process" => ldap.batch = << >>
      /\ ldap'.pc = "exit" => ldap.exit
      /\ ldap'.pc = "wait" => ldap.queries = << >>
  BY <1>1 DEF LdapTop, LdapCheck, LdapSent, LdapType
<1>5. LdapPlaces' /\ (InLdapQueues \cup ldap.lost)' = InLdapQueues \cup ldap.lost
  BY <1>1, <1>3 DEF LdapPlaces, InLdapQueues, OnceReq, ReqsIn
<1>6. SqlPlaces' /\ InSqlQueues' = InSqlQueues
  BY <1>2, SqlStutter DEF IInv
<1>7. LdapThreads'
  BY <1>1, <1>2, <1>3, <1>4 DEF LdapThreads
<1>8. Types'
  BY <1>2, <1>3 DEF IInv, Types
<1>9. Exact(req, InSqlQueues, InLdapQueues \cup ldap.lost)'
  BY <1>2, <1>5, <1>6 DEF IInv, Exact
<1> QED
  BY <1>5, <1>6, <1>7, <1>8, <1>9 DEF IInv

\* SendRequests takes the queue.
LEMMA LdapTakes ==
    ASSUME IInv, ~Crashed, LdapSend
    PROVE  IInv'
<1>1. sql \in SqlType /\ req \in Table /\ ldap \in LdapType /\ LdapPlaces /\ LdapThreads
  BY DEF IInv, Types
<1>2. UNCHANGED <<req, loaded, main, sql>> /\ ldap.pc = "send" /\ ldap.batch = << >>
  BY <1>1 DEF LdapSend, LdapThreads
<1>3. /\ ldap' \in LdapType
      /\ ldap'.queries = << >> /\ ldap'.batch = ldap.queries /\ ldap'.done = ldap.done
      /\ ldap'.lost = ldap.lost /\ ldap'.up = ldap.up /\ ldap'.exit = ldap.exit
  <2> DEFINE p == IF ldap.queries = << >> THEN "top" ELSE "process"
  <2>1. ldap' = [ldap EXCEPT !.batch = ldap.queries, !.queries = << >>, !.pc = p]
    BY DEF LdapSend
  <2>2. p \in {"top", "check", "wait", "send", "process", "exit"} /\ << >> \in Seq(LdapQueries)
    OBVIOUS
  <2> HIDE DEF p
  <2> QED
    BY <1>1, <2>1, <2>2 DEF LdapType
<1>4. ldap'.pc = IF ldap.queries = << >> THEN "top" ELSE "process"
  BY <1>1 DEF LdapSend, LdapType
<1>5. /\ ReqsIn(ldap.queries)' = {} /\ ReqsIn(ldap.batch)' = ReqsIn(ldap.queries)
      /\ ReqsIn(ldap.done)' = ReqsIn(ldap.done) /\ ReqsIn(ldap.batch) = {}
      /\ OnceReq(ldap.queries)' /\ OnceReq(ldap.batch)' /\ OnceReq(ldap.done)'
  BY <1>1, <1>2, <1>3, EmptyQueue DEF LdapPlaces
<1>6. LdapPlaces' /\ (InLdapQueues \cup ldap.lost)' = InLdapQueues \cup ldap.lost
  BY <1>1, <1>3, <1>5 DEF LdapPlaces, InLdapQueues
<1>7. SqlPlaces' /\ InSqlQueues' = InSqlQueues
  BY <1>2, SqlStutter DEF IInv
<1>8. LdapThreads'
  BY <1>1, <1>2, <1>3, <1>4 DEF LdapThreads
<1>9. Types'
  BY <1>2, <1>3 DEF IInv, Types
<1>10. Exact(req, InSqlQueues, InLdapQueues \cup ldap.lost)'
  BY <1>2, <1>6, <1>7 DEF IInv, Exact
<1> QED
  BY <1>6, <1>7, <1>8, <1>9, <1>10 DEF IInv

\* The thread of ldap runs a query and puts its answer where the main thread
\* finds it.
LEMMA LdapRuns ==
    ASSUME IInv, ~Crashed, NEW res \in {"yes", "no"}, LdapRun(res)
    PROVE  IInv'
<1>1. sql \in SqlType /\ req \in Table /\ ldap \in LdapType /\ LdapPlaces /\ LdapThreads
  BY DEF IInv, Types
<1>2. UNCHANGED <<req, loaded, main, sql>> /\ ldap.pc = "process" /\ ldap.batch # << >>
  BY DEF LdapRun
<1> DEFINE e == Head(ldap.batch)
           a == [req |-> e.req, op |-> e.op, result |-> res]
           bs == Tail(ldap.batch)
           ds == Keep(ldap.done, a)
<1>3. ldap' = [ldap EXCEPT !.batch = bs, !.done = ds]
  BY DEF LdapRun
<1>4. ldap.batch \in Seq(LdapQueries) /\ ldap.done \in Seq(LdapAnswers)
  BY <1>1 DEF LdapType
<1>5. bs \in Seq(LdapQueries) /\ OnceReq(bs) /\ e \in LdapQueries
      /\ ReqsIn(bs) = ReqsIn(ldap.batch) \ {e.req} /\ e.req \in ReqsIn(ldap.batch) \cup {None}
  BY <1>1, <1>2, <1>4, TailReqs DEF LdapPlaces
<1> HIDE DEF e
<1>6. a \in LdapAnswers /\ a.req = e.req
  BY <1>5 DEF LdapAnswers, LdapQueries
<1>7. a.req \notin ReqsIn(ldap.done) /\ OnceReq(ldap.done)
  BY <1>1, <1>5, <1>6 DEF LdapPlaces, ReqsIn
<1> HIDE DEF a, bs, ds
<1>8. ds \in Seq(LdapAnswers) /\ OnceReq(ds) /\ ReqsIn(ds) = ReqsIn(ldap.done) \cup ({e.req} \ {None})
  BY <1>4, <1>6, <1>7, KeepReqs DEF ds
<1>9. /\ ldap' \in LdapType
      /\ ldap'.queries = ldap.queries /\ ldap'.batch = bs /\ ldap'.done = ds
      /\ ldap'.lost = ldap.lost /\ ldap'.up = ldap.up /\ ldap'.exit = ldap.exit /\ ldap'.pc = ldap.pc
  BY <1>1, <1>3, <1>5, <1>8 DEF LdapType
<1>10. /\ ReqsIn(ldap.queries)' = ReqsIn(ldap.queries) /\ OnceReq(ldap.queries)'
       /\ ReqsIn(ldap.batch)' = ReqsIn(ldap.batch) \ {e.req} /\ OnceReq(ldap.batch)'
       /\ ReqsIn(ldap.done)' = ReqsIn(ldap.done) \cup ({e.req} \ {None}) /\ OnceReq(ldap.done)'
  BY <1>1, <1>5, <1>8, <1>9 DEF LdapPlaces
<1>11. LdapPlaces'
  BY <1>1, <1>5, <1>9, <1>10 DEF LdapPlaces
<1>12. (InLdapQueues \cup ldap.lost)' = InLdapQueues \cup ldap.lost
  <2>1. None \notin ReqsIn(ldap.batch)
    BY DEF ReqsIn
  <2> QED
    BY <1>5, <1>9, <1>10, <2>1 DEF InLdapQueues
<1>13. SqlPlaces' /\ InSqlQueues' = InSqlQueues
  BY <1>2, SqlStutter DEF IInv
<1>14. LdapThreads'
  BY <1>1, <1>2, <1>9 DEF LdapThreads
<1>15. Types'
  BY <1>2, <1>9 DEF IInv, Types
<1>16. Exact(req, InSqlQueues, InLdapQueues \cup ldap.lost)'
  BY <1>2, <1>12, <1>13 DEF IInv, Exact
<1> QED
  BY <1>11, <1>13, <1>14, <1>15, <1>16 DEF IInv

\* The main thread, when it leaves the queries where they are.
LEMMA MainMoves ==
    ASSUME IInv, ~Crashed,
           Drain \/ (\E m \in Holders : LoadModule(m)) \/ AddSql \/ RemoveLdap \/ AddLdap
    PROVE  IInv'
<1>1. sql \in SqlType /\ req \in Table /\ ldap \in LdapType
      /\ SqlPlaces /\ LdapPlaces /\ LdapThreads
      /\ loaded \subseteq Holders /\ main \in {"idle", "sql", "ldap", "join"}
  BY DEF IInv, Types
<1>2. UNCHANGED req /\ loaded' \subseteq Holders /\ main' \in {"idle", "sql", "ldap", "join"}
  BY <1>1 DEF Drain, LoadModule, AddSql, RemoveLdap, AddLdap
<1>3. /\ sql' \in SqlType
      /\ sql'.queries = sql.queries /\ sql'.done = sql.done /\ sql'.pc = sql.pc
      /\ sql'.cur = sql.cur /\ sql'.dangling = sql.dangling
  <2>1. CASE Drain
    BY <1>1, <2>1 DEF Drain, SqlType
  <2>2. CASE AddSql
    BY <1>1, <2>2 DEF AddSql, SqlType
  <2>3. CASE UNCHANGED sql
    BY <1>1, <2>3
  <2> QED
    BY <2>1, <2>2, <2>3 DEF LoadModule, RemoveLdap, AddLdap
<1>4. /\ ldap' \in LdapType
      /\ ldap'.queries = ldap.queries /\ ldap'.batch = ldap.batch /\ ldap'.done = ldap.done
      /\ ldap'.lost = ldap.lost
  <2>1. CASE Drain
    BY <1>1, <2>1 DEF Drain, LdapType
  <2>2. CASE RemoveLdap
    BY <1>1, <2>2 DEF RemoveLdap, LdapType
  <2>3. CASE AddLdap
    BY <1>1, <2>3 DEF AddLdap, LdapType
  <2>4. CASE UNCHANGED ldap
    BY <1>1, <2>4
  <2> QED
    BY <2>1, <2>2, <2>3, <2>4 DEF LoadModule, AddSql
<1>5. LdapPlaces' /\ (InLdapQueues \cup ldap.lost)' = InLdapQueues \cup ldap.lost
  <2>1. /\ ReqsIn(ldap.queries)' = ReqsIn(ldap.queries)
        /\ ReqsIn(ldap.batch)' = ReqsIn(ldap.batch)
        /\ ReqsIn(ldap.done)' = ReqsIn(ldap.done)
    BY <1>4 DEF ReqsIn
  <2>2. /\ OnceReq(ldap.queries)' = OnceReq(ldap.queries)
        /\ OnceReq(ldap.batch)' = OnceReq(ldap.batch)
        /\ OnceReq(ldap.done)' = OnceReq(ldap.done)
    BY <1>4 DEF OnceReq
  <2> QED
    BY <1>1, <1>4, <2>1, <2>2 DEF LdapPlaces, InLdapQueues
<1>6. SqlPlaces' /\ InSqlQueues' = InSqlQueues
  BY <1>1, <1>3 DEF SqlPlaces, InSqlQueues, InHand, OnceId, OnceReq, IdsIn, ReqsIn
<1>7. LdapThreads'
  <2>1. CASE Drain
    <3>1. ldap'.up = ldap.up /\ ldap'.exit = ldap.exit /\ ldap'.pc = ldap.pc
          /\ (ldap'.byte => ldap.byte) /\ main' = "idle" /\ main # "join"
      BY <1>1, <2>1 DEF Drain, LdapType
    <3> QED
      BY <1>1, <1>4, <3>1 DEF LdapThreads
  <2>2. CASE RemoveLdap
    <3>1. ldap'.up /\ ldap'.exit /\ ldap'.pc = (IF ldap.pc = "wait" THEN "send" ELSE ldap.pc)
          /\ main' = "join"
      BY <1>1, <2>2 DEF RemoveLdap, LdapType
    <3> QED
      BY <1>1, <1>4, <3>1 DEF LdapThreads
  <2>3. CASE AddLdap
    <3>1. ldap'.up /\ ~ldap'.exit /\ ldap'.pc = "top" /\ main' = main /\ main = "idle" /\ ~ldap.up
          /\ ldap'.byte = ldap.byte
      BY <1>1, <2>3 DEF AddLdap, LdapType, Idle
    <3> QED
      BY <1>1, <1>4, <3>1 DEF LdapThreads
  <2>4. CASE UNCHANGED <<main, ldap>>
    BY <1>1, <2>4 DEF LdapThreads
  <2> QED
    BY <2>1, <2>2, <2>3, <2>4 DEF LoadModule, AddSql
<1>8. Types'
  BY <1>1, <1>2, <1>3, <1>4 DEF Types
<1>9. Exact(req, InSqlQueues, InLdapQueues \cup ldap.lost)'
  BY <1>2, <1>5, <1>6 DEF IInv, Exact
<1> QED
  BY <1>5, <1>6, <1>7, <1>8, <1>9 DEF IInv

\* A query that is put in the queue of mysql.
LEMMA SqlRuns ==
    ASSUME sql \in SqlType, SqlPlaces, NEW r \in Ids, r \notin InSqlQueues, sql' = Run(sql, r)
    PROVE  sql' \in SqlType /\ SqlPlaces' /\ InSqlQueues' = InSqlQueues \cup ({r} \ {None})
<1> DEFINE s == Append(sql.queries, r)
           p == IF sql.pc = "wait" THEN "loop" ELSE sql.pc
<1>1. sql.queries \in Seq(Ids) /\ sql.pc \in {"loop", "wait", "took", "run", "ran"}
      /\ OnceId(sql.queries) /\ r \notin IdsIn(sql.queries)
  BY DEF SqlType, SqlPlaces, InSqlQueues
<1>2. s \in Seq(Ids) /\ s # << >> /\ (sql.queries # << >> => Head(s) = Head(sql.queries))
      /\ IdsIn(s) = IdsIn(sql.queries) \cup ({r} \ {None}) /\ OnceId(s)
  BY <1>1, AppendIds
<1>3. p \in {"loop", "wait", "took", "run", "ran"} /\ p # "wait"
      /\ (p \in {"took", "run", "ran"} => p = sql.pc)
  BY <1>1
<1>4. sql' = [sql EXCEPT !.queries = s, !.pc = p]
  BY DEF Run
<1> HIDE DEF s, p
<1>5. sql' \in SqlType /\ sql'.queries = s /\ sql'.pc = p /\ sql'.done = sql.done
      /\ sql'.dangling = sql.dangling /\ sql'.cur = sql.cur
  BY <1>2, <1>3, <1>4 DEF SqlType
<1>6. OnceId(sql.queries)' /\ IdsIn(sql.queries)' = IdsIn(sql.queries) \cup ({r} \ {None})
      /\ OnceReq(sql.done)' /\ ReqsIn(sql.done)' = ReqsIn(sql.done)
      /\ (InHand(sql)' => InHand(sql))
  BY <1>2, <1>3, <1>5 DEF SqlPlaces, InHand, OnceReq, ReqsIn
<1>7. InSqlQueues' = InSqlQueues \cup ({r} \ {None})
  BY <1>6 DEF InSqlQueues
<1>8. SqlPlaces'
  <2>1. (IdsIn(sql.queries) \cap ReqsIn(sql.done) = {})'
    BY <1>6 DEF InSqlQueues, SqlPlaces
  <2>2. InHand(sql)' /\ ~sql'.dangling => sql'.queries # << >> /\ Head(sql'.queries) = sql'.cur
    BY <1>2, <1>5, <1>6 DEF SqlPlaces
  <2> QED
    BY <1>3, <1>5, <1>6, <2>1, <2>2 DEF SqlPlaces
<1> QED
  BY <1>5, <1>7, <1>8

\* A query that is put in the queue of ldap.
LEMMA LdapQueued ==
    ASSUME ldap \in LdapType, LdapPlaces, LdapThreads, ldap.up, main' = main,
           NEW r \in Ids, r \notin InLdapQueues \cup ldap.lost,
           NEW op \in LdapOps, ldap' = Queue(ldap, r, op)
    PROVE  /\ ldap' \in LdapType /\ LdapPlaces' /\ LdapThreads'
           /\ (InLdapQueues \cup ldap.lost)' = InLdapQueues \cup ldap.lost \cup ({r} \ {None})
<1>1. OnceReq(ldap.queries) /\ r \notin ReqsIn(ldap.queries)
  BY DEF LdapPlaces, InLdapQueues
<1>2. ldap' \in LdapType /\ ldap'.queries # << >>
      /\ ReqsIn(ldap'.queries) = ReqsIn(ldap.queries) \cup ({r} \ {None})
      /\ OnceReq(ldap'.queries)
  BY <1>1, QueueFacts
<1>3. ldap'.pc = IF ldap.pc = "wait" THEN "send" ELSE ldap.pc
  BY DEF Queue, LdapType
<1>4. ldap'.batch = ldap.batch /\ ldap'.done = ldap.done /\ ldap'.lost = ldap.lost
      /\ ldap'.up = ldap.up /\ ldap'.exit = ldap.exit
  BY DEF Queue, LdapType
<1>5. ReqsIn(ldap.queries)' = ReqsIn(ldap.queries) \cup ({r} \ {None}) /\ OnceReq(ldap.queries)'
      /\ ReqsIn(ldap.batch)' = ReqsIn(ldap.batch) /\ OnceReq(ldap.batch)'
      /\ ReqsIn(ldap.done)' = ReqsIn(ldap.done) /\ OnceReq(ldap.done)'
  BY <1>2, <1>4 DEF LdapPlaces, OnceReq, ReqsIn
<1>6. LdapPlaces'
  BY <1>4, <1>5 DEF LdapPlaces, InLdapQueues
<1>7. (InLdapQueues \cup ldap.lost)' = InLdapQueues \cup ldap.lost \cup ({r} \ {None})
  BY <1>4, <1>5 DEF InLdapQueues
<1>8. LdapThreads'
  BY <1>3, <1>4 DEF LdapThreads
<1> QED
  BY <1>2, <1>6, <1>7, <1>8

\* Another module's queries.
LEMMA OtherQueries ==
    ASSUME IInv, ~Crashed, OtherSql \/ OtherLdap
    PROVE  IInv'
<1>1. sql \in SqlType /\ req \in Table /\ ldap \in LdapType
      /\ SqlPlaces /\ LdapPlaces /\ LdapThreads
  BY DEF IInv, Types
<1>2. None \in Ids /\ None \notin InSqlQueues /\ None \notin InLdapQueues \cup ldap.lost
      /\ "add" \in LdapOps
  <2>1. None \notin InSqlQueues /\ None \notin InLdapQueues
    BY DEF InSqlQueues, InLdapQueues, IdsIn, ReqsIn
  <2>2. ldap.lost \subseteq Reqs
    BY <1>1 DEF LdapType
  <2> QED
    BY <2>1, <2>2, NoneAssumption DEF Ids, LdapOps
<1>3. CASE OtherSql
  <2>1. UNCHANGED <<req, loaded, main, ldap>> /\ sql' = Run(sql, None)
    BY <1>3 DEF OtherSql
  <2>2. sql' \in SqlType /\ SqlPlaces' /\ InSqlQueues' = InSqlQueues
    BY <1>1, <1>2, <2>1, SqlRuns
  <2>3. LdapPlaces' /\ (InLdapQueues \cup ldap.lost)' = InLdapQueues \cup ldap.lost
    BY <2>1, LdapStutter DEF IInv
  <2>4. Types' /\ LdapThreads'
    BY <1>1, <2>1, <2>2 DEF IInv, Types, LdapThreads
  <2> QED
    BY <2>1, <2>2, <2>3, <2>4 DEF IInv, Exact
<1>4. CASE OtherLdap
  <2>1. UNCHANGED <<req, loaded, main, sql>> /\ ldap.up /\ ldap' = Queue(ldap, None, "add")
    BY <1>4 DEF OtherLdap
  <2>2. ldap' \in LdapType /\ LdapPlaces' /\ LdapThreads'
        /\ (InLdapQueues \cup ldap.lost)' = InLdapQueues \cup ldap.lost
    BY <1>1, <1>2, <2>1, LdapQueued
  <2>3. SqlPlaces' /\ InSqlQueues' = InSqlQueues
    BY <2>1, SqlStutter DEF IInv
  <2>4. Types'
    BY <1>1, <2>1, <2>2 DEF IInv, Types
  <2> QED
    BY <2>1, <2>2, <2>3, <2>4 DEF IInv, Exact
<1> QED
  BY <1>3, <1>4

\* The row of a request that waits for those asked; s is the table when it is
\* dispatched, and new is that table before its password was found right.
NewRow(asked) == [Closed EXCEPT !.open = TRUE, !.holds = asked, !.told = 0]
Made(q, r, asked, new, s) ==
    new = [q EXCEPT ![r] = NewRow(asked)] /\ (s = new \/ s = Success(new, r))

\* A request that is dispatched waits for those asked, or it is gone.
LEMMA IdentifyRow ==
    ASSUME NEW q \in Table, NEW r \in Reqs, NEW asked \in SUBSET Holders, NEW new, NEW s,
           Made(q, r, asked, new, s)
    PROVE  \E t \in Request :
              /\ Dispatch(s, r) = [q EXCEPT ![r] = t]
              /\ ToldRight(t) /\ (t.open => t.holds = asked)
<1> USE DEF Made
<1> DEFINE row == NewRow(asked)
<1>1. row \in Request /\ ToldRight(row) /\ row.open /\ row.holds = asked
  <2> DEFINE b == [Closed EXCEPT !.open = TRUE]
             c == [b EXCEPT !.holds = asked]
             d == [c EXCEPT !.told = 0]
  <2>1. b \in Request /\ b.open /\ ~b.bad /\ ~b.success
    <3>1. Closed \in Request /\ ~Closed.bad /\ ~Closed.success
      BY DEF Closed, Request
    <3> QED
      BY <3>1 DEF Request
  <2> HIDE DEF b
  <2>2. c \in Request /\ c.open /\ ~c.bad /\ ~c.success /\ c.holds = asked
    BY <2>1 DEF Request
  <2> HIDE DEF c
  <2>3. d \in Request /\ d.open /\ ~d.bad /\ ~d.success /\ d.holds = asked /\ d.told = 0
    <3>1. 0 \in 0..2
      OBVIOUS
    <3> QED
      BY <2>2, <3>1 DEF Request
  <2>4. row = d
    BY DEF NewRow, b, c
  <2> HIDE DEF d, row
  <2> QED
    BY <2>3, <2>4 DEF ToldRight
<1>2. new = [q EXCEPT ![r] = row] /\ q \in [Reqs -> Request]
  BY DEF Table
<1> HIDE DEF row
<1>3. new \in Table /\ new[r] = row
  <2>1. [q EXCEPT ![r] = row] \in Table
    BY <1>1, PutRow
  <2> QED
    BY <1>2, <2>1
<1>4. PICK t \in Request : s = [q EXCEPT ![r] = t] /\ ToldRight(t) /\ t.open /\ t.holds = asked
  <2>1. CASE s = Success(new, r)
    <3> HIDE DEF Made
    <3>1. PICK t \in Request : Success(new, r) = [new EXCEPT ![r] = t] /\ ToldRight(t)
                               /\ t.open = new[r].open /\ t.holds = new[r].holds
      BY <1>3, SuccessRow
    <3>2. [new EXCEPT ![r] = t] = [q EXCEPT ![r] = t]
      BY <1>2
    <3> QED
      BY <1>1, <1>3, <2>1, <3>1, <3>2
  <2>2. CASE s = new
    BY <1>1, <1>2, <2>2
  <2> QED
    BY <2>1, <2>2
<1>5. s \in Table /\ s[r] = t
  BY <1>2, <1>4, PutRow
<1>6. CASE s[r].holds = {}
  <2>1. Dispatch(s, r) = [s EXCEPT ![r] = Closed]
    <3>1. Dispatch(s, r) = Finish(s, r)
      BY <1>6 DEF Dispatch
    <3>2. s \in Table /\ s[r].open
      BY <1>4, <1>5
    <3> QED
      BY <3>1, <3>2, FinishTable
  <2>2. [s EXCEPT ![r] = Closed] = [q EXCEPT ![r] = Closed]
    BY <1>2, <1>4
  <2>3. Closed \in Request /\ ToldRight(Closed) /\ ~Closed.open
    BY DEF Closed, Request, ToldRight
  <2> QED
    BY <2>1, <2>2, <2>3
<1>7. CASE s[r].holds # {}
  <2> DEFINE u == [t EXCEPT !.dispatched = TRUE]
  <2>1. u \in Request /\ ToldRight(u) /\ u.holds = asked
    BY <1>4 DEF Request, ToldRight
  <2>2. Dispatch(s, r) = [s EXCEPT ![r] = u]
    BY <1>5, <1>7 DEF Dispatch, Table
  <2> HIDE DEF u
  <2>3. [s EXCEPT ![r] = u] = [q EXCEPT ![r] = u]
    BY <1>2, <1>4
  <2> QED
    BY <2>1, <2>2, <2>3
<1> QED
  BY <1>6, <1>7

\* IDENTIFY, and the other commands that check a password.
LEMMA Identifies ==
    ASSUME IInv, ~Crashed, NEW r \in Reqs, NEW local \in BOOLEAN, Identify(r, local)
    PROVE  IInv'
<1> DEFINE asked == {m \in loaded : IF m = "sqlauth" THEN sql.up ELSE ldap.up}
           new == [req EXCEPT ![r] = [Closed EXCEPT !.open = TRUE, !.holds = asked, !.told = 0]]
           s == IF local THEN Success(new, r) ELSE new
<1>1. sql \in SqlType /\ req \in Table /\ ldap \in LdapType
      /\ SqlPlaces /\ LdapPlaces /\ LdapThreads /\ loaded \subseteq Holders
  BY DEF IInv, Types
<1>2. /\ UNCHANGED <<loaded, main>>
      /\ req' = Dispatch(s, r)
      /\ sql' = IF "sqlauth" \in asked THEN Run(sql, r) ELSE sql
      /\ ldap' = IF "ldapauth" \in asked THEN Queue(ldap, r, "admin") ELSE ldap
  BY DEF Identify
<1>3. r \notin InSqlQueues /\ r \notin InLdapQueues \cup ldap.lost
  <2>1. r \notin InSql \cup InLdap \cup ldap.lost
    BY DEF Identify
  <2>2. InSqlQueues \subseteq InSql
    BY DEF InSqlQueues, InSql, IdsIn, ReqsIn, ToSet
  <2>3. InLdapQueues \subseteq InLdap
    BY DEF InLdapQueues, InLdap, Entries, ReqsIn, ToSet
  <2> QED
    BY <2>1, <2>2, <2>3
<1>4. r \in Ids /\ r # None /\ "admin" \in LdapOps
  BY NoneAssumption DEF Ids, LdapOps
<1>5. asked \in SUBSET Holders /\ ("ldapauth" \in asked => ldap.up)
  BY <1>1
<1>6. PICK t \in Request : req' = [req EXCEPT ![r] = t] /\ ToldRight(t) /\ (t.open => t.holds = asked)
  <2>1. new = [req EXCEPT ![r] = NewRow(asked)]
    BY DEF NewRow
  <2>2. Made(req, r, asked, new, s)
    BY <2>1 DEF Made
  <2> HIDE DEF asked, new, s
  <2>3. \E t \in Request :
           /\ Dispatch(s, r) = [req EXCEPT ![r] = t]
           /\ ToldRight(t) /\ (t.open => t.holds = asked)
    BY <1>1, <1>5, <2>2, IdentifyRow
  <2> QED
    BY <1>2, <2>3
<1> HIDE DEF asked, new, s
<1>7. req' \in Table /\ req \in [Reqs -> Request]
  BY <1>1, <1>6, PutRow DEF Table
<1>8. /\ sql' \in SqlType /\ SqlPlaces'
      /\ InSqlQueues' = InSqlQueues \cup (IF "sqlauth" \in asked THEN {r} ELSE {})
  <2>1. CASE "sqlauth" \in asked
    BY <1>1, <1>2, <1>3, <1>4, <2>1, SqlRuns
  <2>2. CASE "sqlauth" \notin asked
    BY <1>1, <1>2, <2>2, SqlStutter
  <2> QED
    BY <2>1, <2>2
<1>9. /\ ldap' \in LdapType /\ LdapPlaces' /\ LdapThreads'
      /\ (InLdapQueues \cup ldap.lost)'
           = InLdapQueues \cup ldap.lost \cup (IF "ldapauth" \in asked THEN {r} ELSE {})
  <2>1. CASE "ldapauth" \in asked
    <3>1. ldap' = Queue(ldap, r, "admin") /\ main' = main /\ ldap.up
      BY <1>2, <1>5, <2>1
    <3>2. /\ ldap' \in LdapType /\ LdapPlaces' /\ LdapThreads'
          /\ (InLdapQueues \cup ldap.lost)' = InLdapQueues \cup ldap.lost \cup ({r} \ {None})
      BY <1>1, <1>3, <1>4, <3>1, LdapQueued
    <3> QED
      BY <1>4, <2>1, <3>2
  <2>2. CASE "ldapauth" \notin asked
    <3>1. UNCHANGED <<ldap, main>>
      BY <1>2, <2>2
    <3>2. LdapThreads'
      BY <1>1, <3>1 DEF LdapThreads
    <3> QED
      BY <1>1, <2>2, <3>1, <3>2, LdapStutter
  <2> QED
    BY <2>1, <2>2
<1>10. Types'
  BY <1>2, <1>7, <1>8, <1>9 DEF IInv, Types
<1>11. Exact(req, InSqlQueues, InLdapQueues \cup ldap.lost)'
  <2> DEFINE S == InSqlQueues
             L == InLdapQueues \cup ldap.lost
             S2 == InSqlQueues'
             L2 == (InLdapQueues \cup ldap.lost)'
  <2>1. Exact(req, S, L)
    BY DEF IInv
  <2>2. S2 = S \cup (IF "sqlauth" \in asked THEN {r} ELSE {}) /\ r \notin S
        /\ L2 = L \cup (IF "ldapauth" \in asked THEN {r} ELSE {}) /\ r \notin L
    BY <1>3, <1>8, <1>9
  <2> HIDE DEF S, L, S2, L2
  <2>3. Exact(req', S2, L2)
    BY <1>6, <1>7, <2>1, <2>2 DEF Exact
  <2> QED
    BY <2>3 DEF S2, L2
<1> QED
  BY <1>8, <1>9, <1>10, <1>11 DEF IInv

\* The main thread delivers the answers of mysql.
LEMMA SqlNotifies ==
    ASSUME IInv, ~Crashed, SqlNotify
    PROVE  IInv'
<1> DEFINE S == InSqlQueues
           L == InLdapQueues \cup ldap.lost
<1>1. sql \in SqlType /\ req \in Table /\ ldap \in LdapType
      /\ SqlPlaces /\ LdapPlaces /\ LdapThreads /\ Exact(req, S, L)
  BY DEF IInv, Types
<1>2. /\ UNCHANGED <<loaded, ldap>> /\ main = "idle" /\ main' = "sql"
      /\ req' = DeliverAll(req, sql.done) /\ sql' = [sql EXCEPT !.done = << >>]
  BY DEF SqlNotify, Idle
<1>3. sql.done \in Seq(Answers)
  BY <1>1 DEF SqlType
<1>4. sql' \in SqlType /\ sql'.done = << >> /\ sql'.queries = sql.queries /\ sql'.pc = sql.pc
      /\ sql'.cur = sql.cur /\ sql'.dangling = sql.dangling
  <2>1. << >> \in Seq(Answers)
    OBVIOUS
  <2> QED
    BY <1>1, <1>2, <2>1 DEF SqlType
<1> HIDE DEF S, L
<1>5. req' \in Table /\ (Sound(req') => Exact(req', S \ ReqsIn(sql.done), L))
  BY <1>1, <1>2, <1>3, DeliverAllExact
<1>6. OnceReq(sql.done)' /\ ReqsIn(sql.done)' = {} /\ OnceId(sql.queries)'
      /\ IdsIn(sql.queries)' = IdsIn(sql.queries)
  BY <1>1, <1>4, EmptyQueue DEF SqlPlaces, OnceId, IdsIn
<1>7. SqlPlaces' /\ InSqlQueues' = S \ ReqsIn(sql.done)
  BY <1>1, <1>4, <1>6 DEF SqlPlaces, InHand, InSqlQueues, S
<1>8. LdapPlaces' /\ (InLdapQueues \cup ldap.lost)' = L
  BY <1>1, <1>2, LdapStutter DEF L
<1>9. Types' /\ LdapThreads'
  BY <1>1, <1>2, <1>4, <1>5 DEF IInv, Types, LdapThreads
<1>10. ~Crashed' => Sound(req')
  BY DEF Crashed, Sound
<1> QED
  BY <1>5, <1>7, <1>8, <1>9, <1>10 DEF IInv

\* The main thread handles the answers of ldap.
LEMMA LdapNotifies ==
    ASSUME IInv, ~Crashed, LdapNotify
    PROVE  IInv'
<1> DEFINE S == InSqlQueues
           L == InLdapQueues \cup ldap.lost
           k == [ldap EXCEPT !.done = << >>]
           w == [q |-> req, l |-> k]
           v == FoldLeft(Answered, w, ldap.done)
           D == ReqsIn(ldap.done)
           Q == ReqsIn(ldap.queries)
<1>1. sql \in SqlType /\ req \in Table /\ ldap \in LdapType
      /\ SqlPlaces /\ LdapPlaces /\ LdapThreads /\ Exact(req, S, L)
  BY DEF IInv, Types
<1>2. /\ UNCHANGED <<loaded, sql>> /\ main = "idle" /\ main' = "ldap" /\ ldap.byte
      /\ req' = v.q /\ ldap' = v.l
  BY DEF LdapNotify, Idle
<1>3. ldap.done \in Seq(LdapAnswers) /\ OnceReq(ldap.done)
  BY <1>1 DEF LdapType, LdapPlaces
<1>4. k \in LdapType /\ k.done = << >> /\ k.queries = ldap.queries /\ k.batch = ldap.batch
      /\ k.lost = ldap.lost /\ k.up = ldap.up /\ k.exit = ldap.exit /\ k.pc = ldap.pc
  <2>1. << >> \in Seq(LdapAnswers)
    OBVIOUS
  <2> QED
    BY <1>1, <2>1 DEF LdapType
<1> HIDE DEF k
<1>5. w \in Books /\ w.q = req /\ w.l = k
  BY <1>1, <1>4 DEF Books
<1> HIDE DEF w
<1>6. ReqsIn(w.l.queries) = Q /\ OnceReq(w.l.queries) /\ Exact(w.q, S, L)
      /\ Q \cap D = {} /\ Q \subseteq L /\ D \subseteq L
  BY <1>1, <1>4, <1>5 DEF LdapPlaces, InLdapQueues
<1> HIDE DEF S, L, D, Q
<1>7. Handled(w, v, D, S, L)
  BY <1>3, <1>5, <1>6, AnsweredAll DEF D
<1> HIDE DEF v
<1>8. /\ v \in Books /\ OnceReq(v.l.queries) /\ Q \subseteq ReqsIn(v.l.queries)
      /\ ReqsIn(v.l.queries) \subseteq Q \cup D /\ SameLdap(k, v.l)
      /\ Sound(v.q) => Exact(v.q, S, (L \ D) \cup ReqsIn(v.l.queries))
  BY <1>5, <1>6, <1>7 DEF Handled
<1>9. /\ req' \in Table /\ ldap' \in LdapType
  BY <1>2, <1>8 DEF Books
<1>10. /\ ldap'.batch = ldap.batch /\ ldap'.done = << >> /\ ldap'.lost = ldap.lost
       /\ ldap'.up = ldap.up /\ ldap'.exit = ldap.exit
       /\ ldap'.pc = ldap.pc \/ (ldap.pc = "wait" /\ ldap'.pc = "send")
       /\ ldap'.queries = ldap.queries \/ ldap'.pc # "wait"
  BY <1>2, <1>4, <1>8 DEF SameLdap
<1>11. /\ OnceReq(ldap.queries)' /\ OnceReq(ldap.batch)' /\ OnceReq(ldap.done)'
       /\ ReqsIn(ldap.done)' = {} /\ ReqsIn(ldap.batch)' = ReqsIn(ldap.batch)
       /\ Q \subseteq ReqsIn(ldap.queries)' /\ ReqsIn(ldap.queries)' \subseteq Q \cup D
  BY <1>1, <1>2, <1>8, <1>10, EmptyQueue DEF LdapPlaces, OnceReq, ReqsIn
<1>12. LdapPlaces'
  BY <1>1, <1>10, <1>11 DEF LdapPlaces, Q, D
<1>13. (InLdapQueues \cup ldap.lost)' = (L \ D) \cup ReqsIn(ldap.queries)'
  <2>1. (InLdapQueues \cup ldap.lost)' = ReqsIn(ldap.queries)' \cup ReqsIn(ldap.batch) \cup ldap.lost
    BY <1>10, <1>11 DEF InLdapQueues
  <2>2. L \ D = Q \cup ReqsIn(ldap.batch) \cup ldap.lost
    BY <1>1 DEF LdapPlaces, InLdapQueues, L, D, Q
  <2> QED
    BY <1>11, <2>1, <2>2
<1>14. LdapThreads'
  BY <1>1, <1>2, <1>10 DEF LdapThreads
<1>15. SqlPlaces' /\ InSqlQueues' = S
  BY <1>1, <1>2, SqlStutter DEF S
<1>16. Types'
  BY <1>1, <1>2, <1>9 DEF IInv, Types
<1>17. ~Crashed' => Sound(req')
  BY DEF Crashed, Sound
<1>18. Sound(req') => Exact(req', InSqlQueues', (InLdapQueues \cup ldap.lost)')
  BY <1>2, <1>8, <1>13, <1>15
<1> QED
  BY <1>12, <1>14, <1>15, <1>16, <1>17, <1>18 DEF IInv

\* What is erased from the queue of mysql.
LEMMA Erased ==
    ASSUME sql \in SqlType, NEW R
    PROVE  LET e == EraseQueries(sql, R) IN
           /\ e \in SqlType /\ e.queries = Without(sql.queries, R) /\ e.done = sql.done
           /\ e.pc = sql.pc /\ e.cur = sql.cur
           /\ ~e.dangling => ~sql.dangling
           /\ ~e.dangling /\ InHand(sql) /\ sql.queries # << >> => sql.queries[1] \notin R
<1> DEFINE gone == {i \in DOMAIN sql.queries : sql.queries[i] \in R}
           Size(i)  == Len(sql.queries) - Cardinality({j \in gone : j > i})
           Moves(i) == i = 1 \/ i - 1 < Size(i) \div 2
           d == sql.dangling \/ (InHand(sql) /\ \E i \in gone : Moves(i))
           t == Without(sql.queries, R)
           e == [sql EXCEPT !.queries = t, !.dangling = d]
<1>1. EraseQueries(sql, R) = e
  BY DEF EraseQueries
<1>2. sql.queries \in Seq(Ids)
  BY DEF SqlType
<1>3. t \in Seq(Ids)
  BY <1>2, WithoutFacts
<1>4. d \in BOOLEAN /\ (~d => ~sql.dangling)
  BY DEF SqlType
<1>5. ~d /\ InHand(sql) /\ sql.queries # << >> => sql.queries[1] \notin R
  <2>1. sql.queries # << >> => 1 \in DOMAIN sql.queries
    BY <1>2
  <2>2. Moves(1)
    OBVIOUS
  <2> HIDE DEF Moves
  <2>3. sql.queries # << >> /\ sql.queries[1] \in R => \E i \in gone : Moves(i)
    BY <2>1, <2>2
  <2> QED
    BY <2>3
<1> HIDE DEF t, d
<1>6. e \in SqlType /\ e.queries = t /\ e.done = sql.done /\ e.pc = sql.pc /\ e.cur = sql.cur
      /\ e.dangling = d
  BY <1>3, <1>4 DEF SqlType
<1> HIDE DEF e
<1> QED
  BY <1>1, <1>4, <1>5, <1>6 DEF t

\* sql_authentication is unloaded.
LEMMA UnloadsSqlAuth ==
    ASSUME IInv, ~Crashed, UnloadSqlAuth
    PROVE  IInv'
<1> DEFINE S == InSqlQueues
           L == InLdapQueues \cup ldap.lost
           e == EraseQueries(sql, Reqs)
           q == DeliverAll(req, sql.done)
<1>1. sql \in SqlType /\ req \in Table /\ ldap \in LdapType /\ loaded \subseteq Holders
      /\ SqlPlaces /\ LdapPlaces /\ LdapThreads /\ Exact(req, S, L)
  BY DEF IInv, Types
<1>2. /\ UNCHANGED <<main, ldap>> /\ loaded' \subseteq Holders
      /\ req' = ModuleUnload(q, "sqlauth") /\ sql' = [e EXCEPT !.done = << >>]
  BY <1>1 DEF UnloadSqlAuth
<1>3. sql.done \in Seq(Answers) /\ sql.queries \in Seq(Ids)
  BY <1>1 DEF SqlType
<1>4. /\ e \in SqlType /\ e.queries = Without(sql.queries, Reqs)
      /\ e.pc = sql.pc /\ e.cur = sql.cur
      /\ ~e.dangling => ~sql.dangling
      /\ ~e.dangling /\ InHand(sql) /\ sql.queries # << >> => sql.queries[1] \notin Reqs
  BY <1>1, Erased
<1> HIDE DEF S, L, e, q
<1>5. /\ sql' \in SqlType /\ sql'.queries = e.queries /\ sql'.done = << >>
      /\ sql'.pc = e.pc /\ sql'.cur = e.cur /\ sql'.dangling = e.dangling
  <2>1. << >> \in Seq(Answers)
    OBVIOUS
  <2> QED
    BY <1>2, <1>4, <2>1 DEF SqlType
<1>6. /\ \A j \in DOMAIN e.queries : e.queries[j] \in Ids \ Reqs
      /\ sql.queries = << >> => e.queries = << >>
      /\ sql.queries # << >> /\ sql.queries[1] \notin Reqs =>
            e.queries # << >> /\ e.queries[1] = sql.queries[1]
  BY <1>3, <1>4, WithoutFacts
<1>7. \A j \in DOMAIN e.queries : e.queries[j] = None
  BY <1>6 DEF Ids
<1>8. IdsIn(sql.queries)' = {} /\ OnceId(sql.queries)' /\ ReqsIn(sql.done)' = {} /\ OnceReq(sql.done)'
  BY <1>5, <1>7, OthersId, EmptyQueue
<1>9. InHand(sql)' /\ ~sql'.dangling => sql'.queries # << >> /\ Head(sql'.queries) = sql'.cur
  <2> SUFFICES ASSUME InHand(sql)', ~sql'.dangling
               PROVE  sql'.queries # << >> /\ Head(sql'.queries) = sql'.cur
    OBVIOUS
  <2>1. InHand(sql) /\ ~sql.dangling /\ ~e.dangling
    BY <1>4, <1>5 DEF InHand
  <2>2. sql.queries # << >> /\ Head(sql.queries) = sql.cur
    BY <1>1, <2>1 DEF SqlPlaces
  <2>3. Head(sql.queries) = sql.queries[1]
    BY <1>3, <2>2
  <2>4. e.queries # << >> /\ e.queries[1] = sql.cur
    BY <1>4, <1>6, <2>1, <2>2, <2>3
  <2>5. Head(e.queries) = e.queries[1]
    BY <1>4 DEF SqlType
  <2> QED
    BY <1>4, <1>5, <2>4, <2>5
<1>10. sql'.queries # << >> => sql'.pc # "wait"
  BY <1>1, <1>4, <1>5, <1>6 DEF SqlPlaces
<1>11. SqlPlaces' /\ InSqlQueues' = {}
  BY <1>8, <1>9, <1>10 DEF SqlPlaces, InSqlQueues
<1>12. LdapPlaces' /\ (InLdapQueues \cup ldap.lost)' = L
  BY <1>1, <1>2, LdapStutter DEF L
<1>13. q \in Table /\ (Sound(q) => Exact(q, S \ ReqsIn(sql.done), L))
  BY <1>1, <1>3, DeliverAllExact DEF q
<1>14. req' \in Table
  BY <1>2, <1>13, UnloadTable
<1>15. Sound(req') => Sound(q)
  <2>1. Exact(q, {r \in Reqs : q[r].open /\ "sqlauth" \in q[r].holds},
                 {r \in Reqs : q[r].open /\ "ldapauth" \in q[r].holds})
    BY DEF Exact
  <2> QED
    BY <1>2, <1>13, <2>1, UnloadExact
<1>16. Sound(req') => Exact(req', {}, L)
  <2> SUFFICES ASSUME Sound(req') PROVE Exact(req', {}, L)
    OBVIOUS
  <2>1. Exact(q, S \ ReqsIn(sql.done), L)
    BY <1>13, <1>15
  <2>2. \A T : Exact(req', T \ Reqs, L)
    BY <1>2, <1>13, <2>1, UnloadExact
  <2>3. Exact(req', Reqs \ Reqs, L) /\ Reqs \ Reqs = {}
    BY <2>2
  <2> QED
    BY <2>3
<1>17. Types' /\ LdapThreads'
  BY <1>1, <1>2, <1>5, <1>14 DEF IInv, Types, LdapThreads
<1>18. ~Crashed' => Sound(req')
  BY DEF Crashed, Sound
<1> QED
  BY <1>11, <1>12, <1>16, <1>17, <1>18 DEF IInv

\* ldap_authentication is unloaded.
LEMMA UnloadsLdapAuth ==
    ASSUME IInv, ~Crashed, UnloadLdapAuth
    PROVE  IInv'
<1> DEFINE S == InSqlQueues
           L == InLdapQueues \cup ldap.lost
           ours == {e \in Entries : e.req # None}
           qs == Without(ldap.queries, ours)
           ds == Without(ldap.done, ours)
           z == ldap.queries \o ldap.done
           q == ReleaseAll(req, z)
<1>1. sql \in SqlType /\ req \in Table /\ ldap \in LdapType /\ loaded \subseteq Holders
      /\ SqlPlaces /\ LdapPlaces /\ LdapThreads /\ Exact(req, S, L)
  BY DEF IInv, Types
<1>2. /\ UNCHANGED <<main, sql>> /\ loaded' \subseteq Holders /\ ldap.pc # "process"
      /\ req' = ModuleUnload(q, "ldapauth")
      /\ ldap' = [ldap EXCEPT !.queries = qs, !.done = ds, !.lost = {}]
  BY <1>1 DEF UnloadLdapAuth
<1>3. ldap.queries \in Seq(LdapQueries) /\ ldap.done \in Seq(LdapAnswers) /\ ldap.batch = << >>
  BY <1>1, <1>2 DEF LdapType, LdapThreads
<1>4. qs \in Seq(LdapQueries) /\ (ldap.queries = << >> => qs = << >>)
  <2> HIDE DEF ours
  <2> QED
    BY <1>3, WithoutFacts
<1>5. ds \in Seq(LdapAnswers) /\ (ldap.done = << >> => ds = << >>)
  <2> HIDE DEF ours
  <2> QED
    BY <1>3, WithoutFacts
<1>6. \A j \in DOMAIN qs : qs[j].req = None
  <2> DEFINE X == ToSet(ldap.queries)
  <2>1. ldap.queries \in Seq(X)
    BY <1>3 DEF ToSet
  <2>2. X \ ours \subseteq {e \in X : e.req = None}
    BY DEF Entries
  <2> HIDE DEF X, ours
  <2>3. \A j \in DOMAIN qs : qs[j] \in X \ ours
    BY <2>1, WithoutFacts
  <2> QED
    BY <2>2, <2>3
<1>7. \A j \in DOMAIN ds : ds[j].req = None
  <2> DEFINE X == ToSet(ldap.done)
  <2>1. ldap.done \in Seq(X)
    BY <1>3 DEF ToSet
  <2>2. X \ ours \subseteq {e \in X : e.req = None}
    BY DEF Entries
  <2> HIDE DEF X, ours
  <2>3. \A j \in DOMAIN ds : ds[j] \in X \ ours
    BY <2>1, WithoutFacts
  <2> QED
    BY <2>2, <2>3
<1>8. z \in Seq(LdapEntries) /\ ReqsIn(z) = ReqsIn(ldap.queries) \cup ReqsIn(ldap.done)
  <2> DEFINE a == ldap.queries
             b == ldap.done
  <2>1. a \in Seq(LdapEntries) /\ b \in Seq(LdapEntries) /\ z = a \o b
    BY <1>3 DEF LdapEntries
  <2> HIDE DEF a, b, z
  <2>2. z \in Seq(LdapEntries) /\ Len(z) = Len(a) + Len(b) /\ DOMAIN z = 1..(Len(a) + Len(b))
        /\ DOMAIN a = 1..Len(a) /\ DOMAIN b = 1..Len(b) /\ Len(a) \in Nat /\ Len(b) \in Nat
        /\ (\A i \in 1..Len(a) : z[i] = a[i])
        /\ (\A i \in 1..Len(b) : z[Len(a) + i] = b[i])
    BY <2>1
  <2>3. \A i \in DOMAIN z : i \in DOMAIN a \/ (i - Len(a) \in DOMAIN b /\ i = Len(a) + (i - Len(a)))
    BY <2>2
  <2>4. \A i \in DOMAIN b : Len(a) + i \in DOMAIN z
    BY <2>2
  <2>5. \A i \in DOMAIN a : i \in DOMAIN z
    BY <2>2
  <2>6. ReqsIn(z) = ReqsIn(a) \cup ReqsIn(b)
    <3>1. ASSUME NEW r \in ReqsIn(z) PROVE r \in ReqsIn(a) \cup ReqsIn(b)
      <4>1. PICK i \in DOMAIN z : r = z[i].req /\ r # None
        BY DEF ReqsIn
      <4>2. CASE i \in DOMAIN a
        BY <2>2, <4>1, <4>2 DEF ReqsIn
      <4>3. CASE i - Len(a) \in DOMAIN b /\ i = Len(a) + (i - Len(a))
        <5>1. z[i] = b[i - Len(a)]
          BY <2>2, <4>3
        <5> QED
          BY <4>1, <4>3, <5>1 DEF ReqsIn
      <4> QED
        BY <2>3, <4>2, <4>3
    <3>2. ASSUME NEW r \in ReqsIn(a) PROVE r \in ReqsIn(z)
      <4>1. PICK i \in DOMAIN a : r = a[i].req /\ r # None
        BY DEF ReqsIn
      <4>2. z[i] = a[i]
        BY <2>2
      <4> QED
        BY <2>5, <4>1, <4>2 DEF ReqsIn
    <3>3. ASSUME NEW r \in ReqsIn(b) PROVE r \in ReqsIn(z)
      <4>1. PICK i \in DOMAIN b : r = b[i].req /\ r # None
        BY DEF ReqsIn
      <4>2. z[Len(a) + i] = b[i]
        BY <2>2
      <4> QED
        BY <2>4, <4>1, <4>2 DEF ReqsIn
    <3> QED
      BY <3>1, <3>2, <3>3
  <2> QED
    BY <2>2, <2>6 DEF a, b
<1> HIDE DEF S, L, ours, qs, ds, z, q
<1>9. /\ ldap' \in LdapType /\ ldap'.queries = qs /\ ldap'.done = ds /\ ldap'.batch = << >>
      /\ ldap'.lost = {} /\ ldap'.up = ldap.up /\ ldap'.exit = ldap.exit /\ ldap'.pc = ldap.pc
      /\ ldap'.byte = ldap.byte
  BY <1>1, <1>2, <1>3, <1>4, <1>5 DEF LdapType
<1>10. /\ ReqsIn(ldap.queries)' = {} /\ OnceReq(ldap.queries)'
       /\ ReqsIn(ldap.done)' = {} /\ OnceReq(ldap.done)'
       /\ ReqsIn(ldap.batch)' = {} /\ OnceReq(ldap.batch)'
  <2>1. ReqsIn(qs) = {} /\ OnceReq(qs) /\ ReqsIn(ds) = {} /\ OnceReq(ds)
    BY <1>6, <1>7, OthersReq
  <2> QED
    BY <1>9, <2>1, EmptyQueue
<1>11. LdapPlaces' /\ (InLdapQueues \cup ldap.lost)' = {}
  BY <1>9, <1>10 DEF LdapPlaces, InLdapQueues
<1>12. LdapThreads'
  BY <1>1, <1>2, <1>4, <1>5, <1>9 DEF LdapThreads
<1>13. SqlPlaces' /\ InSqlQueues' = S
  BY <1>1, <1>2, SqlStutter DEF S
<1>14. q \in Table /\ (Sound(q) => Exact(q, S, L \ ReqsIn(z)))
  BY <1>1, <1>8, ReleaseAllExact DEF q
<1>15. req' \in Table
  BY <1>2, <1>14, UnloadTable
<1>16. Sound(req') => Sound(q)
  <2>1. Exact(q, {r \in Reqs : q[r].open /\ "sqlauth" \in q[r].holds},
                 {r \in Reqs : q[r].open /\ "ldapauth" \in q[r].holds})
    BY DEF Exact
  <2> QED
    BY <1>2, <1>14, <2>1, UnloadExact
<1>17. Sound(req') => Exact(req', S, {})
  <2> SUFFICES ASSUME Sound(req') PROVE Exact(req', S, {})
    OBVIOUS
  <2>1. Exact(q, S, L \ ReqsIn(z))
    BY <1>14, <1>16
  <2>2. \A T : Exact(req', S, T \ Reqs)
    BY <1>2, <1>14, <2>1, UnloadExact
  <2>3. Exact(req', S, Reqs \ Reqs) /\ Reqs \ Reqs = {}
    BY <2>2
  <2> QED
    BY <2>3
<1>18. Types'
  BY <1>1, <1>2, <1>9, <1>15 DEF IInv, Types
<1>19. ~Crashed' => Sound(req')
  BY DEF Crashed, Sound
<1> QED
  BY <1>11, <1>12, <1>13, <1>17, <1>18, <1>19 DEF IInv

\* The module that made the requests is unloaded.
LEMMA UnloadsOwner ==
    ASSUME IInv, ~Crashed, UnloadOwner
    PROVE  IInv'
<1> DEFINE S == InSqlQueues
           L == InLdapQueues \cup ldap.lost
<1>1. req \in Table /\ Exact(req, S, L) /\ LdapPlaces /\ SqlPlaces
  BY DEF IInv, Types
<1>2. UNCHANGED <<loaded, main, sql, ldap>> /\ req' = ModuleUnload(req, "owner")
  BY DEF UnloadOwner
<1> HIDE DEF S, L
<1>3. req' \in Table
  BY <1>1, <1>2, UnloadTable
<1>4. Exact(req', S, L)
  BY <1>1, <1>2, UnloadExact
<1>5. SqlPlaces' /\ InSqlQueues' = S
  BY <1>1, <1>2, SqlStutter DEF S
<1>6. LdapPlaces' /\ (InLdapQueues \cup ldap.lost)' = L
  BY <1>1, <1>2, LdapStutter DEF L
<1>7. Types' /\ LdapThreads'
  BY <1>2, <1>3 DEF IInv, Types, LdapThreads
<1> QED
  BY <1>4, <1>5, <1>6, <1>7 DEF IInv

\* A connection of mysql is removed.
LEMMA RemovesSql ==
    ASSUME IInv, ~Crashed, RemoveSql
    PROVE  IInv'
<1> DEFINE S == InSqlQueues
           L == InLdapQueues \cup ldap.lost
           e == EraseQueries(sql, Reqs \cup {None})
           s == sql.queries
           z == [i \in DOMAIN s |-> [req |-> Reverse(s)[i], result |-> "no"]]
<1>1. sql \in SqlType /\ req \in Table /\ ldap \in LdapType
      /\ SqlPlaces /\ LdapPlaces /\ LdapThreads /\ Exact(req, S, L)
  BY DEF IInv, Types
<1>2. /\ UNCHANGED <<loaded, main, ldap>>
      /\ req' = DeliverAll(req, z) /\ sql' = [e EXCEPT !.up = FALSE]
  BY DEF RemoveSql
<1>3. s \in Seq(Ids)
  BY <1>1 DEF SqlType
<1>4. z \in Seq(Answers) /\ ReqsIn(z) = IdsIn(s)
  <2> HIDE DEF s
  <2>1. Len(s) \in Nat /\ DOMAIN s = 1..Len(s) /\ DOMAIN z = 1..Len(s)
    BY <1>3
  <2>2. \A i \in 1..Len(s) : Len(s) - i + 1 \in 1..Len(s) /\ Len(s) - (Len(s) - i + 1) + 1 = i
    BY <2>1
  <2>3. \A i \in 1..Len(s) : Reverse(s)[i] = s[Len(s) - i + 1]
    BY <2>1 DEF Reverse
  <2>4. \A i \in 1..Len(s) : z[i] = [req |-> s[Len(s) - i + 1], result |-> "no"]
    BY <2>1, <2>3
  <2>5. \A i \in 1..Len(s) : s[Len(s) - i + 1] \in Ids
    BY <1>3, <2>1, <2>2
  <2> HIDE DEF z
  <2>6. \A i \in 1..Len(s) : z[i] \in Answers
    <3>1. ASSUME NEW x \in Ids PROVE [req |-> x, result |-> "no"] \in Answers
      BY DEF Answers
    <3> QED
      BY <2>4, <2>5, <3>1
  <2>7. z \in [1..Len(s) -> Answers]
    <3>1. z = [i \in DOMAIN z |-> z[i]]
      BY DEF z
    <3> QED
      BY <2>1, <2>6, <3>1
  <2>8. z \in Seq(Answers)
    BY <2>1, <2>7
  <2>9. \A i \in 1..Len(s) : z[i].req = s[Len(s) - i + 1]
    <3>1. ASSUME NEW i \in 1..Len(s), NEW x, x = s[Len(s) - i + 1] PROVE z[i].req = x
      <4>1. z[i] = [req |-> x, result |-> "no"]
        BY <2>4, <3>1
      <4> QED
        BY <4>1
    <3> QED
      BY <3>1
  <2>10. ReqsIn(z) = IdsIn(s)
    BY <2>1, <2>2, <2>9 DEF ReqsIn, IdsIn
  <2> QED
    BY <2>8, <2>10
<1>5. /\ e \in SqlType /\ e.queries = Without(sql.queries, Ids) /\ e.done = sql.done
      /\ e.pc = sql.pc /\ e.cur = sql.cur
      /\ ~e.dangling => ~sql.dangling
      /\ ~e.dangling /\ InHand(sql) /\ sql.queries # << >> => sql.queries[1] \notin Ids
  BY <1>1, Erased DEF Ids
<1> HIDE DEF S, L, e, z
<1>6. e.queries = << >>
  <2>1. e.queries \in Seq(Ids) /\ \A j \in DOMAIN e.queries : e.queries[j] \in Ids \ Ids
    BY <1>3, <1>5, WithoutFacts
  <2>2. e.queries # << >> => 1 \in DOMAIN e.queries
    BY <2>1
  <2> QED
    BY <2>1, <2>2
<1>7. /\ sql' \in SqlType /\ sql'.queries = << >> /\ sql'.done = sql.done
      /\ sql'.pc = e.pc /\ sql'.cur = e.cur /\ sql'.dangling = e.dangling
  BY <1>2, <1>5, <1>6 DEF SqlType
<1>8. IdsIn(sql.queries)' = {} /\ OnceId(sql.queries)' /\ ReqsIn(sql.done)' = ReqsIn(sql.done)
      /\ OnceReq(sql.done)'
  BY <1>1, <1>7, EmptyQueue DEF SqlPlaces
<1>9. ~(InHand(sql)' /\ ~sql'.dangling)
  <2> SUFFICES ASSUME InHand(sql)', ~sql'.dangling PROVE FALSE
    OBVIOUS
  <2>1. InHand(sql) /\ ~sql.dangling /\ ~e.dangling
    BY <1>5, <1>7 DEF InHand
  <2>2. sql.queries # << >>
    BY <1>1, <2>1 DEF SqlPlaces
  <2>3. sql.queries[1] \in Ids
    BY <1>3, <2>2
  <2> QED
    BY <1>5, <2>1, <2>2, <2>3
<1>10. SqlPlaces' /\ InSqlQueues' = S \ ReqsIn(z)
  BY <1>1, <1>4, <1>7, <1>8, <1>9 DEF SqlPlaces, InSqlQueues, S
<1>11. LdapPlaces' /\ (InLdapQueues \cup ldap.lost)' = L
  BY <1>1, <1>2, LdapStutter DEF L
<1>12. req' \in Table /\ (Sound(req') => Exact(req', S \ ReqsIn(z), L))
  BY <1>1, <1>2, <1>4, DeliverAllExact
<1>13. Types' /\ LdapThreads'
  BY <1>1, <1>2, <1>7, <1>12 DEF IInv, Types, LdapThreads
<1>14. ~Crashed' => Sound(req')
  BY DEF Crashed, Sound
<1> QED
  BY <1>10, <1>11, <1>12, <1>13, <1>14 DEF IInv

\* A connection of ldap is gone, and its thread with it.
LEMMA LdapJoins ==
    ASSUME IInv, ~Crashed, LdapJoined
    PROVE  IInv'
<1> DEFINE S == InSqlQueues
           L == InLdapQueues \cup ldap.lost
           lost == ldap.lost \cup ({a.req : a \in ToSet(ldap.done)} \ {None})
<1>1. sql \in SqlType /\ req \in Table /\ ldap \in LdapType
      /\ SqlPlaces /\ LdapPlaces /\ LdapThreads /\ Exact(req, S, L)
  BY DEF IInv, Types
<1>2. /\ UNCHANGED <<loaded, sql>> /\ main' = "idle" /\ ldap.pc = "exit"
      /\ req' = ReleaseAll(req, ldap.queries)
      /\ ldap' = [ldap EXCEPT !.up = FALSE, !.queries = << >>, !.done = << >>, !.byte = FALSE,
                              !.lost = lost]
  BY DEF LdapJoined
<1>3. ldap.queries \in Seq(LdapEntries) /\ ldap.done \in Seq(LdapAnswers)
      /\ ldap.queries \in Seq(LdapQueries) /\ ldap.batch = << >> /\ ldap.exit
  BY <1>1, <1>2 DEF LdapType, LdapEntries, LdapThreads
<1>4. lost = ldap.lost \cup ReqsIn(ldap.done) /\ lost \subseteq Reqs
  <2>1. {a.req : a \in ToSet(ldap.done)} \ {None} = ReqsIn(ldap.done)
    BY DEF ToSet, ReqsIn
  <2>2. ReqsIn(ldap.done) \subseteq Reqs
    <3>1. \A i \in DOMAIN ldap.done : ldap.done[i] \in LdapAnswers
      BY <1>3
    <3>2. \A i \in DOMAIN ldap.done : ldap.done[i].req \in Ids
      BY <3>1 DEF LdapAnswers
    <3> QED
      BY <3>2 DEF ReqsIn, Ids
  <2> QED
    BY <1>1, <2>1, <2>2 DEF LdapType
<1> HIDE DEF S, L, lost
<1>5. /\ ldap' \in LdapType /\ ldap'.queries = << >> /\ ldap'.done = << >> /\ ldap'.batch = << >>
      /\ ldap'.lost = lost /\ ~ldap'.up /\ ldap'.exit /\ ldap'.pc = "exit" /\ ~ldap'.byte
  <2>1. << >> \in Seq(LdapQueries) /\ << >> \in Seq(LdapAnswers)
    OBVIOUS
  <2> QED
    BY <1>1, <1>2, <1>3, <1>4, <2>1 DEF LdapType
<1>6. LdapPlaces' /\ (InLdapQueues \cup ldap.lost)' = lost
  BY <1>5, EmptyQueue DEF LdapPlaces, InLdapQueues
<1>7. lost = L \ ReqsIn(ldap.queries)
  <2>1. ReqsIn(ldap.batch) = {}
    BY <1>3, EmptyQueue
  <2> QED
    BY <1>1, <1>4, <2>1 DEF LdapPlaces, InLdapQueues, L
<1>8. req' \in Table /\ (Sound(req') => Exact(req', S, L \ ReqsIn(ldap.queries)))
  BY <1>1, <1>2, <1>3, ReleaseAllExact
<1>9. SqlPlaces' /\ InSqlQueues' = S
  BY <1>1, <1>2, SqlStutter DEF S
<1>10. Types' /\ LdapThreads'
  BY <1>1, <1>2, <1>5, <1>8 DEF IInv, Types, LdapThreads
<1>11. ~Crashed' => Sound(req')
  BY DEF Crashed, Sound
<1> QED
  BY <1>6, <1>7, <1>8, <1>9, <1>10, <1>11 DEF IInv

-----------------------------------------------------------------------------
(* The theorems.                                                           *)

\* A step that leaves everything as it is.
LEMMA Stutters ==
    ASSUME IInv, UNCHANGED vars
    PROVE  IInv'
<1>1. UNCHANGED <<req, loaded, main, sql, ldap>>
  BY DEF vars
<1>2. Types' /\ LdapThreads' /\ (Crashed' => Crashed)
  BY <1>1 DEF IInv, Types, LdapThreads, Crashed
<1>3. SqlPlaces' /\ InSqlQueues' = InSqlQueues
  BY <1>1, SqlStutter DEF IInv
<1>4. LdapPlaces' /\ (InLdapQueues \cup ldap.lost)' = InLdapQueues \cup ldap.lost
  BY <1>1, LdapStutter DEF IInv
<1>5. ~Crashed => ~Crashed'
  BY <1>2
<1>6. Crashed => Crashed'
  BY <1>1 DEF Crashed
<1> QED
  BY <1>1, <1>2, <1>3, <1>4, <1>6 DEF IInv, Exact

\* Nothing is asked when the services start.
LEMMA InitIInv == Init => IInv
<1> SUFFICES ASSUME Init PROVE IInv
  OBVIOUS
<1>1. Closed \in Request /\ ToldRight(Closed) /\ ~Closed.open
  BY DEF Closed, Request, ToldRight
<1>2. req \in Table /\ \A r \in Reqs : ~req[r].open
  BY <1>1 DEF Init, Table
<1>3. sql \in SqlType /\ sql.queries = << >> /\ sql.done = << >> /\ sql.pc = "loop"
  BY DEF Init, SqlType, Ids
<1>4. ldap \in LdapType /\ ldap.queries = << >> /\ ldap.batch = << >> /\ ldap.done = << >>
      /\ ldap.lost = {} /\ ldap.pc = "top" /\ ~ldap.exit /\ ldap.up
  <2>1. << >> \in Seq(LdapQueries) /\ << >> \in Seq(LdapAnswers)
    OBVIOUS
  <2> QED
    BY <2>1 DEF Init, LdapType
<1>5. Types
  BY <1>2, <1>3, <1>4 DEF Init, Types
<1>6. SqlPlaces
  BY <1>3, EmptyQueue DEF SqlPlaces, InHand
<1>7. LdapPlaces
  BY <1>4, EmptyQueue DEF LdapPlaces
<1>8. LdapThreads
  BY <1>4 DEF LdapThreads, Init
<1> QED
  BY <1>2, <1>5, <1>6, <1>7, <1>8 DEF IInv, Exact

\* Every request waits for exactly those who have a query of it, whatever the
\* threads do and whatever is unloaded or removed, and every one in one place.
THEOREM Inductive == Spec => []IInv
<1>1. Init => IInv
  BY InitIInv
<1>2. IInv /\ [Next]_vars => IInv'
  <2> SUFFICES ASSUME IInv, [Next]_vars PROVE IInv'
    OBVIOUS
  <2>1. CASE UNCHANGED vars
    BY <2>1, Stutters
  <2>2. CASE Next
    <3>1. ~Crashed /\ (Outside \/ SqlThread \/ LdapThread \/ Main)
      BY <2>2 DEF Next
    <3>2. CASE Outside
      BY <3>1, <3>2, Identifies, OtherQueries, UnloadsSqlAuth, UnloadsLdapAuth, UnloadsOwner,
         MainMoves, RemovesSql DEF Outside
    <3>3. CASE SqlThread
      BY <3>1, <3>3, SqlMoves, SqlFinishes DEF SqlThread
    <3>4. CASE LdapThread
      BY <3>1, <3>4, LdapMoves, LdapTakes, LdapRuns DEF LdapThread
    <3>5. CASE Main
      BY <3>1, <3>5, SqlNotifies, LdapNotifies, MainMoves, LdapJoins DEF Main
    <3> QED
      BY <3>1, <3>2, <3>3, <3>4, <3>5
  <2> QED
    BY <2>1, <2>2
<1> QED
  BY <1>1, <1>2, PTL DEF Spec

\* Whoever answers first, last or twice, and whatever is unloaded meanwhile, the
\* client is told its verdict once (IdentifyRequest::Success and OnFail).
THEOREM ToldOnceHolds == Spec => []ToldOnce
<1>1. IInv => ToldOnce
  BY DEF IInv, Types, Table, ToldRight, ToldOnce
<1> QED
  BY <1>1, Inductive, PTL

\* A request waits for exactly the modules that have a query of it under way, so
\* that every hold has something that will release it.
THEOREM HoldsExactHolds == Spec => []HoldsExact
<1>1. IInv => TypeOK
  <2> SUFFICES ASSUME IInv PROVE TypeOK
    OBVIOUS
  <2>1. req \in [Reqs -> Request] /\ sql \in SqlType /\ ldap \in LdapType
        /\ loaded \subseteq Holders /\ main \in {"idle", "sql", "ldap", "join"}
    BY DEF IInv, Types, Table
  <2>2. ToSet(sql.queries) \subseteq Reqs \cup {None} /\ sql.pc \in {"loop", "wait", "took", "run", "ran"}
    <3>1. sql.queries \in Seq(Ids)
      BY <2>1 DEF SqlType
    <3>2. \A i \in DOMAIN sql.queries : sql.queries[i] \in Ids
      BY <3>1
    <3> QED
      BY <2>1, <3>2 DEF SqlType, ToSet, Ids
  <2>3. ldap.queries \in Seq(LdapQueries) /\ ldap.batch \in Seq(LdapQueries)
        /\ ldap.done \in Seq(LdapAnswers) /\ ldap.lost \subseteq Reqs
        /\ ldap.pc \in {"top", "check", "wait", "send", "process", "exit"}
    BY <2>1 DEF LdapType
  <2>4. Entries \subseteq LdapEntries
    BY <2>3 DEF Entries, ToSet, LdapEntries
  <2>5. \A e \in Entries : e.req \in Reqs \cup {None} /\ e.op \in LdapOps
    BY <2>4 DEF LdapEntries, LdapQueries, LdapAnswers, Ids
  <2>6. ldap.pc # "process" => ldap.batch = << >>
    BY DEF IInv, LdapThreads
  <2> QED
    BY <2>1, <2>2, <2>3, <2>5, <2>6 DEF TypeOK
<1>2. IInv => HoldsExact
  <2> SUFFICES ASSUME IInv, ~Crashed, NEW r \in Reqs, req[r].open
               PROVE  req[r].holds = {m \in Holders : IF m = "sqlauth" THEN r \in InSql
                                                      ELSE r \in InLdap \cup ldap.lost}
    BY <1>1 DEF HoldsExact
  <2>1. /\ "sqlauth" \in req[r].holds <=> r \in InSqlQueues
        /\ "ldapauth" \in req[r].holds <=> r \in InLdapQueues \cup ldap.lost
    BY DEF IInv, Exact
  <2>2. req[r].holds \subseteq Holders
    BY DEF IInv, Types, Table, Request
  <2>3. r \in InSqlQueues <=> r \in InSql
    BY NoneAssumption DEF InSqlQueues, InSql, IdsIn, ReqsIn, ToSet
  <2>4. r \in InLdapQueues <=> r \in InLdap
    BY NoneAssumption DEF InLdapQueues, InLdap, Entries, ReqsIn, ToSet
  <2> QED
    BY <2>1, <2>2, <2>3, <2>4 DEF Holders
<1> QED
  BY <1>2, Inductive, PTL

\* No query waits for a thread that sleeps or has ended, unless the main thread
\* waits for that end and answers the query then.
THEOREM NoneSleepsOnHolds == Spec => []NoneSleepsOn
<1>1. IInv => NoneSleepsOn
  <2> SUFFICES ASSUME IInv PROVE NoneSleepsOn
    OBVIOUS
  <2>1. SqlPlaces /\ LdapThreads
    BY DEF IInv
  <2>2. sql.queries # << >> => sql.pc # "wait"
    BY <2>1 DEF SqlPlaces
  <2>3. ldap.queries # << >> => ldap.pc \notin {"wait", "exit"} \/ main = "join"
    BY <2>1 DEF LdapThreads
  <2> QED
    BY <2>2, <2>3 DEF NoneSleepsOn
<1> QED
  BY <1>1, Inductive, PTL
=============================================================================
