------------------------------ MODULE OrderStore ------------------------------
(***************************************************************************)
(* The three adapters behind OrderStore (shared/storage) and their callers:*)
(* requests of the API's routes and handlers of the order worker.          *)
(*                                                                         *)
(* An order is its id and its status: the other fields never change after  *)
(* create().  Ids are fresh (UUIDs; in Redis, time and random letters).    *)
(***************************************************************************)
EXTENDS Functions

CONSTANTS
  Orders,
  Requests,     \* concurrent requests to the API
  Handlers,     \* concurrent handlers of order workers
  Processes,
  Deployments,  \* which process runs a caller: [Callers -> Processes]
  Server,       \* the Redis or PostgreSQL server
  Customer      \* a request

Callers == Requests \union Handlers

ASSUME StoreAssumption ==
  /\ Customer \in Requests
  /\ Deployments \subseteq [Callers -> Processes]
  /\ Server \notin Processes

VARIABLES
  store,   \* STORE
  host,    \* the deployment
  rows,    \* [places that store orders -> [Orders -> status, or "none"]]
  index,   \* the orders that Redis lists under orders:index
  outbox,  \* orders with an order.created row
  call     \* [Callers -> its request, how far it got, or the answer to it]

configVars == <<store, host>>
tableVars == <<rows, index, outbox>>
vars == <<configVars, tableVars, call>>

Statuses == {"PENDING", "CONFIRMED", "FAILED"}
Final    == {"CONFIRMED", "FAILED"}
Places   == Processes \union {Server}

Home(c)     == IF store = "in-memory" THEN host[c] ELSE Server
Existing(p) == {o \in Orders : rows[p][o] # "none"}

Idle == [op |-> "idle"]
Call ==
  [op : {"idle", "create"}]
    \union [op : {"find", "event", "commit"}, order : Orders]
    \union [op : {"list"}, since : SUBSET Orders]
    \union [op : {"mget"}, since : SUBSET Orders, ids : SUBSET Orders]
    \union [op : {"update", "set"}, order : Orders, to : Final]
    \union [op : {"answer"}, found : UNION {[S -> Statuses] : S \in SUBSET Orders}]

TypeOK ==
  /\ store \in {"in-memory", "redis", "postgres"}
  /\ host \in Deployments
  /\ rows \in [Places -> [Orders -> Statuses \union {"none"}]]
  /\ index \subseteq Orders
  /\ outbox \subseteq Orders
  /\ call \in [Callers -> Call]

Init ==
  /\ store \in {"in-memory", "redis", "postgres"}
  /\ host \in Deployments
  /\ rows = [p \in Places |-> [o \in Orders |-> "none"]]
  /\ index = {}
  /\ outbox = {}
  /\ call = [c \in Callers |-> Idle]
-----------------------------------------------------------------------------
Become(c, next)  == call' = [call EXCEPT ![c] = next]
Answer(c, found) == Become(c, [op |-> "answer", found |-> found])

Put(c, o, to) == rows' = [rows EXCEPT ![Home(c)][o] = to]
Row(c, o)     == rows[Home(c)][o]

\* The answer with these orders and their present statuses.
Read(c, S) == Restrict(rows[Home(c)], S)

\* POST /orders, GET /orders and GET /orders/:id.
Request(c) ==
  /\ c \in Requests
  /\ call[c] = Idle
  /\ \/ Become(c, [op |-> "create"])
     \/ Become(c, [op |-> "list", since |-> Existing(Home(c))])
     \/ \E o \in Orders : Become(c, [op |-> "find", order |-> o])
  /\ UNCHANGED <<configVars, tableVars>>

\* A handler of the order worker calls updateStatus.
Handle(c) ==
  /\ c \in Handlers
  /\ call[c] = Idle
  /\ \E o \in Orders, to \in Final : Become(c, [op |-> "update", order |-> o, to |-> to])
  /\ UNCHANGED <<configVars, tableVars>>

\* c has written its order in a transaction that is not committed.
InTransaction(c) == call[c].op \in {"event", "commit"}

\* Ids are not drawn twice.
Unused(o) ==
  /\ \A p \in Places : rows[p][o] = "none"
  /\ \A c \in Callers : InTransaction(c) => call[c].order # o

\* The order is stored and create() resolves.
AddOrder(c, o) ==
  /\ Put(c, o, "PENDING")
  /\ Answer(c, [p \in {o} |-> "PENDING"])

\* create: Map.set; or MULTI with SET and ZADD, which Redis executes as one.
Create(c) ==
  /\ call[c].op = "create"
  /\ store # "postgres"
  /\ \E o \in Orders :
       /\ Unused(o)
       /\ AddOrder(c, o)
       /\ index' = IF store = "redis" THEN index \union {o} ELSE index
  /\ UNCHANGED <<configVars, outbox>>

\* create in PostgreSQL is a transaction of two statements, whose rows nobody else
\* sees before it is committed.  First tx.order.create ...
InsertOrder(c) ==
  /\ call[c].op = "create"
  /\ store = "postgres"
  /\ \E o \in Orders : Unused(o) /\ Become(c, [op |-> "event", order |-> o])
  /\ UNCHANGED <<configVars, tableVars>>

\* Mutant of InsertEvent: it uses prisma, not tx, so the row is committed at once.
InsertEventOutside(c) ==
  /\ call[c].op = "event"
  /\ Become(c, [call[c] EXCEPT !.op = "commit"])
  /\ outbox' = outbox \union {call[c].order}
  /\ UNCHANGED <<configVars, rows, index>>

\* ... then tx.outbox.create ...
InsertEvent(c) ==
  /\ call[c].op = "event"
  /\ Become(c, [call[c] EXCEPT !.op = "commit"])
  /\ UNCHANGED <<configVars, tableVars>>

\* ... and COMMIT, after which both rows are there.
Commit(c) ==
  /\ call[c].op = "commit"
  /\ AddOrder(c, call[c].order)
  /\ outbox' = outbox \union {call[c].order}
  /\ UNCHANGED <<configVars, index>>

\* Mutant of FindById: a missing row is answered like any other.
FindAnything(c) ==
  /\ call[c].op = "find"
  /\ Answer(c, Read(c, {call[c].order}))
  /\ UNCHANGED <<configVars, tableVars>>

FindById(c) ==
  /\ call[c].op = "find"
  /\ Answer(c, Read(c, {call[c].order} \intersect Existing(Home(c))))
  /\ UNCHANGED <<configVars, tableVars>>

\* findAll of the map, and findMany of PostgreSQL.
FindAll(c) ==
  /\ call[c].op = "list"
  /\ store # "redis"
  /\ Answer(c, Read(c, Existing(Home(c))))
  /\ UNCHANGED <<configVars, tableVars>>

\* Mutant of Zrevrange: 0, 0 in place of 0, -1.
ZrevrangeNewest(c) ==
  /\ call[c].op = "list"
  /\ store = "redis"
  /\ \E ids \in SUBSET index :
       /\ \A o, p \in ids : o = p
       /\ Become(c, [op |-> "mget", since |-> call[c].since, ids |-> ids])
  /\ UNCHANGED <<configVars, tableVars>>

\* findAll of Redis reads the index first ...
Zrevrange(c) ==
  /\ call[c].op = "list"
  /\ store = "redis"
  /\ Become(c, [op |-> "mget", since |-> call[c].since, ids |-> index])
  /\ UNCHANGED <<configVars, tableVars>>

\* ... and then the records it names, which other callers may have changed; an
\* entry without a record is left out.
Mget(c) ==
  /\ call[c].op = "mget"
  /\ Answer(c, Read(c, call[c].ids \intersect Existing(Server)))
  /\ UNCHANGED <<configVars, tableVars>>

\* updateStatus of an order that is not there throws.
NotFound(c) ==
  /\ call[c].op = "update"
  /\ Row(c, call[c].order) = "none"
  /\ Answer(c, Read(c, {}))
  /\ UNCHANGED <<configVars, tableVars>>

\* updateStatus of the map and the UPDATE of PostgreSQL.
Update(c) ==
  /\ call[c].op = "update"
  /\ store # "redis"
  /\ Row(c, call[c].order) # "none"
  /\ Put(c, call[c].order, call[c].to)
  /\ Answer(c, [p \in {call[c].order} |-> call[c].to])
  /\ UNCHANGED <<configVars, index, outbox>>

\* updateStatus of Redis gets the record ...
Get(c) ==
  /\ call[c].op = "update"
  /\ store = "redis"
  /\ Row(c, call[c].order) # "none"
  /\ Become(c, [call[c] EXCEPT !.op = "set"])
  /\ UNCHANGED <<configVars, tableVars>>

\* ... and sets it as a whole, with the new status.
Set(c) ==
  /\ call[c].op = "set"
  /\ Put(c, call[c].order, call[c].to)
  /\ Answer(c, [p \in {call[c].order} |-> call[c].to])
  /\ UNCHANGED <<configVars, index, outbox>>

\* The route replies, the handler goes on or sees "Order not found".
Return(c) ==
  /\ call[c].op = "answer"
  /\ Become(c, Idle)
  /\ UNCHANGED <<configVars, tableVars>>

\* The server fails a command, or its answer is lost, or the pool is closed under
\* the call by a shutdown; the map never does.  An open transaction is rolled back.
Fail(c) ==
  /\ store # "in-memory"
  /\ call[c] # Idle
  /\ Become(c, Idle)
  /\ UNCHANGED <<configVars, tableVars>>

\* A process dies, with its calls, its open transactions and its map, and is
\* restarted.
Crash(p) ==
  /\ \E c \in Callers : host[c] = p
  /\ call' = [c \in Callers |-> IF host[c] = p THEN Idle ELSE call[c]]
  /\ rows' = [rows EXCEPT ![p] = [o \in Orders |-> "none"]]
  /\ UNCHANGED <<configVars, index, outbox>>

Step(c) ==
  \/ Create(c)
  \/ InsertOrder(c)
  \/ InsertEvent(c)
  \/ Commit(c)
  \/ FindById(c)
  \/ FindAll(c)
  \/ Zrevrange(c)
  \/ Mget(c)
  \/ NotFound(c)
  \/ Update(c)
  \/ Get(c)
  \/ Set(c)
  \/ Return(c)

Next ==
  \/ \E c \in Callers : Request(c) \/ Handle(c) \/ Step(c) \/ Fail(c)
  \/ \E p \in Processes : Crash(p)

Spec == Init /\ [][Next]_vars
-----------------------------------------------------------------------------
\* The transactional outbox: whatever fails or crashes between the statements of
\* create(), with PostgreSQL no event is left for an order that was rolled back,
\* and every order that is stored, or that any caller was ever shown, has its event.
EventWithOrder ==
  store = "postgres" =>
    /\ outbox = Existing(Server)
    /\ \A c \in Callers : call[c].op = "answer" => DOMAIN call[c].found \subseteq outbox

\* What a call that has come half way is to the Store: one that takes effect with
\* its last command.
Abstract(x) ==
  CASE x.op = "mget" -> [op |-> "list", since |-> x.since]
    [] x.op = "set"  -> [op |-> "update", order |-> x.order, to |-> x.to]
    [] x.op \in {"event", "commit"} -> [op |-> "create"]
    [] OTHER         -> x

\* The call of c as the customer's store sees it: a process with a map of its own
\* does not use that store.
CallAt(c) == IF Home(c) = Home(Customer) THEN Abstract(call[c]) ELSE Idle

S == INSTANCE Store WITH
       durable <- store # "in-memory",
       status  <- rows[Home(Customer)],
       call    <- [c \in Callers |-> CallAt(c)]

\* Redis reads and writes in two commands and without WATCH, PostgreSQL creates in
\* two statements, and findAll is not a snapshot, and yet every update counts, even
\* one that another overwrites with the record it read before, as if they came one
\* after the other, no caller reads what never was, and findAll misses no order
\* that existed when it was called.
ImplementsStore == S!Spec
===============================================================================
