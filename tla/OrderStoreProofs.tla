--------------------------- MODULE OrderStoreProofs ---------------------------
(***************************************************************************)
(* The order stores keep their types, store an order with its event, and   *)
(* implement Store, for any number of orders, requests and handlers and    *)
(* any deployment.                                                         *)
(***************************************************************************)
EXTENDS OrderStore, TLAPS

LEMMA HomeIsAPlace ==
  ASSUME TypeOK, NEW c \in Callers
  PROVE  Home(c) \in Places
BY StoreAssumption DEF TypeOK, Home, Places

\* What an update writes is a status.
LEMMA UpdateIsTyped ==
  ASSUME TypeOK, NEW c \in Callers, call[c].op \in {"update", "set"}
  PROVE  call[c] \in [op : {"update", "set"}, order : Orders, to : Final]
BY DEF TypeOK, Call

\* What a transaction writes is an order and its event.
LEMMA TransactionIsTyped ==
  ASSUME TypeOK, NEW c \in Callers, InTransaction(c)
  PROVE  call[c] \in [op : {"event", "commit"}, order : Orders]
BY DEF TypeOK, Call, InTransaction

Found == UNION {[X -> Statuses] : X \in SUBSET Orders}

LEMMA ReadIsTyped ==
  ASSUME TypeOK, NEW p \in Places, NEW X \in SUBSET Existing(p)
  PROVE  Restrict(rows[p], X) \in Found
<1>1. Restrict(rows[p], X) \in [X -> Statuses]
  BY DEF Restrict, Existing, TypeOK
<1> QED
  BY <1>1 DEF Found, Existing

LEMMA OneIsTyped ==
  ASSUME NEW o \in Orders, NEW to \in Statuses
  PROVE  [p \in {o} |-> to] \in Found
<1>1. [p \in {o} |-> to] \in [{o} -> Statuses]
  OBVIOUS
<1> QED
  BY <1>1 DEF Found

LEMMA AnswerIsTyped ==
  ASSUME TypeOK, NEW c \in Callers, NEW found \in Found, Answer(c, found)
  PROVE  call' \in [Callers -> Call]
<1>1. [op |-> "answer", found |-> found] \in Call
  BY DEF Call, Found
<1> QED
  BY <1>1 DEF TypeOK, Answer, Become

LEMMA PutIsTyped ==
  ASSUME TypeOK, NEW c \in Callers, NEW o \in Orders, NEW to \in Statuses, Put(c, o, to)
  PROVE  rows' \in [Places -> [Orders -> Statuses \union {"none"}]]
BY HomeIsAPlace DEF TypeOK, Put

\* What a call in progress has read is still there when it goes on: rows only
\* disappear with the process of every call that uses them.
Reading ==
  \A c \in Callers :
    /\ call[c].op = "list" => call[c].since \subseteq Existing(Home(c))
    /\ call[c].op = "mget" =>
         /\ store = "redis"
         /\ call[c].since \subseteq call[c].ids
         /\ call[c].ids \subseteq Existing(Home(c))
    /\ call[c].op = "set" => store = "redis" /\ call[c].order \in Existing(Home(c))

\* The orders of open transactions are new, each with a transaction of its own, and
\* the index of Redis names its records.
Writing ==
  /\ \A c \in Callers :
       InTransaction(c) =>
         /\ store = "postgres"
         /\ call[c].order \notin Existing(Server)
         /\ \A d \in Callers \ {c} : InTransaction(d) => call[d].order # call[c].order
  /\ store = "redis" => index = Existing(Server)

\* Every step of a call keeps the types.
LEMMA CallIsTyped ==
  ASSUME TypeOK, Reading, NEW c \in Callers,
         Request(c) \/ Handle(c) \/ Step(c) \/ Fail(c)
  PROVE  TypeOK'
<1> USE DEF configVars, tableVars
<1>1. CASE Request(c)
  <2>1. /\ [op |-> "create"] \in Call
        /\ [op |-> "list", since |-> Existing(Home(c))] \in Call
        /\ \A o \in Orders : [op |-> "find", order |-> o] \in Call
    BY DEF Call, Existing
  <2> QED
    BY <1>1, <2>1 DEF TypeOK, Request, Become
<1>2. CASE Handle(c)
  <2>1. \A o \in Orders, to \in Final : [op |-> "update", order |-> o, to |-> to] \in Call
    BY DEF Call
  <2> QED
    BY <1>2, <2>1 DEF TypeOK, Handle, Become
<1>3. CASE Create(c) \/ Commit(c)
  <2>1. PICK o \in Orders : /\ Put(c, o, "PENDING")
                            /\ Answer(c, [p \in {o} |-> "PENDING"])
                            /\ index' \in {index, index \union {o}}
                            /\ outbox' \in {outbox, outbox \union {o}}
    BY <1>3, TransactionIsTyped DEF Create, Commit, AddOrder, InTransaction
  <2>2. "PENDING" \in Statuses
    BY DEF Statuses
  <2>3. call' \in [Callers -> Call]
    BY <2>1, <2>2, OneIsTyped, AnswerIsTyped
  <2>4. rows' \in [Places -> [Orders -> Statuses \union {"none"}]]
    BY <2>1, <2>2, PutIsTyped
  <2> QED
    BY <1>3, <2>1, <2>3, <2>4 DEF TypeOK, Create, Commit
<1>4. CASE FindById(c) \/ FindAll(c) \/ Mget(c) \/ NotFound(c)
  <2>1. PICK X \in SUBSET Existing(Home(c)) : Answer(c, Read(c, X))
    <3>1. CASE Mget(c)
      BY <1>4, <3>1 DEF Mget, Reading, Home
    <3> QED
      BY <1>4, <3>1 DEF FindById, FindAll, NotFound
  <2>2. Read(c, X) \in Found
    BY HomeIsAPlace, ReadIsTyped DEF Read
  <2>3. call' \in [Callers -> Call]
    BY <2>1, <2>2, AnswerIsTyped
  <2> QED
    BY <1>4, <2>3 DEF TypeOK, FindById, FindAll, Mget, NotFound
<1>5. CASE Zrevrange(c)
  <2>1. call[c].since \in SUBSET Orders
    BY <1>5 DEF TypeOK, Zrevrange, Call
  <2>2. [op |-> "mget", since |-> call[c].since, ids |-> index] \in Call
    BY <2>1 DEF Call, TypeOK
  <2> QED
    BY <1>5, <2>2 DEF TypeOK, Zrevrange, Become
<1>6. CASE Get(c)
  <2>1. [call[c] EXCEPT !.op = "set"] \in Call
    BY <1>6, UpdateIsTyped DEF Get, Call
  <2> QED
    BY <1>6, <2>1 DEF TypeOK, Get, Become
<1>7. CASE Update(c) \/ Set(c)
  <2>1. call[c].order \in Orders /\ call[c].to \in Statuses
    BY <1>7, UpdateIsTyped DEF Update, Set, Final, Statuses
  <2>2. call' \in [Callers -> Call]
    BY <1>7, <2>1, OneIsTyped, AnswerIsTyped DEF Update, Set
  <2>3. rows' \in [Places -> [Orders -> Statuses \union {"none"}]]
    BY <1>7, <2>1, PutIsTyped DEF Update, Set
  <2> QED
    BY <1>7, <2>2, <2>3 DEF TypeOK, Update, Set
<1>8. CASE Return(c) \/ Fail(c)
  <2>1. Idle \in Call
    BY DEF Idle, Call
  <2> QED
    BY <1>8, <2>1 DEF TypeOK, Return, Fail, Become
<1>9. CASE InsertOrder(c)
  <2>1. \A o \in Orders : [op |-> "event", order |-> o] \in Call
    BY DEF Call
  <2> QED
    BY <1>9, <2>1 DEF TypeOK, InsertOrder, Become
<1>10. CASE InsertEvent(c)
  <2>1. [call[c] EXCEPT !.op = "commit"] \in Call
    BY <1>10, TransactionIsTyped DEF InsertEvent, InTransaction, Call
  <2> QED
    BY <1>10, <2>1 DEF TypeOK, InsertEvent, Become
<1> QED
  BY <1>1, <1>2, <1>3, <1>4, <1>5, <1>6, <1>7, <1>8, <1>9, <1>10 DEF Step

\* The crash of a process keeps the types.
LEMMA CrashIsTyped ==
  ASSUME TypeOK, NEW p \in Processes, Crash(p)
  PROVE  TypeOK'
<1>1. Idle \in Call
  BY DEF Idle, Call
<1>2. call' \in [Callers -> Call]
  BY <1>1 DEF Crash, TypeOK
<1>3. rows' \in [Places -> [Orders -> Statuses \union {"none"}]]
  BY DEF Crash, TypeOK, Places
<1> QED
  BY <1>2, <1>3 DEF Crash, TypeOK, configVars

\* A row that is written once is there for good.
LEMMA PutAddsRows ==
  ASSUME TypeOK, NEW c \in Callers, NEW o \in Orders, NEW to \in Statuses, Put(c, o, to)
  PROVE  /\ \A p \in Places : Existing(p) \subseteq Existing(p)'
         /\ Existing(Server)' = IF Home(c) = Server THEN Existing(Server) \union {o}
                                                   ELSE Existing(Server)
BY HomeIsAPlace DEF TypeOK, Put, Existing, Statuses, Places

\* What the steps of a call do to the rows.
LEMMA RowsGrow ==
  ASSUME TypeOK, NEW c \in Callers,
         Request(c) \/ Handle(c) \/ Step(c) \/ Fail(c)
  PROVE  \A p \in Places : Existing(p) \subseteq Existing(p)'
<1>1. CASE Create(c) \/ Commit(c)
  BY <1>1, PutAddsRows, TransactionIsTyped DEF Create, Commit, AddOrder, InTransaction, Statuses
<1>2. CASE Update(c) \/ Set(c)
  BY <1>2, PutAddsRows, UpdateIsTyped DEF Update, Set, Final, Statuses
<1>3. CASE UNCHANGED rows
  BY <1>3 DEF Existing
<1> QED
  BY <1>1, <1>2, <1>3 DEF tableVars, Step, Request, Handle, InsertOrder, InsertEvent,
                          FindById, FindAll, Zrevrange, Mget, NotFound, Get, Return, Fail

\* A call goes on by itself.
LEMMA OneCallMoves ==
  ASSUME TypeOK, NEW c \in Callers,
         Request(c) \/ Handle(c) \/ Step(c) \/ Fail(c)
  PROVE  /\ UNCHANGED <<store, host>>
         /\ \E x : Become(c, x)
         /\ \A d \in Callers \ {c} : call'[d] = call[d]
<1> USE DEF Step, Request, Handle, Create, InsertOrder, InsertEvent, Commit, FindById, FindAll,
            Zrevrange, Mget, NotFound, Update, Get, Set, Return, Fail
<1>1. UNCHANGED <<store, host>>
  BY DEF configVars
<1>2. PICK x : Become(c, x)
  BY DEF AddOrder, Answer
<1>3. \A d \in Callers \ {c} : call'[d] = call[d]
  BY <1>2 DEF Become, TypeOK
<1> QED
  BY <1>1, <1>2, <1>3

\* How a call goes on.
LEMMA CallEnds ==
  ASSUME TypeOK, NEW c \in Callers
  PROVE  /\ \/ Create(c) \/ Commit(c) \/ FindById(c) \/ FindAll(c) \/ Mget(c)
            \/ NotFound(c) \/ Update(c) \/ Set(c)
            => call'[c].op = "answer"
         /\ Return(c) \/ Fail(c) => call'[c].op = "idle"
         /\ Handle(c) => call'[c].op = "update"
<1>1. ASSUME NEW found, Answer(c, found)
      PROVE  call'[c].op = "answer"
  BY <1>1 DEF Answer, Become, TypeOK
<1>2. \/ Create(c) \/ Commit(c) \/ FindById(c) \/ FindAll(c) \/ Mget(c)
      \/ NotFound(c) \/ Update(c) \/ Set(c)
      => call'[c].op = "answer"
  BY <1>1 DEF Create, Commit, AddOrder, FindById, FindAll, Mget, NotFound, Update, Set
<1>3. Return(c) \/ Fail(c) => call'[c].op = "idle"
  BY DEF Return, Fail, Become, Idle, TypeOK
<1>4. Handle(c) => call'[c].op = "update"
  BY DEF Handle, Become, TypeOK
<1> QED
  BY <1>2, <1>3, <1>4

LEMMA ReadingIsKept ==
  ASSUME TypeOK, Reading, Writing, [Next]_vars
  PROVE  Reading'
<1>1. CASE UNCHANGED vars
  BY <1>1 DEF vars, configVars, tableVars, Reading, Existing, Home
<1>2. ASSUME NEW c \in Callers, Request(c) \/ Handle(c) \/ Step(c) \/ Fail(c)
      PROVE  Reading'
  <2>1. UNCHANGED <<store, host>> /\ \A d \in Callers \ {c} : call'[d] = call[d]
    BY <1>2, OneCallMoves
  <2>2. \A d \in Callers : Home(d)' = Home(d) /\ Home(d) \in Places
    BY <2>1, HomeIsAPlace DEF Home
  <2>3. \A p \in Places : Existing(p) \subseteq Existing(p)'
    BY <1>2, RowsGrow
  <2>4. CASE Request(c)
    BY <2>1, <2>2, <2>3, <2>4 DEF Reading, Request, Become, TypeOK
  <2>5. CASE Zrevrange(c)
    <3>1. Home(c) = Server /\ index = Existing(Server) /\ store = "redis"
      BY <2>5 DEF Zrevrange, Home, Writing
    <3>2. call'[c] = [op |-> "mget", since |-> call[c].since, ids |-> Existing(Server)]
      BY <2>5, <3>1 DEF Zrevrange, Become, TypeOK
    <3>3. call[c].since \subseteq Existing(Server)
      BY <2>5, <3>1 DEF Zrevrange, Reading
    <3> QED
      BY <2>1, <2>2, <2>3, <3>1, <3>2, <3>3 DEF Reading
  <2>6. CASE Get(c)
    <3>1. call[c].order \in Existing(Home(c))
      BY <2>6, UpdateIsTyped DEF Get, Row, Existing
    <3>2. call'[c].op = "set" /\ call'[c].order = call[c].order
      BY <2>6, UpdateIsTyped DEF Get, Become, TypeOK
    <3> QED
      BY <2>1, <2>2, <2>3, <2>6, <3>1, <3>2 DEF Reading, Get
  <2>7. CASE call'[c].op \notin {"list", "mget", "set"}
    BY <2>1, <2>2, <2>3, <2>7 DEF Reading
  <2>8. CASE InsertOrder(c) \/ InsertEvent(c)
    <3>1. call'[c].op \in {"event", "commit"}
      BY <2>8, TransactionIsTyped DEF InsertOrder, InsertEvent, InTransaction, Become, TypeOK
    <3> QED
      BY <2>7, <3>1
  <2> QED
    BY <1>2, <2>4, <2>5, <2>6, <2>7, <2>8, CallEnds DEF Step
<1>3. ASSUME NEW p \in Processes, Crash(p)
      PROVE  Reading'
  <2>1. UNCHANGED <<store, host>>
    BY <1>3 DEF Crash, configVars
  <2>2. ASSUME NEW d \in Callers, host[d] = p
        PROVE  call'[d].op = "idle"
    BY <1>3, <2>2 DEF Crash, Idle
  <2>3. ASSUME NEW d \in Callers, host[d] # p
        PROVE  call'[d] = call[d] /\ Home(d)' = Home(d) /\ Existing(Home(d))' = Existing(Home(d))
    <3>1. Home(d) \in Places /\ Home(d) # p
      BY <2>3, HomeIsAPlace, StoreAssumption DEF Home
    <3>2. Home(d)' = Home(d) /\ rows'[Home(d)] = rows[Home(d)]
      BY <1>3, <2>1, <3>1 DEF Crash, TypeOK, Home
    <3> QED
      BY <1>3, <2>3, <3>2 DEF Crash, Existing
  <2> QED
    BY <2>1, <2>2, <2>3 DEF Reading
<1> QED
  BY <1>1, <1>2, <1>3 DEF Next

LEMMA WritingIsKept ==
  ASSUME TypeOK, Reading, Writing, [Next]_vars
  PROVE  Writing'
<1>1. CASE UNCHANGED vars
  BY <1>1 DEF vars, configVars, tableVars, Writing, InTransaction, Existing
<1>2. ASSUME NEW c \in Callers, Request(c) \/ Handle(c) \/ Step(c) \/ Fail(c)
      PROVE  Writing'
  <2>1. UNCHANGED <<store, host>> /\ \A d \in Callers \ {c} : call'[d] = call[d]
    BY <1>2, OneCallMoves
  <2>2. Server \in Places /\ Home(c) \in Places
    BY HomeIsAPlace DEF Places
  <2>3. CASE Create(c) \/ Commit(c)
    <3>1. PICK o \in Orders : /\ Put(c, o, "PENDING")
                              /\ \A d \in Callers \ {c} : InTransaction(d) => call[d].order # o
                              /\ index' = IF store = "redis" THEN index \union {o} ELSE index
      <4>1. CASE Create(c)
        BY <4>1 DEF Create, AddOrder, Unused
      <4>2. CASE Commit(c)
        <5>1. InTransaction(c) /\ call[c].order \in Orders
          BY <4>2, TransactionIsTyped DEF Commit, InTransaction
        <5>2. store = "postgres"
          BY <5>1 DEF Writing
        <5> QED
          BY <4>2, <5>1, <5>2 DEF Commit, AddOrder, Writing
      <4> QED
        BY <2>3, <4>1, <4>2
    <3>2. Existing(Server)' = IF Home(c) = Server THEN Existing(Server) \union {o}
                                                 ELSE Existing(Server)
      BY <3>1, PutAddsRows DEF Statuses
    <3>3. ~ InTransaction(c)'
      BY <2>3, CallEnds DEF InTransaction
    <3> QED
      BY <2>1, <3>1, <3>2, <3>3 DEF Writing, InTransaction, Home
  <2>4. CASE Update(c) \/ Set(c)
    <3>1. call[c].order \in Orders /\ call[c].to \in Statuses
      BY <2>4, UpdateIsTyped DEF Update, Set, Final, Statuses
    <3>2. call[c].order \in Existing(Home(c)) /\ index' = index
      BY <2>4, <3>1 DEF Update, Set, Reading, Row, Existing
    <3>3. Existing(Server)' = Existing(Server)
      BY <2>4, <3>1, <3>2, PutAddsRows DEF Update, Set
    <3>4. ~ InTransaction(c)'
      BY <2>4, CallEnds DEF InTransaction
    <3> QED
      BY <2>1, <3>2, <3>3, <3>4 DEF Writing, InTransaction
  <2>5. ASSUME UNCHANGED tableVars, ~ InTransaction(c)'
        PROVE  Writing'
    BY <2>1, <2>5 DEF Writing, InTransaction, Existing, tableVars
  <2>6. CASE InsertOrder(c)
    <3>1. PICK o \in Orders : Unused(o) /\ Become(c, [op |-> "event", order |-> o])
      BY <2>6 DEF InsertOrder
    <3>2. call'[c] = [op |-> "event", order |-> o] /\ o \notin Existing(Server)
      BY <2>2, <3>1 DEF Become, TypeOK, Unused, Existing
    <3>3. \A d \in Callers : InTransaction(d) => call[d].order # o
      BY <3>1 DEF Unused
    <3> QED
      BY <2>1, <2>6, <3>2, <3>3 DEF Writing, InTransaction, InsertOrder, tableVars, Existing
  <2>7. CASE InsertEvent(c)
    <3>1. /\ InTransaction(c) /\ InTransaction(c)' /\ call'[c].order = call[c].order
      BY <2>7, TransactionIsTyped DEF InsertEvent, InTransaction, Become, TypeOK
    <3> QED
      BY <2>1, <2>7, <3>1 DEF Writing, InTransaction, InsertEvent, tableVars, Existing
  <2>8. CASE Request(c) \/ Zrevrange(c) \/ Get(c)
    <3>1. call'[c].op \in {"create", "list", "find", "mget", "set"}
      BY <2>8, UpdateIsTyped DEF Request, Zrevrange, Get, Become, TypeOK
    <3> QED
      BY <2>5, <2>8, <3>1 DEF Request, Zrevrange, Get, InTransaction
  <2>9. CASE \/ FindById(c) \/ FindAll(c) \/ Mget(c) \/ NotFound(c)
             \/ Return(c) \/ Fail(c) \/ Handle(c)
    <3>1. ~ InTransaction(c)'
      BY <2>9, CallEnds DEF InTransaction
    <3> QED
      BY <2>5, <2>9, <3>1 DEF FindById, FindAll, Mget, NotFound, Return, Fail, Handle
  <2> QED
    BY <1>2, <2>3, <2>4, <2>6, <2>7, <2>8, <2>9 DEF Step
<1>3. ASSUME NEW p \in Processes, Crash(p)
      PROVE  Writing'
  <2>1. UNCHANGED <<store, index>> /\ rows'[Server] = rows[Server]
    BY <1>3, StoreAssumption DEF Crash, configVars, TypeOK, Places
  <2>2. \A d \in Callers : call'[d] = call[d] \/ ~ InTransaction(d)'
    BY <1>3 DEF Crash, Idle, InTransaction
  <2> QED
    BY <2>1, <2>2 DEF Writing, InTransaction, Existing
<1> QED
  BY <1>1, <1>2, <1>3 DEF Next

IInv == TypeOK /\ Reading /\ Writing

LEMMA InductiveInvariant == Spec => []IInv
<1>1. Init => IInv
  <2>1. Idle \in Call /\ Idle.op = "idle"
    BY DEF Idle, Call
  <2> QED
    BY <2>1 DEF Init, IInv, TypeOK, Reading, Writing, InTransaction, Existing, Places
<1>2. IInv /\ [Next]_vars => IInv'
  <2> SUFFICES ASSUME IInv, [Next]_vars
               PROVE  IInv'
    OBVIOUS
  <2>1. TypeOK'
    <3>1. CASE UNCHANGED vars
      BY <3>1 DEF IInv, TypeOK, vars, configVars, tableVars
    <3> QED
      BY <3>1, CallIsTyped, CrashIsTyped DEF IInv, Next
  <2> QED
    BY <2>1, ReadingIsKept, WritingIsKept DEF IInv
<1> QED
  BY <1>1, <1>2, PTL DEF Spec

\* Rows, calls and answers stay in their types.
THEOREM TypeCorrect == Spec => []TypeOK
BY InductiveInvariant, PTL DEF IInv

\* With PostgreSQL, for any interleaving of the statements of any transactions, and
\* any failures, crashes and shutdowns among them, an order is stored if and only if
\* its event is, and nobody is shown an order without one.
THEOREM OrderAndEventTogether == Spec => []EventWithOrder
<1>1. Init => EventWithOrder
  BY DEF Init, EventWithOrder, Existing, Places, Idle
<1>2. IInv /\ EventWithOrder /\ [Next]_vars => EventWithOrder'
  <2> SUFFICES ASSUME IInv, EventWithOrder, [Next]_vars, store' = "postgres"
               PROVE  /\ outbox' = Existing(Server)'
                      /\ \A c \in Callers :
                           call'[c].op = "answer" => DOMAIN call'[c].found \subseteq outbox'
    BY DEF EventWithOrder
  <2> USE DEF IInv
  <2>1. store = "postgres"
    BY OneCallMoves DEF vars, configVars, Next, Crash
  <2>2. /\ outbox = Existing(Server)
        /\ \A c \in Callers : call[c].op = "answer" => DOMAIN call[c].found \subseteq outbox
        /\ \A c \in Callers : Home(c) = Server
    BY <2>1 DEF EventWithOrder, Home
  <2> DEFINE G == /\ outbox' = Existing(Server)'
                  /\ \A c \in Callers :
                       call'[c].op = "answer" => DOMAIN call'[c].found \subseteq outbox'
  <2>3. CASE UNCHANGED vars
    BY <2>2, <2>3 DEF vars, tableVars, Existing
  <2>4. ASSUME NEW c \in Callers, \A d \in Callers \ {c} : call'[d] = call[d],
               outbox' = Existing(Server)', outbox \subseteq outbox',
               call'[c].op = "answer" => DOMAIN call'[c].found \subseteq outbox'
        PROVE  G
    BY <2>2, <2>4
  <2>5. ASSUME NEW c \in Callers, Commit(c)
        PROVE  G
    <3>1. call[c].order \in Orders
      BY <2>5, TransactionIsTyped DEF Commit, InTransaction
    <3>2. outbox' = outbox \union {call[c].order} /\ outbox' = Existing(Server)'
      BY <2>2, <2>5, <3>1, PutAddsRows DEF Commit, AddOrder, Statuses
    <3>3. call'[c].found = [p \in {call[c].order} |-> "PENDING"]
      BY <2>5 DEF Commit, AddOrder, Answer, Become, TypeOK
    <3> QED
      BY <2>4, <2>5, <3>2, <3>3, OneCallMoves DEF Step
  <2>6. ASSUME NEW c \in Callers, Update(c)
        PROVE  G
    <3>1. call[c].order \in Orders /\ call[c].to \in Statuses /\ call[c].order \in outbox
      BY <2>2, <2>6, UpdateIsTyped DEF Update, Final, Statuses, Row, Existing
    <3>2. outbox' = outbox /\ outbox' = Existing(Server)'
      BY <2>2, <2>6, <3>1, PutAddsRows DEF Update
    <3>3. call'[c].found = [p \in {call[c].order} |-> call[c].to]
      BY <2>6 DEF Update, Answer, Become, TypeOK
    <3> QED
      BY <2>4, <2>6, <3>1, <3>2, <3>3, OneCallMoves DEF Step
  <2>7. ASSUME NEW c \in Callers, NEW X \in SUBSET Existing(Server), Answer(c, Read(c, X)),
               UNCHANGED tableVars, Step(c)
        PROVE  G
    <3>1. DOMAIN call'[c].found = X
      BY <2>7 DEF Answer, Become, Read, Restrict, TypeOK
    <3>2. outbox' = outbox /\ outbox' = Existing(Server)'
      BY <2>2, <2>7 DEF tableVars, Existing
    <3> QED
      BY <2>2, <2>4, <2>7, <3>1, <3>2, OneCallMoves
  <2>8. ASSUME NEW c \in Callers, FindById(c) \/ FindAll(c) \/ NotFound(c)
        PROVE  G
    BY <2>2, <2>7, <2>8 DEF FindById, FindAll, NotFound, Step
  <2>9. ASSUME NEW c \in Callers, call'[c].op # "answer", UNCHANGED tableVars,
               Request(c) \/ Handle(c) \/ Step(c) \/ Fail(c)
        PROVE  G
    <3>1. outbox' = outbox /\ outbox' = Existing(Server)'
      BY <2>2, <2>9 DEF tableVars, Existing
    <3> QED
      BY <2>4, <2>9, <3>1, OneCallMoves
  <2>10. ASSUME NEW c \in Callers, InsertOrder(c) \/ InsertEvent(c) \/ Request(c)
         PROVE  G
    <3>1. call'[c].op \in {"event", "commit", "create", "list", "find"}
      BY <2>10, TransactionIsTyped DEF InsertOrder, InsertEvent, Request, InTransaction, Become,
         TypeOK
    <3> QED
      BY <2>9, <2>10, <3>1 DEF InsertOrder, InsertEvent, Request, Step
  <2>11. ASSUME NEW c \in Callers, Return(c) \/ Fail(c) \/ Handle(c)
         PROVE  G
    BY <2>9, <2>11, CallEnds DEF Return, Fail, Handle, Step
  <2>12. ASSUME NEW c \in Callers, Create(c) \/ Zrevrange(c) \/ Get(c) \/ Mget(c) \/ Set(c)
         PROVE  FALSE
    BY <2>1, <2>12 DEF Create, Zrevrange, Get, Mget, Set, Reading
  <2>13. ASSUME NEW p \in Processes, Crash(p)
         PROVE  G
    <3>1. rows'[Server] = rows[Server] /\ outbox' = outbox
      BY <2>13, StoreAssumption DEF Crash, TypeOK, Places
    <3>2. \A c \in Callers : call'[c] = call[c] \/ call'[c].op = "idle"
      BY <2>13 DEF Crash, Idle
    <3> QED
      BY <2>2, <3>1, <3>2 DEF Existing
  <2> QED
    BY <2>3, <2>5, <2>6, <2>8, <2>10, <2>11, <2>12, <2>13 DEF Next, Step
<1> QED
  BY <1>1, <1>2, InductiveInvariant, PTL DEF Spec
-----------------------------------------------------------------------------
(* The stores implement Store. *)

Seen  == [c \in Callers |-> CallAt(c)]
Local(c) == Home(c) = Home(Customer)

LEMMA CustomerCalls == Customer \in Callers
BY StoreAssumption DEF Callers

\* A step of one call is a step of that call for the customer's store, or none.
LEMMA SeenBecomes ==
  ASSUME TypeOK, NEW c \in Callers, NEW x, Become(c, x), UNCHANGED <<store, host>>
  PROVE  /\ Local(c) => Seen' = [Seen EXCEPT ![c] = Abstract(x)]
         /\ ~ Local(c) => Seen' = Seen
<1>1. \A d \in Callers : Home(d)' = Home(d) /\ Home(Customer)' = Home(Customer)
  BY CustomerCalls DEF Home
<1>2. \A d \in Callers \ {c} : call'[d] = call[d]
  BY DEF Become, TypeOK
<1>3. call'[c] = x
  BY DEF Become, TypeOK
<1>4. \A d \in Callers \ {c} : CallAt(d)' = CallAt(d)
  BY <1>1, <1>2 DEF CallAt, Abstract
<1>5. CallAt(c)' = IF Local(c) THEN Abstract(x) ELSE Idle
  BY <1>1, <1>3 DEF CallAt, Abstract, Local
<1>6. ~ Local(c) => CallAt(c) = Idle
  BY DEF CallAt, Local
<1> QED
  BY <1>4, <1>5, <1>6 DEF Seen

LEMMA SeenAnswer ==
  ASSUME TypeOK, NEW c \in Callers, NEW found, Answer(c, found), UNCHANGED <<store, host>>,
         Local(c)
  PROVE  Seen' = [Seen EXCEPT ![c] = [op |-> "answer", found |-> found]]
<1>1. Abstract([op |-> "answer", found |-> found]) = [op |-> "answer", found |-> found]
  BY DEF Abstract
<1> QED
  BY <1>1, SeenBecomes DEF Answer

\* The customer's store is untouched by callers of other stores.
LEMMA OtherStores ==
  ASSUME TypeOK, NEW c \in Callers, ~ Local(c),
         Request(c) \/ Handle(c) \/ Step(c) \/ Fail(c)
  PROVE  UNCHANGED S!vars
<1>1. UNCHANGED <<store, host>>
  BY OneCallMoves
<1>2. PICK x : Become(c, x)
  BY OneCallMoves
<1>3. Seen' = Seen
  BY <1>1, <1>2, SeenBecomes
<1>4. Home(Customer)' = Home(Customer) /\ Home(Customer) \in Places
  BY <1>1, CustomerCalls, HomeIsAPlace DEF Home
<1>5. rows'[Home(Customer)] = rows[Home(Customer)]
  <2>1. \A o, to : Put(c, o, to) => rows'[Home(Customer)] = rows[Home(Customer)]
    BY <1>4 DEF Local, TypeOK, Put
  <2>2. rows' = rows \/ \E o, to : Put(c, o, to)
    BY DEF Step, Request, Handle, Create, InsertOrder, InsertEvent, Commit, AddOrder, FindById,
           FindAll, Zrevrange, Mget, NotFound, Update, Get, Set, Return, Fail, tableVars
  <2> QED
    BY <2>1, <2>2
<1> QED
  BY <1>1, <1>3, <1>4, <1>5 DEF S!vars, Seen

\* What the store of the customer contains, before and after a step of a call.
LEMMA CustomersRows ==
  ASSUME TypeOK, NEW c \in Callers, Local(c), UNCHANGED <<store, host>>
  PROVE  /\ Home(Customer) \in Places
         /\ Home(Customer)' = Home(Customer)
         /\ Home(c) = Home(Customer)
         /\ S!Existing = Existing(Home(c))
         /\ rows' = rows => rows'[Home(Customer)] = rows[Home(Customer)]
         /\ \A o, to : Put(c, o, to) =>
              rows'[Home(Customer)] = [rows[Home(Customer)] EXCEPT ![o] = to]
BY CustomerCalls, HomeIsAPlace DEF Local, Home, S!Existing, Existing, Put, TypeOK

\* The calls that start, and the commands that only read ahead.
LEMMA StartStep ==
  ASSUME IInv, NEW c \in Callers, Local(c),
         \/ Request(c) \/ Handle(c) \/ Zrevrange(c) \/ Get(c)
         \/ InsertOrder(c) \/ InsertEvent(c)
  PROVE  S!Next \/ UNCHANGED S!vars
<1> USE DEF IInv
<1>1. UNCHANGED <<store, host>> /\ rows' = rows
  BY DEF configVars, tableVars, Request, Handle, Zrevrange, Get, InsertOrder, InsertEvent
<1>2. rows[Home(Customer)]' = rows[Home(Customer)] /\ S!Existing = Existing(Home(c))
  BY <1>1, CustomersRows
<1>3. ASSUME NEW x, Become(c, x), Abstract(x) = x
      PROVE  Seen' = [Seen EXCEPT ![c] = x]
  BY <1>1, <1>3, SeenBecomes
<1>4. CASE Request(c) \/ Handle(c)
  <2>1. Seen[c] = S!Idle
    BY <1>4 DEF Seen, CallAt, Abstract, Local, Idle, S!Idle, Request, Handle
  <2>2. PICK x : /\ Become(c, x)
                 /\ \/ x = [op |-> "create"]
                    \/ x = [op |-> "list", since |-> S!Existing]
                    \/ \E o \in Orders : x = [op |-> "find", order |-> o]
                    \/ \E o \in Orders, to \in Final :
                         x = [op |-> "update", order |-> o, to |-> to]
    BY <1>2, <1>4 DEF Request, Handle
  <2>3. Abstract(x) = x
    BY <2>2 DEF Abstract
  <2>4. Seen' = [Seen EXCEPT ![c] = x]
    BY <1>3, <2>2, <2>3
  <2>5. S!Invoke(c)
    BY <1>1, <1>2, <2>1, <2>2, <2>4 DEF S!Invoke, S!Final, Final, Seen
  <2> QED
    BY <2>5 DEF S!Next
<1>5. CASE Zrevrange(c) \/ Get(c) \/ InsertOrder(c) \/ InsertEvent(c)
  <2>1. PICK x : Become(c, x) /\ Abstract(x) = Abstract(call[c])
    <3>1. CASE Zrevrange(c)
      <4>1. call[c] \in [op : {"list"}, since : SUBSET Orders]
        BY <3>1 DEF Zrevrange, TypeOK, Call
      <4>2. Become(c, [op |-> "mget", since |-> call[c].since, ids |-> index])
        BY <3>1 DEF Zrevrange
      <4>3. Abstract([op |-> "mget", since |-> call[c].since, ids |-> index])
              = [op |-> "list", since |-> call[c].since]
        BY DEF Abstract
      <4>4. Abstract(call[c]) = [op |-> "list", since |-> call[c].since]
        BY <4>1 DEF Abstract
      <4> QED
        BY <4>2, <4>3, <4>4
    <3>2. CASE Get(c)
      <4>1. /\ call[c].op = "update"
            /\ call[c] = [op |-> "update", order |-> call[c].order, to |-> call[c].to]
        BY <3>2, UpdateIsTyped DEF Get
      <4>2. [call[c] EXCEPT !.op = "set"]
              = [op |-> "set", order |-> call[c].order, to |-> call[c].to]
        BY <4>1
      <4> QED
        BY <3>2, <4>1, <4>2 DEF Get, Abstract
    <3>3. CASE InsertOrder(c)
      <4>1. call[c] = [op |-> "create"]
        BY <3>3 DEF InsertOrder, TypeOK, Call
      <4> QED
        BY <3>3, <4>1 DEF InsertOrder, Abstract
    <3>4. CASE InsertEvent(c)
      <4>1. call[c] = [op |-> "event", order |-> call[c].order]
        BY <3>4, TransactionIsTyped DEF InsertEvent, InTransaction
      <4>2. [call[c] EXCEPT !.op = "commit"] = [op |-> "commit", order |-> call[c].order]
        BY <4>1
      <4> QED
        BY <3>4, <4>1, <4>2 DEF InsertEvent, Abstract
    <3> QED
      BY <1>5, <3>1, <3>2, <3>3, <3>4
  <2>2. Seen[c] = Abstract(call[c])
    BY DEF Seen, CallAt, Local
  <2>3. Seen' = Seen
    BY <1>1, <2>1, <2>2, SeenBecomes DEF Seen
  <2> QED
    BY <1>1, <1>2, <2>3 DEF S!vars, Seen
<1> QED
  BY <1>4, <1>5

\* The commands with which a call takes effect.
LEMMA EffectStep ==
  ASSUME IInv, NEW c \in Callers, Local(c),
         \/ Create(c) \/ Commit(c) \/ FindById(c) \/ FindAll(c) \/ Mget(c)
         \/ NotFound(c) \/ Update(c) \/ Set(c)
  PROVE  S!Next
<1> USE DEF IInv
<1>1. UNCHANGED <<store, host>>
  BY DEF configVars, Create, Commit, FindById, FindAll, Mget, NotFound, Update, Set
<1> DEFINE p == Home(Customer)
<1>2. /\ p' = p
      /\ Home(c) = p
      /\ S!Existing = Existing(p)
      /\ rows' = rows => rows'[p] = rows[p]
      /\ \A o, to : Put(c, o, to) => rows'[p] = [rows[p] EXCEPT ![o] = to]
  BY <1>1, CustomersRows
<1>3. Seen[c] = Abstract(call[c])
  BY DEF Seen, CallAt, Local
<1>4. ASSUME NEW found, Answer(c, found)
      PROVE  S!Answer(c, found)
  BY <1>1, <1>4, SeenAnswer DEF S!Answer, Seen
<1>5. CASE Create(c) \/ Commit(c)
  <2>1. Seen[c].op = "create"
    BY <1>3, <1>5 DEF Create, Commit, Abstract
  <2>2. PICK o \in Orders : /\ o \notin Existing(p)
                            /\ Put(c, o, "PENDING")
                            /\ Answer(c, [q \in {o} |-> "PENDING"])
    <3>1. CASE Create(c)
      BY <1>1, <1>2, <3>1, CustomersRows DEF Create, AddOrder, Unused, Existing
    <3>2. CASE Commit(c)
      <4>1. InTransaction(c) /\ call[c].order \in Orders
        BY <3>2, TransactionIsTyped DEF Commit, InTransaction
      <4>2. Home(c) = Server /\ call[c].order \notin Existing(Server)
        BY <4>1 DEF Writing, Home
      <4> QED
        BY <1>2, <3>2, <4>1, <4>2 DEF Commit, AddOrder
    <3> QED
      BY <1>5, <3>1, <3>2
  <2>3. o \in Orders \ S!Existing
    BY <1>2, <2>2
  <2>4. S!Create(c)
    BY <1>1, <1>2, <1>4, <2>1, <2>2, <2>3 DEF S!Create, Seen
  <2> QED
    BY <2>4 DEF S!Next
<1>6. CASE FindById(c)
  <2>1. Seen[c].op = "find" /\ Seen[c].order = call[c].order
    BY <1>3, <1>6 DEF FindById, Abstract
  <2>2. S!Answer(c, S!Restrict(rows[p], {call[c].order} \intersect S!Existing))
    BY <1>2, <1>4, <1>6 DEF FindById, Read, Restrict, S!Restrict
  <2>3. S!Find(c)
    BY <1>1, <1>2, <1>6, <2>1, <2>2 DEF S!Find, FindById, tableVars, Seen
  <2> QED
    BY <2>3 DEF S!Next
<1>7. CASE FindAll(c) \/ Mget(c)
  <2>1. PICK X \in SUBSET S!Existing :
          Answer(c, Read(c, X)) /\ Seen[c].op = "list" /\ Seen[c].since \subseteq X
    <3>1. CASE FindAll(c)
      BY <1>2, <1>3, <3>1 DEF FindAll, Abstract, Reading
    <3>2. CASE Mget(c)
      BY <1>2, <1>3, <3>2 DEF Mget, Abstract, Reading, Home
    <3> QED
      BY <1>7, <3>1, <3>2
  <2>2. S!Answer(c, S!Restrict(rows[p], X))
    BY <1>2, <1>4, <2>1 DEF Read, Restrict, S!Restrict
  <2>3. S!List(c)
    BY <1>1, <1>2, <1>7, <2>1, <2>2 DEF S!List, FindAll, Mget, tableVars, Seen
  <2> QED
    BY <2>3 DEF S!Next
<1>8. CASE NotFound(c)
  <2>1. /\ Seen[c].op = "update" /\ Seen[c].order = call[c].order
        /\ Seen[c].order \notin S!Existing
    BY <1>2, <1>3, <1>8, UpdateIsTyped DEF NotFound, Abstract, Row, Existing
  <2>2. Read(c, {}) = [q \in {} |-> Seen[c].to]
    BY DEF Read, Restrict
  <2>3. S!Update(c)
    BY <1>1, <1>2, <1>4, <1>8, <2>1, <2>2 DEF S!Update, NotFound, tableVars, Seen
  <2> QED
    BY <2>3 DEF S!Next
<1>9. CASE Update(c) \/ Set(c)
  <2>1. /\ Seen[c].op = "update" /\ Seen[c].order = call[c].order /\ Seen[c].to = call[c].to
        /\ Seen[c].order \in S!Existing
    BY <1>2, <1>3, <1>9, UpdateIsTyped DEF Update, Set, Abstract, Row, Existing, Reading
  <2>2. S!Answer(c, [q \in {call[c].order} |-> call[c].to])
    BY <1>4, <1>9 DEF Update, Set
  <2>3. rows'[p] = [rows[p] EXCEPT ![call[c].order] = call[c].to]
    BY <1>2, <1>9 DEF Update, Set
  <2>4. S!Update(c)
    BY <1>1, <1>2, <2>1, <2>2, <2>3 DEF S!Update, Seen
  <2> QED
    BY <2>4 DEF S!Next
<1> QED
  BY <1>5, <1>6, <1>7, <1>8, <1>9

\* Calls that end, one by one or with their process.
LEMMA EndStep ==
  ASSUME IInv, \/ \E c \in Callers : Local(c) /\ (Return(c) \/ Fail(c))
               \/ \E p \in Processes : Crash(p)
  PROVE  S!Next
<1> USE DEF IInv
<1>1. UNCHANGED <<store, host>>
  BY DEF configVars, Return, Fail, Crash
<1>2. /\ Home(Customer)' = Home(Customer) /\ Home(Customer) \in Places
      /\ \A c \in Callers : Home(c)' = Home(c)
  BY <1>1, CustomerCalls, HomeIsAPlace DEF Home
<1>3. \A c \in Callers : call'[c] \in {call[c], Idle}
  BY DEF Return, Fail, Crash, Become, TypeOK
<1>4. \A c \in Callers : CallAt(c)' \in {CallAt(c), Idle}
  BY <1>2, <1>3 DEF CallAt, Abstract, Idle
<1>5. /\ Seen' \in [Callers -> S!Range(Seen) \union {S!Idle}]
      /\ \A c \in Callers : Seen'[c] \in {Seen[c], S!Idle}
  BY <1>4 DEF Seen, S!Range, Idle, S!Idle
<1>6. \/ rows'[Home(Customer)] = rows[Home(Customer)]
      \/ store = "in-memory" /\ rows'[Home(Customer)] = [o \in Orders |-> "none"]
  <2>1. CASE rows' = rows
    BY <2>1
  <2>2. ASSUME NEW p \in Processes, Crash(p)
        PROVE  \/ rows'[Home(Customer)] = rows[Home(Customer)]
               \/ store = "in-memory" /\ rows'[Home(Customer)] = [o \in Orders |-> "none"]
    BY <1>2, <2>2, StoreAssumption DEF Crash, TypeOK, Home
  <2> QED
    BY <2>1, <2>2 DEF Return, Fail, tableVars
<1> QED
  BY <1>1, <1>2, <1>5, <1>6 DEF S!Next, S!End, Seen

\* Two-command updates and reads without a snapshot included, every adapter is a
\* Store to its customers: what an answer reports is what was stored at one moment
\* of the call, findAll misses nothing, and no stored order is lost.
THEOREM EveryAdapterIsAStore == Spec => ImplementsStore
<1>1. Init => S!Init
  <2> SUFFICES ASSUME Init
               PROVE  S!Init
    OBVIOUS
  <2>1. Home(Customer) \in Places
    BY CustomerCalls, StoreAssumption DEF Init, Home, Places
  <2>2. \A c \in Callers : CallAt(c) = Idle
    BY DEF Init, CallAt, Abstract, Idle
  <2> QED
    BY <2>1, <2>2 DEF Init, S!Init, Idle, S!Idle
<1>2. IInv /\ [Next]_vars => [S!Next]_(S!vars)
  <2> SUFFICES ASSUME IInv, [Next]_vars
               PROVE  [S!Next]_(S!vars)
    OBVIOUS
  <2>1. ASSUME NEW c \in Callers, Request(c) \/ Handle(c) \/ Step(c) \/ Fail(c)
        PROVE  [S!Next]_(S!vars)
    <3>1. CASE ~ Local(c)
      BY <2>1, <3>1, OtherStores DEF IInv
    <3>2. CASE Local(c) /\ (Return(c) \/ Fail(c))
      BY <3>2, EndStep
    <3>3. CASE /\ Local(c)
               /\ \/ Request(c) \/ Handle(c) \/ Zrevrange(c) \/ Get(c)
                  \/ InsertOrder(c) \/ InsertEvent(c)
      BY <3>3, StartStep
    <3>4. CASE /\ Local(c)
               /\ \/ Create(c) \/ Commit(c) \/ FindById(c) \/ FindAll(c) \/ Mget(c)
                  \/ NotFound(c) \/ Update(c) \/ Set(c)
      BY <3>4, EffectStep
    <3> QED
      BY <2>1, <3>1, <3>2, <3>3, <3>4 DEF Step
  <2>2. ASSUME NEW p \in Processes, Crash(p)
        PROVE  [S!Next]_(S!vars)
    BY <2>2, EndStep
  <2>3. CASE UNCHANGED vars
    BY <2>3 DEF vars, configVars, tableVars, S!vars, CallAt, Abstract, Home
  <2> QED
    BY <2>1, <2>2, <2>3 DEF Next
<1> QED
  BY <1>1, <1>2, InductiveInvariant, PTL DEF Spec, ImplementsStore, S!Spec
===============================================================================
