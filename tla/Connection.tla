------------------------------ MODULE Connection ------------------------------
(***************************************************************************)
(* shared/messaging/connection.ts in one process: the cached channel, the  *)
(* single attempt to establish one, and amqplib's recovery, which keeps a  *)
(* connection alive that the cache has already forgotten.                  *)
(*                                                                         *)
(* `connection` and `channel` of the code are set and cleared together, so *)
(* a channel is named by its connection here.                              *)
(***************************************************************************)
EXTENDS Naturals, FiniteSets

CONSTANTS
  Callers,   \* callers of getChannel: polls, publishers, startConsuming
  Conns,     \* names for connections, numbered; freed names are used again
  None,      \* null
  MaxFaults  \* bound: outages, dropped connections, failed calls, restarts

ASSUME ConnectionAssumption ==
  /\ Conns \subseteq Nat /\ IsFiniteSet(Conns)
  /\ None \notin Conns
  /\ MaxFaults \in Nat

VARIABLES
  broker,      \* whether RabbitMQ can be reached
  link,        \* [Conns -> its TCP connection]
  setup,       \* [Conns -> how far establishChannel got on it]
  channel,     \* the cached channel
  connecting,  \* the attempt that callers of getChannel share
  awaits,      \* [Callers -> the attempt the caller awaits]
  closing,     \* closeMessaging was called
  faults       \* faults so far

processVars == <<link, setup, channel, connecting, awaits, closing>>
vars == <<processVars, broker, faults>>

TypeOK ==
  /\ broker \in BOOLEAN
  \* broken: gone, but the process has not noticed; down: amqplib retries
  /\ link \in [Conns -> {"unused", "connecting", "open", "broken", "down"}]
  /\ setup \in [Conns -> {"none", "connect", "channel", "topology", "done", "failed"}]
  /\ channel \in Conns \union {None}
  /\ connecting \in Conns \union {None}
  /\ awaits \in [Callers -> Conns \union {None}]
  /\ closing \in BOOLEAN
  /\ faults \in 0 .. MaxFaults
  /\ \A k \in Conns : link[k] = "unused" <=> setup[k] = "none"

Init ==
  /\ broker = TRUE
  /\ link = [k \in Conns |-> "unused"]
  /\ setup = [k \in Conns |-> "none"]
  /\ channel = None
  /\ connecting = None
  /\ awaits = [c \in Callers |-> None]
  /\ closing = FALSE
  /\ faults = 0
-----------------------------------------------------------------------------
Attempts == {k \in Conns : setup[k] \in {"connect", "channel", "topology"}}

Free == {k \in Conns : link[k] = "unused"}

Await(c, k) == awaits' = [awaits EXCEPT ![c] = k]

Progress(k, from, to) ==
  /\ setup[k] = from
  /\ setup' = [setup EXCEPT ![k] = to]

\* Mutant of GetChannel: every caller starts an attempt.
GetOwnChannel(c) ==
  /\ awaits[c] = None
  /\ channel = None
  /\ \E k \in Free :
       /\ \A j \in Free : k <= j
       /\ link' = [link EXCEPT ![k] = "connecting"]
       /\ Progress(k, "none", "connect")
       /\ connecting' = k
       /\ Await(c, k)
  /\ UNCHANGED <<broker, channel, closing, faults>>

\* getChannel when nothing is cached: join the attempt under way or start one.
\* With a cached channel it returns at once and changes nothing.
GetChannel(c) ==
  /\ awaits[c] = None
  /\ channel = None
  /\ \/ /\ connecting # None
        /\ Await(c, connecting)
        /\ UNCHANGED <<link, setup, connecting>>
     \/ /\ connecting = None
        /\ \E k \in Free :
             /\ \A j \in Free : k <= j
             /\ link' = [link EXCEPT ![k] = "connecting"]
             /\ Progress(k, "none", "connect")
             /\ connecting' = k
             /\ Await(c, k)
  /\ UNCHANGED <<broker, channel, closing, faults>>

\* The attempt's promise settles: `finally` clears connecting and its callers
\* go on, with the channel or with the error.
Settle(k) ==
  /\ connecting' = None
  /\ awaits' = [c \in Callers |-> IF awaits[c] = k THEN None ELSE awaits[c]]

\* amqp.connect resolves.
Connect(k) ==
  /\ broker
  /\ Progress(k, "connect", "channel")
  /\ link' = [link EXCEPT ![k] = "open"]
  /\ UNCHANGED <<broker, channel, connecting, awaits, closing, faults>>

\* createConfirmChannel resolves.
CreateConfirmChannel(k) ==
  /\ link[k] = "open"
  /\ Progress(k, "channel", "topology")
  /\ UNCHANGED <<broker, link, channel, connecting, awaits, closing, faults>>

\* Mutant of AssertTopology: the channel is handed out but not cached.
AssertTopologyUncached(k) ==
  /\ link[k] = "open"
  /\ Progress(k, "topology", "done")
  /\ Settle(k)
  /\ UNCHANGED <<broker, link, channel, closing, faults>>

\* assertTopology resolves: the channel is cached and handed out.
AssertTopology(k) ==
  /\ link[k] = "open"
  /\ Progress(k, "topology", "done")
  /\ channel' = k
  /\ Settle(k)
  /\ UNCHANGED <<broker, link, closing, faults>>

\* Mutant of ConnectFails: the rejected promise stays cached.
ConnectFailsForGood(k) ==
  /\ ~ broker
  /\ Progress(k, "connect", "none")
  /\ link' = [link EXCEPT ![k] = "unused"]
  /\ awaits' = [c \in Callers |-> IF awaits[c] = k THEN None ELSE awaits[c]]
  /\ UNCHANGED <<broker, channel, connecting, closing, faults>>

\* Mutant of ConnectFails: the socket is left behind.
ConnectFailsHalfOpen(k) ==
  /\ ~ broker
  /\ Progress(k, "connect", "none")
  /\ Settle(k)
  /\ UNCHANGED <<broker, link, channel, closing, faults>>

\* amqp.connect rejects: there is no broker.
ConnectFails(k) ==
  /\ ~ broker
  /\ Progress(k, "connect", "none")
  /\ link' = [link EXCEPT ![k] = "unused"]
  /\ Settle(k)
  /\ UNCHANGED <<broker, channel, closing, faults>>

\* A later await of establishChannel rejects since the connection is gone.  The
\* connection is not closed: amqplib goes on recovering it.
SetupFails(k) ==
  /\ link[k] = "down"
  /\ k \in Attempts
  /\ setup' = [setup EXCEPT ![k] = "failed"]
  /\ Settle(k)
  /\ UNCHANGED <<broker, link, channel, closing, faults>>

Fault == faults < MaxFaults /\ faults' = faults + 1

\* The broker refuses the channel or a declaration; the connection stays open.
SetupRefused(k) ==
  /\ Fault
  /\ link[k] = "open"
  /\ k \in Attempts
  /\ setup' = [setup EXCEPT ![k] = "failed"]
  /\ Settle(k)
  /\ UNCHANGED <<broker, link, channel, closing>>

\* The broker goes away: every connection breaks.
Outage ==
  /\ Fault
  /\ broker
  /\ broker' = FALSE
  /\ link' = [k \in Conns |-> IF link[k] = "open" THEN "broken" ELSE link[k]]
  /\ UNCHANGED <<setup, channel, connecting, awaits, closing>>

\* One connection breaks.
Drop(k) ==
  /\ Fault
  /\ link[k] = "open"
  /\ link' = [link EXCEPT ![k] = "broken"]
  /\ UNCHANGED <<broker, setup, channel, connecting, awaits, closing>>

BrokerBack == ~ broker /\ broker' = TRUE /\ UNCHANGED <<processVars, faults>>

\* Mutant of Disconnect: the handler only logs.
DisconnectLogged(k) ==
  /\ link[k] = "broken"
  /\ link' = [link EXCEPT ![k] = "down"]
  /\ UNCHANGED <<broker, setup, channel, connecting, awaits, closing, faults>>

\* The 'disconnect' handler clears the cache, whichever connection it is about.
Disconnect(k) ==
  /\ link[k] = "broken"
  /\ link' = [link EXCEPT ![k] = "down"]
  /\ channel' = None
  /\ UNCHANGED <<broker, setup, connecting, awaits, closing, faults>>

\* amqplib reconnects and recovers the channel and its consumers; nothing tells
\* the cache.
Recover(k) ==
  /\ broker
  /\ link[k] = "down"
  /\ k \notin Attempts
  /\ link' = [link EXCEPT ![k] = "open"]
  /\ UNCHANGED <<broker, setup, channel, connecting, awaits, closing, faults>>

\* SIGTERM: closeMessaging closes the connection of the cached channel, if any.
\* Handlers that still run may ask for a channel again.
CloseMessaging ==
  /\ Fault
  /\ ~ closing
  /\ closing' = TRUE
  /\ channel' = None
  /\ link' = [k \in Conns |-> IF k = channel THEN "unused" ELSE link[k]]
  /\ setup' = [k \in Conns |-> IF k = channel THEN "none" ELSE setup[k]]
  /\ UNCHANGED <<broker, connecting, awaits>>

\* process.exit; the process is started again.
Exit ==
  /\ closing
  /\ link' = [k \in Conns |-> "unused"]
  /\ setup' = [k \in Conns |-> "none"]
  /\ channel' = None
  /\ connecting' = None
  /\ awaits' = [c \in Callers |-> None]
  /\ closing' = FALSE
  /\ UNCHANGED <<broker, faults>>

Step(k) ==
  \/ Connect(k)
  \/ CreateConfirmChannel(k)
  \/ AssertTopology(k)
  \/ ConnectFails(k)
  \/ SetupFails(k)
  \/ Disconnect(k)
  \/ Recover(k)

Next ==
  \/ \E c \in Callers : GetChannel(c)
  \/ \E k \in Conns : Step(k) \/ SetupRefused(k) \/ Drop(k)
  \/ Outage
  \/ BrokerBack
  \/ CloseMessaging
  \/ Exit

Spec == Init /\ [][Next]_vars

\* Callers ask again (the relay every second, a publisher for every message),
\* the broker comes back, promises settle, amqplib reconnects, and a process
\* that is closing exits.
FairSpec ==
  /\ Spec
  /\ \A c \in Callers : WF_vars(GetChannel(c))
  /\ \A k \in Conns : WF_vars(Step(k))
  /\ WF_vars(BrokerBack)
  /\ WF_vars(Exit)
-----------------------------------------------------------------------------
\* Whatever fails or disconnects in the middle of it, there is one attempt at a
\* time, and it is the one that callers of getChannel wait for.
OneAttempt ==
  /\ \A k \in Attempts : k = connecting
  /\ \A c \in Callers : awaits[c] # None => awaits[c] = connecting

\* getChannel never hands out a channel without its topology, or one of a
\* connection that the process has seen disconnect.
CachedIsUsable ==
  channel # None => setup[channel] = "done" /\ link[channel] \in {"open", "broken"}

Live == {k \in Conns : link[k] \in {"open", "broken", "down"}}

\* Every forgotten connection lives on, and when it disconnects later it clears
\* the cache of its successor too: a fault can double the connections of a
\* process, but not do worse.
ConnectionsBounded == Cardinality(Live) <= 2 ^ faults

\* Nobody waits for ever in getChannel.
EveryCallerAnswered == \A c \in Callers : awaits[c] # None ~> awaits[c] = None

\* isMessagingConnected
IsMessagingConnected == channel # None

\* "Lets the API report whether it can actually reach the broker": with a broker
\* that always comes back, a process is ready again and again.
ReadyAgain == []<>IsMessagingConnected
===============================================================================
