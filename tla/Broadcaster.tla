---------------------------- MODULE Broadcaster ----------------------------
(***************************************************************************)
(* app/broadcaster.py and the websocket endpoint of app/main.py: the       *)
(* market engine and the scanner send every message to the connections one *)
(* by one, under an asyncio.Lock that connect and disconnect take as well. *)
(* asyncio.Lock serves its waiters in order, so the lock is the queue of   *)
(* the calls that hold it or wait for it; the first one holds it.          *)
(*                                                                         *)
(* Bound: MaxMessages.                                                     *)
(***************************************************************************)
EXTENDS Naturals, Sequences, SequencesExt

CONSTANTS
  Clients,       \* websocket connections; one that comes back is another one
  Senders,       \* tasks that broadcast, one message at a time
  MaxMessages

ASSUME MaxMessagesAssumption == MaxMessages \in Nat

VARIABLES
  queue,        \* the calls at the lock, first the holder
  connections,  \* _connections
  sending,      \* the holder is in its loop over the connections
  todo, stale,  \* connections it has still to send to, those that failed
  endpoint,     \* per client: out, joining, member, leaving, gone
  alive,        \* clients whose transport is open
  received,     \* messages each client has received, in order
  cancelled,    \* senders cancelled by the shutdown
  count,        \* messages built so far: their timestamps
  due           \* history: the members when a message not cancelled got the lock

vars == <<queue, connections, sending, todo, stale, endpoint, alive, received,
          cancelled, count, due>>

Calls ==
  [op: {"add", "discard"}, who: Clients] \cup [op: {"send"}, who: Senders, message: 1..MaxMessages]

TypeOK ==
  /\ queue \in Seq(Calls)
  /\ {connections, todo, stale, alive} \subseteq SUBSET Clients
  /\ sending \in BOOLEAN /\ count \in 0..MaxMessages
  /\ todo \cup stale \subseteq IF sending THEN connections ELSE {}
  /\ endpoint \in [Clients -> {"out", "joining", "member", "leaving", "gone"}]
  /\ received \in [Clients -> Seq(1..MaxMessages)]
  /\ cancelled \subseteq Senders
  /\ due \in [1..MaxMessages -> SUBSET Clients]

Init ==
  /\ queue = <<>> /\ connections = {} /\ sending = FALSE /\ todo = {} /\ stale = {}
  /\ endpoint = [c \in Clients |-> "out"] /\ alive = {}
  /\ received = [c \in Clients |-> <<>>]
  /\ cancelled = {} /\ count = 0
  /\ due = [m \in 1..MaxMessages |-> {}]

Holds(op) == queue # <<>> /\ Head(queue).op = op
Calling(t) == \E i \in DOMAIN queue : queue[i].op = "send" /\ queue[i].who = t
IsDone(m)  == m <= count /\ \A i \in DOMAIN queue : queue[i].op = "send" => queue[i].message # m

loop == <<sending, todo, stale, received, due>>

-----------------------------------------------------------------------------
\* Mutant: a lock that serves the newest of its waiters first.
NewestFirst(t) ==
  /\ t \notin cancelled /\ ~Calling(t) /\ count < MaxMessages
  /\ count' = count + 1
  /\ queue' = LET call == <<[op |-> "send", who |-> t, message |-> count + 1]>>
              IN IF queue = <<>> THEN call ELSE <<Head(queue)>> \o call \o Tail(queue)
  /\ UNCHANGED <<connections, loop, endpoint, alive, cancelled>>

(* broadcast: the message is built, with its timestamp, before the lock. *)
Broadcast(t) ==
  /\ t \notin cancelled /\ ~Calling(t) /\ count < MaxMessages
  /\ count' = count + 1
  /\ queue' = Append(queue, [op |-> "send", who |-> t, message |-> count + 1])
  /\ UNCHANGED <<connections, loop, endpoint, alive, cancelled>>

BeginSending ==
  /\ Holds("send") /\ ~sending /\ Head(queue).who \notin cancelled
  /\ sending' = TRUE /\ todo' = connections /\ stale' = {}
  /\ due' = [due EXCEPT ![Head(queue).message] = connections]
  /\ UNCHANGED <<queue, connections, endpoint, alive, received, cancelled, count>>

\* Mutant: a failed send ends the loop over the connections.
AfterStale(c) == {}

(* What is left of the loop after a send that failed. *)
AfterFailure(c) == todo \ {c}

(* One send_text ends: the client has the message, or the connection failed. *)
SendTo(c) ==
  /\ sending /\ c \in todo
  /\ IF c \in alive
     THEN /\ received' = [received EXCEPT ![c] = Append(@, Head(queue).message)]
          /\ todo' = todo \ {c}
          /\ UNCHANGED stale
     ELSE stale' = stale \cup {c} /\ todo' = AfterFailure(c) /\ UNCHANGED received
  /\ UNCHANGED <<queue, connections, sending, endpoint, alive, cancelled, count, due>>

\* Mutant: failed connections are kept.
KeepStale == connections

Cleaned == connections \ stale

FinishSending ==
  /\ sending /\ todo = {}
  /\ connections' = Cleaned
  /\ sending' = FALSE /\ stale' = {}
  /\ queue' = Tail(queue)
  /\ UNCHANGED <<todo, endpoint, alive, received, cancelled, count, due>>

\* Mutant: a cancelled broadcast keeps the lock.
KeepLock(t) == queue

(* `async with` gives the lock back, or the place among the waiters. *)
Release(t) ==
  IF Calling(t)
  THEN RemoveAt(queue, CHOOSE i \in DOMAIN queue : queue[i].op = "send" /\ queue[i].who = t)
  ELSE queue

(* The shutdown cancels a task inside broadcast: failed connections stay. *)
Cancel(t) ==
  /\ t \notin cancelled
  /\ cancelled' = cancelled \cup {t}
  /\ queue' = Release(t)
  /\ IF Holds("send") /\ Head(queue).who = t
     THEN /\ sending' = FALSE /\ todo' = {} /\ stale' = {}
          /\ due' = [due EXCEPT ![Head(queue).message] = {}]
     ELSE UNCHANGED <<sending, todo, stale, due>>
  /\ UNCHANGED <<connections, endpoint, alive, received, count>>

-----------------------------------------------------------------------------
(* connect: the handshake, then the lock; disconnect: the lock. *)
Connect(c) ==
  /\ endpoint[c] = "out"
  /\ endpoint' = [endpoint EXCEPT ![c] = "joining"]
  /\ alive' = alive \cup {c}
  /\ queue' = Append(queue, [op |-> "add", who |-> c])
  /\ UNCHANGED <<connections, loop, cancelled, count>>

Add ==
  /\ Holds("add")
  /\ connections' = connections \cup {Head(queue).who}
  /\ endpoint' = [endpoint EXCEPT ![Head(queue).who] = "member"]
  /\ queue' = Tail(queue)
  /\ UNCHANGED <<loop, alive, cancelled, count>>

\* Mutant: disconnect does not take the lock.
DiscardAtOnce(c) ==
  /\ endpoint[c] = "member" /\ c \notin alive
  /\ endpoint' = [endpoint EXCEPT ![c] = "gone"]
  /\ connections' = connections \ {c}
  /\ UNCHANGED <<queue, loop, alive, cancelled, count>>

(* receive_text raises WebSocketDisconnect. *)
Disconnect(c) ==
  /\ endpoint[c] = "member" /\ c \notin alive
  /\ endpoint' = [endpoint EXCEPT ![c] = "leaving"]
  /\ queue' = Append(queue, [op |-> "discard", who |-> c])
  /\ UNCHANGED <<connections, loop, alive, cancelled, count>>

Discard ==
  /\ Holds("discard")
  /\ connections' = connections \ {Head(queue).who}
  /\ endpoint' = [endpoint EXCEPT ![Head(queue).who] = "gone"]
  /\ queue' = Tail(queue)
  /\ UNCHANGED <<loop, alive, cancelled, count>>

(* receive_text raises anything else, as it does for a binary message: the    *)
(* endpoint ends, its transport is closed, and nobody calls disconnect.       *)
EndpointFails(c) ==
  /\ endpoint[c] = "member"
  /\ endpoint' = [endpoint EXCEPT ![c] = "gone"]
  /\ alive' = alive \ {c}
  /\ UNCHANGED <<queue, connections, loop, cancelled, count>>

(* The client closes, or the network does. *)
Drop(c) ==
  /\ c \in alive
  /\ alive' = alive \ {c}
  /\ UNCHANGED <<queue, connections, loop, endpoint, cancelled, count>>

Next ==
  \/ \E t \in Senders : Broadcast(t) \/ Cancel(t)
  \/ BeginSending \/ FinishSending \/ Add \/ Discard
  \/ \E c \in Clients : SendTo(c) \/ Connect(c) \/ Disconnect(c) \/ EndpointFails(c) \/ Drop(c)

(* A send ends because the server closes a connection that does not answer its *)
(* pings; the rest runs whenever it holds the lock.                            *)
Spec ==
  /\ Init /\ [][Next]_vars
  /\ WF_vars(BeginSending \/ (\E c \in Clients : SendTo(c)) \/ FinishSending \/ Add \/ Discard)
  /\ \A t \in Senders : WF_vars(Broadcast(t))

-----------------------------------------------------------------------------
(* Each client receives the messages of both tasks in the order of their       *)
(* timestamps, which are taken before the lock (broadcaster.py:26 and 35).     *)
InTimestampOrder ==
  \A c \in Clients : \A i, j \in DOMAIN received[c] : i < j => received[c][i] < received[c][j]

(* A broadcast that ended without being cancelled has reached every client that *)
(* was connected when it got the lock and still is, whichever sends failed      *)
(* (broadcaster.py:36).                                                         *)
EveryMemberServed ==
  \A m \in 1..MaxMessages : IsDone(m) =>
    \A c \in due[m] \cap alive : \E i \in DOMAIN received[c] : received[c][i] = m

(* The set of connections never changes under the loop over it, which would     *)
(* raise in the middle of a broadcast (broadcaster.py:22 and 36).               *)
StableIteration == [][sending /\ sending' => connections' = connections]_vars

(* Every broadcast ends, also when the task before it was cancelled while it    *)
(* held the lock, so the engine and the scanner go on (broadcaster.py:35).      *)
BroadcastsEnd == \A t \in Senders : Calling(t) ~> ~Calling(t)

(* A connection whose endpoint died without a disconnect is forgotten by the    *)
(* next broadcast; only after the last one may it stay (broadcaster.py:41).     *)
DeadForgotten ==
  \A c \in Clients :
    (c \in connections \ alive /\ count < MaxMessages) ~> (c \notin connections \/ cancelled # {})
=============================================================================
