------------------------- MODULE BroadcasterProofs -------------------------
(***************************************************************************)
(* Theorems about Broadcaster, for any clients, any broadcasting tasks and *)
(* any number of messages.                                                 *)
(***************************************************************************)
EXTENDS Broadcaster, TLAPS

IsSend(call) == call.op = "send"

(* A sender waits at most once, and the lock serves messages as they are built. *)
OrderedCalls(q) ==
  \A i, j \in DOMAIN q : i < j /\ IsSend(q[i]) /\ IsSend(q[j]) =>
    q[i].message < q[j].message /\ q[i].who # q[j].who

QueueInv ==
  /\ OrderedCalls(queue)
  /\ \A i \in DOMAIN queue : IsSend(queue[i]) => queue[i].message <= count
  /\ sending => Holds("send")

(* The message of a call at the lock is newer than all that c received, unless *)
(* it is the one being sent and c has it already.                              *)
Newer(c, i) ==
  \A k \in DOMAIN received[c] :
    \/ received[c][k] < queue[i].message
    \/ i = 1 /\ sending /\ c \notin todo /\ received[c][k] = queue[i].message

OrderInv ==
  /\ InTimestampOrder
  /\ \A c \in Clients :
       /\ \A k \in DOMAIN received[c] : received[c][k] <= count
       /\ \A i \in DOMAIN queue : IsSend(queue[i]) => Newer(c, i)

(* Every client a message was due to has it, has closed, or is still to get it. *)
Served(m, c) ==
  \/ \E i \in DOMAIN received[c] : received[c][i] = m
  \/ sending /\ m = Head(queue).message /\ c \in todo

ServedInv ==
  /\ \A c \in Clients : endpoint[c] = "out" =>
       c \notin alive /\ c \notin connections /\ \A m \in 1..MaxMessages : c \notin due[m]
  /\ \A i \in DOMAIN queue : ~IsSend(queue[i]) => endpoint[queue[i].who] # "out"
  /\ \A m \in 1..MaxMessages : \A c \in due[m] \cap alive : Served(m, c)

(* The inductive invariant. *)
IInv == TypeOK /\ QueueInv /\ OrderInv /\ ServedInv

-----------------------------------------------------------------------------
(* The queue of the lock. *)

(* r is q without its i-th call. *)
Without(q, i, r) ==
  /\ r \in Seq(Calls) /\ i \in DOMAIN q /\ Len(r) = Len(q) - 1
  /\ \A j \in DOMAIN r : r[j] = IF j < i THEN q[j] ELSE q[j + 1]

LEMMA EmptySequence == \A S : <<>> \in Seq(S)
OBVIOUS

LEMMA CallType ==
  ASSUME NEW call \in Calls
  PROVE  /\ IsSend(call) => call.who \in Senders /\ call.message \in 1..MaxMessages
         /\ ~IsSend(call) => call.op \in {"add", "discard"} /\ call.who \in Clients
BY DEF Calls, IsSend

LEMMA FrontType ==
  ASSUME NEW q \in Seq(Calls), NEW i \in DOMAIN q
  PROVE  LET front == SubSeq(q, 1, i - 1)
         IN  front \in Seq(Calls) /\ Len(front) = i - 1 /\ \A j \in 1..(i - 1) : front[j] = q[j]
OBVIOUS

LEMMA BackType ==
  ASSUME NEW q \in Seq(Calls), NEW i \in DOMAIN q
  PROVE  LET back == SubSeq(q, i + 1, Len(q))
         IN  /\ back \in Seq(Calls) /\ Len(back) = Len(q) - i
             /\ \A j \in 1..(Len(q) - i) : back[j] = q[i + j]
OBVIOUS

LEMMA Joined ==
  ASSUME NEW front \in Seq(Calls), NEW back \in Seq(Calls)
  PROVE  /\ front \o back \in Seq(Calls)
         /\ Len(front \o back) = Len(front) + Len(back)
         /\ \A j \in 1..(Len(front) + Len(back)) :
              (front \o back)[j] = IF j <= Len(front) THEN front[j] ELSE back[j - Len(front)]
OBVIOUS

LEMMA TailWithout ==
  ASSUME NEW q \in Seq(Calls), q # <<>>
  PROVE  Without(q, 1, Tail(q)) /\ Head(q) = q[1]
<1>1. /\ Tail(q) \in Seq(Calls) /\ Len(Tail(q)) = Len(q) - 1 /\ Head(q) = q[1]
      /\ \A j \in 1..(Len(q) - 1) : Tail(q)[j] = q[j + 1]
  OBVIOUS
<1>2. 1 \in DOMAIN q /\ DOMAIN Tail(q) = 1..(Len(q) - 1)
  OBVIOUS
<1> QED  BY <1>1, <1>2 DEF Without

LEMMA RemoveWithout ==
  ASSUME NEW q \in Seq(Calls), NEW i \in DOMAIN q
  PROVE  Without(q, i, RemoveAt(q, i))
<1>1. i \in 1..Len(q) /\ i \in Int /\ Len(q) \in Nat
  OBVIOUS
<1>2. PICK front \in Seq(Calls) :
        /\ front = SubSeq(q, 1, i - 1) /\ Len(front) = i - 1
        /\ \A j \in 1..(i - 1) : front[j] = q[j]
  BY FrontType
<1>3. PICK back \in Seq(Calls) :
        /\ back = SubSeq(q, i + 1, Len(q)) /\ Len(back) = Len(q) - i
        /\ \A j \in 1..(Len(q) - i) : back[j] = q[i + j]
  BY BackType
<1>4. PICK r \in Seq(Calls) : r = front \o back
  BY Joined
<1>5. /\ Len(r) = Len(front) + Len(back)
      /\ \A j \in 1..(Len(front) + Len(back)) :
           r[j] = IF j <= Len(front) THEN front[j] ELSE back[j - Len(front)]
  BY <1>4, Joined, Zenon
<1>6. Len(r) = Len(q) - 1 /\ DOMAIN r = 1..(Len(q) - 1)
  <2>1. Len(r) = (i - 1) + (Len(q) - i)
    BY <1>2, <1>3, <1>5, Zenon
  <2>2. DOMAIN r = 1..Len(r)
    OBVIOUS
  <2> QED  BY <1>1, <2>1, <2>2
<1>7. ASSUME NEW j \in 1..(Len(q) - 1)
      PROVE  r[j] = IF j < i THEN q[j] ELSE q[j + 1]
  <2>1. r[j] = IF j <= i - 1 THEN front[j] ELSE back[j - (i - 1)]
    <3>1. j \in 1..(i - 1 + (Len(q) - i))
      BY <1>1
    <3> QED  BY <1>2, <1>3, <1>5, <3>1, Zenon
  <2>2. CASE j < i
    <3>1. j <= i - 1 /\ j \in 1..(i - 1)
      BY <1>1, <2>2
    <3>2. front[j] = q[j]
      BY <1>2, <3>1, Zenon
    <3> QED  BY <2>1, <2>2, <3>1, <3>2, Zenon
  <2>3. CASE ~(j < i)
    <3>1. ~(j <= i - 1) /\ j - (i - 1) \in 1..(Len(q) - i) /\ i + (j - (i - 1)) = j + 1
      BY <1>1, <2>3
    <3>2. back[j - (i - 1)] = q[j + 1]
      BY <1>3, <3>1, Zenon
    <3> QED  BY <2>1, <2>3, <3>1, <3>2, Zenon
  <2> QED  BY <2>2, <2>3
<1>8. RemoveAt(q, i) = r
  BY <1>2, <1>3, <1>4, Zenon DEF RemoveAt
<1> QED  BY <1>6, <1>7, <1>8, Zenon DEF Without

(* Where a call of r stands in q. *)
LEMMA WithoutPlace ==
  ASSUME NEW q \in Seq(Calls), NEW i, NEW r, Without(q, i, r), NEW j \in DOMAIN r
  PROVE  /\ j \in Nat /\ i \in Nat /\ i > 0
         /\ j < i => j \in DOMAIN q /\ r[j] = q[j]
         /\ ~(j < i) => j + 1 \in DOMAIN q /\ r[j] = q[j + 1]
BY DEF Without

LEMMA WithoutOrdered ==
  ASSUME NEW q \in Seq(Calls), NEW i, NEW r, Without(q, i, r), OrderedCalls(q)
  PROVE  OrderedCalls(r)
<1> SUFFICES ASSUME NEW j \in DOMAIN r, NEW k \in DOMAIN r, j < k, IsSend(r[j]), IsSend(r[k])
             PROVE  r[j].message < r[k].message /\ r[j].who # r[k].who
  BY DEF OrderedCalls
<1> DEFINE at(n) == IF n < i THEN n ELSE n + 1
<1>1. at(j) \in DOMAIN q /\ r[j] = q[at(j)]
  BY WithoutPlace
<1>2. at(k) \in DOMAIN q /\ r[k] = q[at(k)]
  BY WithoutPlace
<1>3. at(j) < at(k)
  BY WithoutPlace
<1> HIDE DEF at
<1> QED  BY <1>1, <1>2, <1>3, Zenon DEF OrderedCalls

LEMMA AppendOrdered ==
  ASSUME NEW q \in Seq(Calls), OrderedCalls(q), NEW call \in Calls,
         IsSend(call) => \A i \in DOMAIN q : IsSend(q[i]) =>
                           q[i].message < call.message /\ q[i].who # call.who
  PROVE  OrderedCalls(Append(q, call))
<1>1. DOMAIN q = 1..Len(q) /\ DOMAIN Append(q, call) = 1..(Len(q) + 1) /\ Len(q) \in Nat
      /\ \A i \in 1..(Len(q) + 1) :
           Append(q, call)[i] = IF i = Len(q) + 1 THEN call ELSE q[i]
  OBVIOUS
<1> QED  BY <1>1 DEF OrderedCalls

LEMMA HeadCall ==
  ASSUME TypeOK, queue # <<>>
  PROVE  /\ 1 \in DOMAIN queue /\ Head(queue) = queue[1] /\ queue[1] \in Calls
         /\ Without(queue, 1, Tail(queue)) /\ Tail(queue) \in Seq(Calls)
<1>1. queue \in Seq(Calls)
  BY DEF TypeOK
<1>2. Without(queue, 1, Tail(queue)) /\ Head(queue) = queue[1]
  BY <1>1, TailWithout, Zenon
<1>3. 1 \in DOMAIN queue /\ Tail(queue) \in Seq(Calls)
  BY <1>2 DEF Without
<1> QED  BY <1>1, <1>2, <1>3

(* A task that is cancelled leaves the queue, and holds the lock if it is first. *)
LEMMA ReleaseWithout ==
  ASSUME TypeOK, OrderedCalls(queue), NEW t
  PROVE  \/ /\ Release(t) = queue
            /\ \A i \in DOMAIN queue : IsSend(queue[i]) => queue[i].who # t
            /\ ~(Holds("send") /\ Head(queue).who = t)
         \/ \E i \in DOMAIN queue :
              /\ Without(queue, i, Release(t)) /\ Release(t) \in Seq(Calls)
              /\ IsSend(queue[i]) /\ queue[i].who = t
              /\ i = 1 <=> Holds("send") /\ Head(queue).who = t
<1>1. queue \in Seq(Calls)
  BY DEF TypeOK
<1>2. CASE ~Calling(t)
  <2>1. \A i \in DOMAIN queue : IsSend(queue[i]) => queue[i].who # t
    BY <1>2 DEF Calling, IsSend
  <2>2. ~(Holds("send") /\ Head(queue).who = t)
    BY <2>1, HeadCall DEF Holds, IsSend
  <2> QED  BY <1>2, <2>1, <2>2 DEF Release
<1>3. CASE Calling(t)
  <2> DEFINE i == CHOOSE j \in DOMAIN queue : queue[j].op = "send" /\ queue[j].who = t
  <2>1. i \in DOMAIN queue /\ IsSend(queue[i]) /\ queue[i].who = t
    BY <1>3 DEF Calling, IsSend
  <2>2. Release(t) = RemoveAt(queue, i)
    BY <1>3 DEF Release
  <2> HIDE DEF i
  <2>3. Without(queue, i, Release(t))
    BY <1>1, <2>1, <2>2, RemoveWithout, Zenon
  <2>4. queue # <<>>
    BY <2>1
  <2>5. i = 1 => Holds("send") /\ Head(queue).who = t
    BY <2>1, <2>4, HeadCall DEF Holds, IsSend
  <2>6. Holds("send") /\ Head(queue).who = t => i = 1
    <3>1. i \in Nat /\ i > 0
      BY <1>1, <2>1
    <3>2. ASSUME Holds("send"), Head(queue).who = t, i # 1
          PROVE  FALSE
      <4>1. 1 \in DOMAIN queue /\ 1 < i /\ IsSend(queue[1]) /\ queue[1].who = t
        BY <2>4, <3>1, <3>2, HeadCall DEF Holds, IsSend
      <4> QED  BY <2>1, <4>1 DEF OrderedCalls
    <3> QED  BY <3>2
  <2>7. Release(t) \in Seq(Calls)
    BY <2>3 DEF Without
  <2> QED  BY <2>1, <2>3, <2>5, <2>6, <2>7
<1> QED  BY <1>2, <1>3

-----------------------------------------------------------------------------
(* Types. *)

LEMMA InitType == Init => TypeOK
<1> SUFFICES ASSUME Init PROVE TypeOK
  OBVIOUS
<1>1. queue \in Seq(Calls) /\ received \in [Clients -> Seq(1..MaxMessages)]
  BY EmptySequence DEF Init
<1>2. count \in 0..MaxMessages /\ due \in [1..MaxMessages -> SUBSET Clients]
  BY MaxMessagesAssumption DEF Init
<1> QED  BY <1>1, <1>2 DEF Init, TypeOK

LEMMA TypeStep ==
  ASSUME TypeOK, QueueInv, [Next]_vars
  PROVE  TypeOK'
<1> USE MaxMessagesAssumption
<1>0. queue \in Seq(Calls)
  BY DEF TypeOK
<1>1. CASE UNCHANGED vars
  BY <1>1 DEF TypeOK, vars
<1>2. ASSUME NEW t \in Senders, Broadcast(t)  PROVE TypeOK'
  <2>1. [op |-> "send", who |-> t, message |-> count + 1] \in Calls
    BY <1>2 DEF Broadcast, TypeOK, Calls
  <2>2. queue' \in Seq(Calls)
    BY <1>0, <1>2, <2>1 DEF Broadcast
  <2>3. count' \in 0..MaxMessages
    BY <1>2 DEF Broadcast, TypeOK
  <2> QED  BY <1>2, <2>2, <2>3 DEF Broadcast, TypeOK, loop
<1>3. ASSUME NEW t \in Senders, Cancel(t)  PROVE TypeOK'
  <2>1. queue' \in Seq(Calls)
    BY <1>0, <1>3, ReleaseWithout DEF Cancel, QueueInv
  <2>2. /\ todo' \subseteq Clients /\ stale' \subseteq Clients /\ sending' \in BOOLEAN
        /\ todo' \cup stale' \subseteq IF sending' THEN connections' ELSE {}
        /\ due' \in [1..MaxMessages -> SUBSET Clients]
    BY <1>3 DEF Cancel, TypeOK
  <2> QED  BY <1>3, <2>1, <2>2 DEF Cancel, TypeOK
<1>4. CASE BeginSending
  <2>1. due' \in [1..MaxMessages -> SUBSET Clients]
    BY <1>4 DEF BeginSending, TypeOK
  <2> QED  BY <1>4, <2>1 DEF BeginSending, TypeOK
<1>5. CASE FinishSending
  <2>1. queue' \in Seq(Calls)
    BY <1>5, HeadCall DEF FinishSending, QueueInv, Holds
  <2> QED  BY <1>5, <2>1 DEF FinishSending, Cleaned, TypeOK
<1>6. CASE Add
  <2>1. queue' \in Seq(Calls) /\ Head(queue).who \in Clients /\ ~sending
    BY <1>6, HeadCall, CallType DEF Add, QueueInv, Holds, IsSend
  <2> QED  BY <1>6, <2>1 DEF Add, TypeOK, loop
<1>7. CASE Discard
  <2>1. queue' \in Seq(Calls) /\ Head(queue).who \in Clients /\ ~sending
    BY <1>7, HeadCall, CallType DEF Discard, QueueInv, Holds, IsSend
  <2> QED  BY <1>7, <2>1 DEF Discard, TypeOK, loop
<1>8. ASSUME NEW c \in Clients, SendTo(c)  PROVE TypeOK'
  <2>1. Holds("send")
    BY <1>8 DEF SendTo, QueueInv
  <2>2. Head(queue).message \in 1..MaxMessages
    BY <2>1, HeadCall, CallType DEF Holds, IsSend
  <2>3. Append(received[c], Head(queue).message) \in Seq(1..MaxMessages)
    BY <2>2 DEF TypeOK
  <2>4. received' \in [Clients -> Seq(1..MaxMessages)]
    BY <1>8, <2>3 DEF SendTo, TypeOK
  <2>5. /\ todo' \subseteq Clients /\ stale' \subseteq Clients
        /\ todo' \cup stale' \subseteq IF sending' THEN connections' ELSE {}
    BY <1>8 DEF SendTo, AfterFailure, TypeOK
  <2> QED  BY <1>8, <2>4, <2>5 DEF SendTo, TypeOK
<1>9. ASSUME NEW c \in Clients, Connect(c)  PROVE TypeOK'
  <2>1. [op |-> "add", who |-> c] \in Calls
    BY DEF Calls
  <2>2. queue' \in Seq(Calls)
    BY <1>0, <1>9, <2>1 DEF Connect
  <2> QED  BY <1>9, <2>2 DEF Connect, TypeOK, loop
<1>10. ASSUME NEW c \in Clients, Disconnect(c)  PROVE TypeOK'
  <2>1. [op |-> "discard", who |-> c] \in Calls
    BY DEF Calls
  <2>2. queue' \in Seq(Calls)
    BY <1>0, <1>10, <2>1 DEF Disconnect
  <2> QED  BY <1>10, <2>2 DEF Disconnect, TypeOK, loop
<1>11. ASSUME NEW c \in Clients, EndpointFails(c) \/ Drop(c)  PROVE TypeOK'
  BY <1>11 DEF EndpointFails, Drop, TypeOK, loop
<1> QED  BY <1>1, <1>2, <1>3, <1>4, <1>5, <1>6, <1>7, <1>8, <1>9, <1>10, <1>11 DEF Next

-----------------------------------------------------------------------------
(* The order of the calls. *)

LEMMA AppendQueue ==
  ASSUME TypeOK, QueueInv, NEW call \in Calls, queue' = Append(queue, call),
         UNCHANGED sending, count' \in Nat, count <= count',
         IsSend(call) => /\ call.message > count /\ call.message <= count'
                         /\ \A i \in DOMAIN queue : IsSend(queue[i]) => queue[i].who # call.who
  PROVE  QueueInv'
<1>1. queue \in Seq(Calls) /\ count \in Nat /\ \A i \in DOMAIN queue : queue[i] \in Calls
  BY MaxMessagesAssumption DEF TypeOK
<1>2. \A i \in DOMAIN queue : IsSend(queue[i]) => queue[i].message \in Nat /\ queue[i].message <= count
  BY <1>1, CallType, MaxMessagesAssumption DEF QueueInv
<1>3. OrderedCalls(queue')
  <2>1. IsSend(call) => \A i \in DOMAIN queue : IsSend(queue[i]) =>
                          queue[i].message < call.message /\ queue[i].who # call.who
    BY <1>1, <1>2, CallType, MaxMessagesAssumption
  <2> QED  BY <1>1, <2>1, AppendOrdered DEF QueueInv
<1>4. /\ DOMAIN queue' = DOMAIN queue \cup {Len(queue) + 1} /\ queue'[Len(queue) + 1] = call
      /\ \A i \in DOMAIN queue : queue'[i] = queue[i]
  BY <1>1
<1>5. \A i \in DOMAIN queue' : IsSend(queue'[i]) => queue'[i].message <= count'
  BY <1>1, <1>2, <1>4
<1>6. sending' => Holds("send")'
  BY <1>1 DEF QueueInv, Holds
<1> QED  BY <1>3, <1>5, <1>6 DEF QueueInv, OrderedCalls

LEMMA WithoutQueue ==
  ASSUME TypeOK, QueueInv, NEW i, Without(queue, i, queue'), UNCHANGED count,
         sending' => sending /\ i # 1
  PROVE  QueueInv' /\ (sending' => queue' # <<>> /\ Head(queue') = Head(queue))
<1>1. queue \in Seq(Calls)
  BY DEF TypeOK
<1>2. OrderedCalls(queue')
  BY <1>1, WithoutOrdered, Zenon DEF QueueInv
<1>3. \A j \in DOMAIN queue' : IsSend(queue'[j]) => queue'[j].message <= count'
  <2> TAKE j \in DOMAIN queue'
  <2>1. PICK k \in DOMAIN queue : queue'[j] = queue[k]
    BY <1>1, WithoutPlace
  <2> QED  BY <2>1 DEF QueueInv
<1>4. sending' => queue' # <<>> /\ Head(queue') = Head(queue)
  <2> SUFFICES ASSUME sending' PROVE queue' # <<>> /\ Head(queue') = Head(queue)
    OBVIOUS
  <2>1. /\ queue' \in Seq(Calls) /\ Len(queue') = Len(queue) - 1
        /\ i \in 1..Len(queue) /\ i # 1 /\ Len(queue) \in Nat
    BY <1>1 DEF Without
  <2>2. 1 \in DOMAIN queue' /\ queue' # <<>> /\ Head(queue') = queue'[1] /\ Head(queue) = queue[1]
    BY <1>1, <2>1
  <2>3. 1 < i
    BY <2>1
  <2>4. queue'[1] = queue[1]
    BY <1>1, <2>2, <2>3, WithoutPlace
  <2> QED  BY <2>2, <2>4
<1>5. sending' => Holds("send")'
  BY <1>4 DEF QueueInv, Holds
<1> QED  BY <1>2, <1>3, <1>4, <1>5 DEF QueueInv, OrderedCalls

LEMMA QueueStep ==
  ASSUME TypeOK, QueueInv, [Next]_vars
  PROVE  QueueInv'
<1>0. queue \in Seq(Calls) /\ count \in Nat
  BY MaxMessagesAssumption DEF TypeOK
<1>1. CASE UNCHANGED vars
  BY <1>1 DEF QueueInv, OrderedCalls, Holds, vars
<1>2. ASSUME NEW t \in Senders, Broadcast(t)  PROVE QueueInv'
  <2> DEFINE call == [op |-> "send", who |-> t, message |-> count + 1]
  <2>1. call \in Calls /\ call.who = t /\ call.message = count + 1
    BY <1>2, MaxMessagesAssumption DEF Broadcast, TypeOK, Calls
  <2>2. \A i \in DOMAIN queue : IsSend(queue[i]) => queue[i].who # t
    BY <1>2 DEF Broadcast, Calling, IsSend
  <2>3. queue' = Append(queue, call) /\ UNCHANGED sending /\ count' = count + 1
    BY <1>2 DEF Broadcast, loop
  <2> HIDE DEF call
  <2> QED  BY <1>0, <2>1, <2>2, <2>3, AppendQueue
<1>3. ASSUME NEW t \in Senders, Cancel(t)  PROVE QueueInv'
  <2>1. queue' = Release(t) /\ UNCHANGED count
    BY <1>3 DEF Cancel
  <2>2. CASE Release(t) = queue /\ ~(Holds("send") /\ Head(queue).who = t)
    <3>1. UNCHANGED <<queue, sending, count>>
      BY <1>3, <2>1, <2>2 DEF Cancel
    <3> QED  BY <3>1 DEF QueueInv, OrderedCalls, Holds
  <2>3. ASSUME NEW i \in DOMAIN queue, Without(queue, i, Release(t)),
               i = 1 <=> Holds("send") /\ Head(queue).who = t
        PROVE  QueueInv'
    <3>1. sending' => sending /\ i # 1
      BY <1>3, <2>3 DEF Cancel
    <3> QED  BY <2>1, <2>3, <3>1, WithoutQueue
  <2> QED  BY <2>2, <2>3, ReleaseWithout DEF QueueInv
<1>4. CASE BeginSending
  BY <1>4 DEF BeginSending, QueueInv, OrderedCalls, Holds
<1>5. CASE FinishSending \/ Add \/ Discard
  <2>1. queue # <<>> /\ queue' = Tail(queue) /\ UNCHANGED count /\ ~sending'
    BY <1>5 DEF FinishSending, Add, Discard, QueueInv, Holds, loop
  <2>2. Without(queue, 1, queue')
    BY <2>1, HeadCall
  <2> QED  BY <2>1, <2>2, WithoutQueue
<1>6. ASSUME NEW c \in Clients, Connect(c) \/ Disconnect(c)  PROVE QueueInv'
  <2>1. PICK call \in [op: {"add", "discard"}, who: Clients] : queue' = Append(queue, call)
    BY <1>6 DEF Connect, Disconnect
  <2>2. call \in Calls /\ ~IsSend(call)
    BY <2>1 DEF Calls, IsSend
  <2>3. UNCHANGED <<sending, count>>
    BY <1>6 DEF Connect, Disconnect, loop
  <2> QED  BY <1>0, <2>1, <2>2, <2>3, AppendQueue
<1>7. ASSUME NEW c \in Clients, SendTo(c) \/ EndpointFails(c) \/ Drop(c)  PROVE QueueInv'
  BY <1>7 DEF SendTo, EndpointFails, Drop, loop, QueueInv, OrderedCalls, Holds
<1> QED  BY <1>1, <1>2, <1>3, <1>4, <1>5, <1>6, <1>7 DEF Next

-----------------------------------------------------------------------------
(* The order of the messages. *)

LEMMA AppendOrder ==
  ASSUME TypeOK, QueueInv, OrderInv, NEW call \in Calls, queue' = Append(queue, call),
         UNCHANGED <<sending, todo, received>>, count' \in Nat, count <= count',
         IsSend(call) => call.message > count
  PROVE  OrderInv'
<1>1. queue \in Seq(Calls) /\ count \in Nat
  BY MaxMessagesAssumption DEF TypeOK
<1>2. /\ DOMAIN queue' = DOMAIN queue \cup {Len(queue) + 1} /\ queue'[Len(queue) + 1] = call
      /\ \A i \in DOMAIN queue : queue'[i] = queue[i]
  BY <1>1
<1>3. ASSUME NEW c \in Clients
      PROVE  /\ \A k \in DOMAIN received[c] : received'[c][k] \in Nat /\ received'[c][k] <= count
             /\ received' = received
  BY MaxMessagesAssumption DEF TypeOK, OrderInv
<1>4. ASSUME NEW c \in Clients, NEW k \in DOMAIN received[c]  PROVE received'[c][k] <= count'
  BY <1>1, <1>3
<1>5. ASSUME NEW c \in Clients, NEW i \in DOMAIN queue', IsSend(queue'[i])  PROVE Newer(c, i)'
  <2>1. CASE i \in DOMAIN queue
    BY <1>2, <1>5, <2>1 DEF OrderInv, Newer
  <2>2. CASE i = Len(queue) + 1
    <3>1. call.message \in Nat /\ call.message > count
      BY <1>2, <1>5, <2>2, CallType, MaxMessagesAssumption
    <3>2. ASSUME NEW k \in DOMAIN received[c]  PROVE received'[c][k] < queue'[i].message
      BY <1>1, <1>2, <1>3, <2>2, <3>1
    <3> QED  BY <1>3, <3>2 DEF Newer
  <2> QED  BY <1>2, <2>1, <2>2
<1>6. InTimestampOrder'
  BY DEF OrderInv, InTimestampOrder
<1> QED  BY <1>3, <1>4, <1>5, <1>6 DEF OrderInv

LEMMA WithoutOrder ==
  ASSUME TypeOK, OrderInv, NEW i, Without(queue, i, queue'), UNCHANGED <<received, count>>,
         i # 1 => UNCHANGED <<sending, todo>>
  PROVE  OrderInv'
<1>1. queue \in Seq(Calls)
  BY DEF TypeOK
<1>2. ASSUME NEW c \in Clients, NEW j \in DOMAIN queue', IsSend(queue'[j])  PROVE Newer(c, j)'
  <2>1. CASE j < i
    <3>1. j \in DOMAIN queue /\ queue'[j] = queue[j] /\ (i = 1 => j # 1)
      BY <1>1, <2>1, WithoutPlace
    <3>2. Newer(c, j)
      BY <1>2, <3>1 DEF OrderInv
    <3> QED  BY <3>1, <3>2 DEF Newer
  <2>2. CASE ~(j < i)
    <3>1. j + 1 \in DOMAIN queue /\ queue'[j] = queue[j + 1] /\ j + 1 # 1
      BY <1>1, <2>2, WithoutPlace
    <3>2. Newer(c, j + 1)
      BY <1>2, <3>1 DEF OrderInv
    <3> QED  BY <3>1, <3>2 DEF Newer
  <2> QED  BY <2>1, <2>2
<1>3. InTimestampOrder' /\ \A c \in Clients : \A k \in DOMAIN received'[c] : received'[c][k] <= count'
  BY DEF OrderInv, InTimestampOrder
<1> QED  BY <1>2, <1>3 DEF OrderInv

(* The loop sends its message to a client that has nothing as new as it. *)
LEMMA SendOrder ==
  ASSUME TypeOK, QueueInv, OrderInv, NEW c \in Clients, SendTo(c), c \in alive
  PROVE  OrderInv'
<1> DEFINE m == queue[1].message
<1>1. /\ sending /\ c \in todo /\ queue' = queue /\ sending' = sending /\ count' = count
      /\ todo' = todo \ {c}
      /\ received' = [received EXCEPT ![c] = Append(@, Head(queue).message)]
  BY DEF SendTo
<1>2. Holds("send") /\ queue # <<>>
  BY <1>1 DEF QueueInv, Holds
<1>3. /\ 1 \in DOMAIN queue /\ IsSend(queue[1]) /\ Head(queue) = queue[1]
      /\ m \in Nat /\ m <= count /\ count \in Nat /\ m \in 1..MaxMessages
  BY <1>2, HeadCall, CallType, MaxMessagesAssumption DEF Holds, IsSend, QueueInv, TypeOK
<1>4. \A i \in DOMAIN queue : i \in Nat /\ queue[i] \in Calls /\ i > 0
  BY DEF TypeOK
<1> HIDE DEF m
<1>5. /\ \A d \in Clients \ {c} : received'[d] = received[d]
      /\ received'[c] = Append(received[c], m) /\ received[c] \in Seq(Nat)
      /\ \A d \in Clients : \A k \in DOMAIN received[d] : received[d][k] \in Nat
  BY <1>1, <1>3, MaxMessagesAssumption DEF TypeOK, m
<1>6. /\ DOMAIN received'[c] = DOMAIN received[c] \cup {Len(received[c]) + 1}
      /\ received'[c][Len(received[c]) + 1] = m
      /\ \A k \in DOMAIN received[c] :
           received'[c][k] = received[c][k] /\ k \in Nat /\ k < Len(received[c]) + 1
      /\ Len(received[c]) \in Nat
  BY <1>3, <1>5
<1>7. \A k \in DOMAIN received[c] : received[c][k] < m
  BY <1>1, <1>3 DEF OrderInv, Newer, m
<1>8. InTimestampOrder'
  <2> SUFFICES ASSUME NEW d \in Clients, NEW i \in DOMAIN received'[d],
                      NEW j \in DOMAIN received'[d], i < j
               PROVE  received'[d][i] < received'[d][j]
    BY DEF InTimestampOrder
  <2>1. CASE d # c
    BY <1>5, <2>1 DEF OrderInv, InTimestampOrder
  <2>2. CASE d = c
    <3>1. i \in DOMAIN received[c]
      BY <1>6, <2>2
    <3>2. CASE j \in DOMAIN received[c]
      BY <1>6, <2>2, <3>1, <3>2 DEF OrderInv, InTimestampOrder
    <3>3. CASE j = Len(received[c]) + 1
      BY <1>6, <1>7, <2>2, <3>1, <3>3
    <3> QED  BY <1>6, <2>2, <3>2, <3>3
  <2> QED  BY <2>1, <2>2
<1>9. ASSUME NEW d \in Clients, NEW k \in DOMAIN received'[d]  PROVE received'[d][k] <= count'
  <2>1. CASE d # c
    BY <1>1, <1>5, <1>9, <2>1 DEF OrderInv
  <2>2. CASE d = c
    BY <1>1, <1>3, <1>6, <1>9, <2>2 DEF OrderInv
  <2> QED  BY <2>1, <2>2
<1>10. ASSUME NEW d \in Clients, NEW i \in DOMAIN queue, IsSend(queue[i])  PROVE Newer(d, i)'
  <2>1. CASE d # c
    BY <1>1, <1>5, <1>10, <2>1 DEF OrderInv, Newer
  <2>2. CASE d = c /\ i = 1
    BY <1>1, <1>6, <1>7, <2>2 DEF Newer, m
  <2>3. CASE d = c /\ i # 1
    <3>1. m < queue[i].message /\ queue[i].message \in Nat
      BY <1>3, <1>4, <1>10, <2>3, CallType, MaxMessagesAssumption DEF QueueInv, OrderedCalls, m
    <3>2. ASSUME NEW k \in DOMAIN received'[c]  PROVE received'[c][k] < queue[i].message
      BY <1>3, <1>5, <1>6, <1>7, <3>1
    <3> QED  BY <1>1, <2>3, <3>2 DEF Newer
  <2> QED  BY <2>1, <2>2, <2>3
<1> QED  BY <1>1, <1>8, <1>9, <1>10 DEF OrderInv

LEMMA OrderStep ==
  ASSUME TypeOK, QueueInv, OrderInv, [Next]_vars
  PROVE  OrderInv'
<1>0. queue \in Seq(Calls) /\ count \in Nat
  BY MaxMessagesAssumption DEF TypeOK
<1>1. CASE UNCHANGED vars
  BY <1>1 DEF OrderInv, InTimestampOrder, Newer, vars
<1>2. ASSUME NEW t \in Senders, Broadcast(t)  PROVE OrderInv'
  <2> DEFINE call == [op |-> "send", who |-> t, message |-> count + 1]
  <2>1. call \in Calls /\ call.message = count + 1
    BY <1>2, MaxMessagesAssumption DEF Broadcast, TypeOK, Calls
  <2>2. /\ queue' = Append(queue, call) /\ count' = count + 1
        /\ UNCHANGED <<sending, todo, received>>
    BY <1>2 DEF Broadcast, loop
  <2> HIDE DEF call
  <2> QED  BY <1>0, <2>1, <2>2, AppendOrder
<1>3. ASSUME NEW t \in Senders, Cancel(t)  PROVE OrderInv'
  <2>1. queue' = Release(t) /\ UNCHANGED <<received, count>>
    BY <1>3 DEF Cancel
  <2>2. CASE Release(t) = queue /\ ~(Holds("send") /\ Head(queue).who = t)
    <3>1. UNCHANGED <<queue, sending, todo>>
      BY <1>3, <2>1, <2>2 DEF Cancel
    <3> QED  BY <2>1, <3>1 DEF OrderInv, InTimestampOrder, Newer
  <2>3. ASSUME NEW i \in DOMAIN queue, Without(queue, i, Release(t)),
               i = 1 <=> Holds("send") /\ Head(queue).who = t
        PROVE  OrderInv'
    <3>1. i # 1 => UNCHANGED <<sending, todo>>
      BY <1>3, <2>3 DEF Cancel
    <3> QED  BY <2>1, <2>3, <3>1, WithoutOrder
  <2> QED  BY <2>2, <2>3, ReleaseWithout DEF QueueInv
<1>4. CASE BeginSending
  <2>1. ~sending /\ UNCHANGED <<queue, received, count>>
    BY <1>4 DEF BeginSending
  <2> QED  BY <2>1 DEF OrderInv, InTimestampOrder, Newer
<1>5. CASE FinishSending \/ Add \/ Discard
  <2>1. queue # <<>> /\ queue' = Tail(queue) /\ UNCHANGED <<received, count>>
    BY <1>5 DEF FinishSending, Add, Discard, QueueInv, Holds, loop
  <2>2. Without(queue, 1, queue')
    BY <2>1, HeadCall
  <2> QED  BY <2>1, <2>2, WithoutOrder
<1>6. ASSUME NEW c \in Clients, Connect(c) \/ Disconnect(c)  PROVE OrderInv'
  <2>1. PICK call \in [op: {"add", "discard"}, who: Clients] : queue' = Append(queue, call)
    BY <1>6 DEF Connect, Disconnect
  <2>2. call \in Calls /\ ~IsSend(call)
    BY <2>1 DEF Calls, IsSend
  <2>3. UNCHANGED <<sending, todo, received, count>>
    BY <1>6 DEF Connect, Disconnect, loop
  <2> QED  BY <1>0, <2>1, <2>2, <2>3, AppendOrder
<1>7. ASSUME NEW c \in Clients, SendTo(c)  PROVE OrderInv'
  <2>1. CASE c \in alive
    BY <1>7, <2>1, SendOrder
  <2>2. CASE c \notin alive
    <3>1. todo' \subseteq todo /\ UNCHANGED <<queue, sending, received, count>>
      BY <1>7, <2>2 DEF SendTo, AfterFailure
    <3> QED  BY <3>1 DEF OrderInv, InTimestampOrder, Newer
  <2> QED  BY <2>1, <2>2
<1>8. ASSUME NEW c \in Clients, EndpointFails(c) \/ Drop(c)  PROVE OrderInv'
  BY <1>8 DEF EndpointFails, Drop, loop, OrderInv, InTimestampOrder, Newer
<1> QED  BY <1>1, <1>2, <1>3, <1>4, <1>5, <1>6, <1>7, <1>8 DEF Next

-----------------------------------------------------------------------------
(* Who is served. *)

LEMMA ServedStep ==
  ASSUME TypeOK, QueueInv, ServedInv, [Next]_vars
  PROVE  ServedInv'
<1>0. queue \in Seq(Calls) /\ \A i \in DOMAIN queue : queue[i] \in Calls
  BY DEF TypeOK
<1>1. CASE UNCHANGED vars
  BY <1>1 DEF ServedInv, Served, vars
(* A call joins the queue. *)
<1>2. ASSUME NEW call \in Calls, queue' = Append(queue, call),
             UNCHANGED <<connections, sending, todo, received, due>>,
             ~IsSend(call) => endpoint'[call.who] # "out",
             \A c \in Clients : endpoint'[c] = "out" => endpoint[c] = "out",
             \A c \in alive' \ alive : endpoint[c] = "out" /\ endpoint'[c] # "out"
      PROVE  ServedInv'
  <2>1. /\ DOMAIN queue' = DOMAIN queue \cup {Len(queue) + 1} /\ queue'[Len(queue) + 1] = call
        /\ \A i \in DOMAIN queue : queue'[i] = queue[i]
    BY <1>0, <1>2
  <2>2. sending => Head(queue') = Head(queue)
    BY <1>0, <1>2 DEF QueueInv, Holds
  <2>3. \A i \in DOMAIN queue : ~IsSend(queue[i]) => queue[i].who \in Clients
    BY <1>0, CallType
  <2>4. \A i \in DOMAIN queue' : ~IsSend(queue'[i]) => endpoint'[queue'[i].who] # "out"
    BY <1>2, <2>1, <2>3 DEF ServedInv
  <2>5. ASSUME NEW m \in 1..MaxMessages, NEW c \in due'[m] \cap alive'  PROVE Served(m, c)'
    <3>1. c \in Clients /\ c \in alive
      BY <1>2, <2>5 DEF ServedInv, TypeOK
    <3>2. Served(m, c)
      BY <1>2, <2>5, <3>1 DEF ServedInv
    <3> QED  BY <1>2, <2>2, <3>2 DEF Served
  <2>6. \A c \in Clients : endpoint'[c] = "out" =>
          c \notin alive' /\ c \notin connections' /\ \A m \in 1..MaxMessages : c \notin due'[m]
    BY <1>2 DEF ServedInv
  <2> QED  BY <2>4, <2>5, <2>6 DEF ServedInv
(* A call leaves the queue; what it was still to send is sent or forgotten. *)
<1>3. ASSUME NEW i, Without(queue, i, queue'), UNCHANGED <<alive, received, count>>,
             sending' => sending /\ i # 1, sending' => UNCHANGED todo,
             \A c \in Clients : endpoint'[c] = "out" =>
               endpoint[c] = "out" /\ (c \in connections' => c \in connections),
             \A m \in 1..MaxMessages : due'[m] \subseteq due[m],
             ~sending' /\ sending => todo = {} \/ due'[Head(queue).message] = {}
      PROVE  ServedInv'
  <2>1. \A j \in DOMAIN queue' : \E k \in DOMAIN queue : queue'[j] = queue[k]
    BY <1>0, <1>3, WithoutPlace
  <2>2. sending' => Head(queue') = Head(queue)
    BY <1>3, WithoutQueue
  <2>3. \A j \in DOMAIN queue : ~IsSend(queue[j]) => queue[j].who \in Clients
    BY <1>0, CallType
  <2>4. \A j \in DOMAIN queue' : ~IsSend(queue'[j]) => endpoint'[queue'[j].who] # "out"
    BY <1>3, <2>1, <2>3 DEF ServedInv
  <2>5. ASSUME NEW m \in 1..MaxMessages, NEW c \in due'[m] \cap alive'  PROVE Served(m, c)'
    <3>1. c \in due[m] \cap alive /\ Served(m, c)
      BY <1>3, <2>5 DEF ServedInv
    <3> QED  BY <1>3, <2>2, <2>5, <3>1 DEF Served
  <2>6. \A c \in Clients : endpoint'[c] = "out" =>
          c \notin alive' /\ c \notin connections' /\ \A m \in 1..MaxMessages : c \notin due'[m]
    BY <1>3 DEF ServedInv
  <2> QED  BY <2>4, <2>5, <2>6 DEF ServedInv
<1>4. ASSUME NEW t \in Senders, Broadcast(t)  PROVE ServedInv'
  <2> DEFINE call == [op |-> "send", who |-> t, message |-> count + 1]
  <2>1. call \in Calls /\ IsSend(call)
    BY <1>4, MaxMessagesAssumption DEF Broadcast, TypeOK, Calls, IsSend
  <2>2. queue' = Append(queue, call) /\ UNCHANGED <<connections, loop, endpoint, alive>>
    BY <1>4 DEF Broadcast
  <2> HIDE DEF call
  <2> QED  BY <1>2, <2>1, <2>2 DEF loop
<1>5. ASSUME NEW t \in Senders, Cancel(t)  PROVE ServedInv'
  <2>1. queue' = Release(t) /\ UNCHANGED <<connections, endpoint, alive, received, count>>
    BY <1>5 DEF Cancel
  <2>2. CASE Release(t) = queue /\ ~(Holds("send") /\ Head(queue).who = t)
    <3>1. UNCHANGED <<queue, sending, todo, due>>
      BY <1>5, <2>1, <2>2 DEF Cancel
    <3> QED  BY <2>1, <3>1 DEF ServedInv, Served
  <2>3. ASSUME NEW i \in DOMAIN queue, Without(queue, i, Release(t)), i # 1,
               ~(Holds("send") /\ Head(queue).who = t)
        PROVE  ServedInv'
    <3>1. UNCHANGED <<sending, todo, due>>
      BY <1>5, <2>3 DEF Cancel
    <3> QED  BY <1>3, <2>1, <2>3, <3>1
  <2>4. ASSUME Without(queue, 1, Release(t)), Holds("send"), Head(queue).who = t
        PROVE  ServedInv'
    <3>1. ~sending' /\ due' = [due EXCEPT ![Head(queue).message] = {}]
      BY <1>5, <2>4 DEF Cancel
    <3>2. Head(queue).message \in 1..MaxMessages
      BY <2>4, HeadCall, CallType DEF Holds, IsSend
    <3>3. due'[Head(queue).message] = {} /\ \A m \in 1..MaxMessages : due'[m] \subseteq due[m]
      BY <3>1, <3>2 DEF TypeOK
    <3> QED  BY <1>3, <2>1, <2>4, <3>1, <3>3
  <2> QED  BY <2>2, <2>3, <2>4, ReleaseWithout DEF QueueInv
<1>6. CASE BeginSending
  <2>1. Head(queue).message \in 1..MaxMessages
    BY <1>6, HeadCall, CallType DEF BeginSending, Holds, IsSend
  <2>2. /\ ~sending /\ sending' /\ todo' = connections
        /\ due'[Head(queue).message] = connections
        /\ \A m \in 1..MaxMessages \ {Head(queue).message} : due'[m] = due[m]
        /\ UNCHANGED <<queue, connections, endpoint, alive, received>>
    BY <1>6, <2>1 DEF BeginSending, TypeOK
  <2> QED  BY <2>1, <2>2 DEF ServedInv, Served
<1>7. CASE FinishSending
  <2>1. /\ queue # <<>> /\ queue' = Tail(queue) /\ ~sending' /\ todo = {}
        /\ connections' \subseteq connections
        /\ UNCHANGED <<endpoint, alive, received, count, due>>
    BY <1>7 DEF FinishSending, Cleaned, QueueInv, Holds
  <2>2. Without(queue, 1, queue')
    BY <2>1, HeadCall
  <2> QED  BY <1>3, <2>1, <2>2
<1>8. CASE Add \/ Discard
  <2>1. /\ queue # <<>> /\ queue' = Tail(queue) /\ ~sending /\ ~sending'
        /\ ~IsSend(queue[1]) /\ Head(queue) = queue[1] /\ queue[1].who \in Clients
        /\ UNCHANGED <<loop, alive, received, count, due>>
    BY <1>8, HeadCall, CallType DEF Add, Discard, QueueInv, Holds, IsSend, loop
  <2>2. Without(queue, 1, queue')
    BY <2>1, HeadCall
  <2>3. \A c \in Clients : endpoint'[c] = "out" =>
          endpoint[c] = "out" /\ (c \in connections' => c \in connections)
    BY <1>8, <2>1 DEF Add, Discard, TypeOK
  <2> QED  BY <1>3, <2>1, <2>2, <2>3
<1>9. ASSUME NEW c \in Clients, SendTo(c)  PROVE ServedInv'
  <2>1. Holds("send") /\ sending /\ sending' /\ todo' = todo \ {c}
        /\ UNCHANGED <<queue, connections, endpoint, alive, due>>
    BY <1>9 DEF SendTo, AfterFailure, QueueInv
  <2>2. ASSUME NEW m \in 1..MaxMessages, NEW d \in due[m] \cap alive  PROVE Served(m, d)'
    <3>1. Served(m, d)
      BY <2>2 DEF ServedInv
    <3>2. CASE d # c
      <4>1. received'[d] = received[d]
        BY <1>9, <2>2, <3>2 DEF SendTo, TypeOK
      <4> QED  BY <2>1, <3>1, <3>2, <4>1 DEF Served
    <3>3. CASE d = c
      <4>1. /\ received'[c] = Append(received[c], Head(queue).message)
            /\ received[c] \in Seq(1..MaxMessages)
        BY <1>9, <2>2, <3>3 DEF SendTo, TypeOK
      <4>2. Head(queue).message \in 1..MaxMessages
        BY <2>1, HeadCall, CallType DEF Holds, IsSend
      <4>3. /\ DOMAIN received'[c] = DOMAIN received[c] \cup {Len(received[c]) + 1}
            /\ received'[c][Len(received[c]) + 1] = Head(queue).message
            /\ \A k \in DOMAIN received[c] : received'[c][k] = received[c][k]
        BY <4>1, <4>2
      <4> QED  BY <3>1, <3>3, <4>3 DEF Served
    <3> QED  BY <3>2, <3>3
  <2> QED  BY <2>1, <2>2 DEF ServedInv
<1>10. ASSUME NEW c \in Clients, Connect(c)  PROVE ServedInv'
  <2>1. [op |-> "add", who |-> c] \in Calls /\ endpoint'[c] = "joining"
    BY <1>10 DEF Connect, Calls, TypeOK
  <2>2. \A d \in Clients : endpoint'[d] = "out" => endpoint[d] = "out"
    BY <1>10 DEF Connect, TypeOK
  <2> QED  BY <1>2, <1>10, <2>1, <2>2 DEF Connect, loop
<1>11. ASSUME NEW c \in Clients, Disconnect(c)  PROVE ServedInv'
  <2>1. [op |-> "discard", who |-> c] \in Calls /\ endpoint'[c] = "leaving"
    BY <1>11 DEF Disconnect, Calls, TypeOK
  <2>2. \A d \in Clients : endpoint'[d] = "out" => endpoint[d] = "out"
    BY <1>11 DEF Disconnect, TypeOK
  <2> QED  BY <1>2, <1>11, <2>1, <2>2 DEF Disconnect, loop
<1>12. ASSUME NEW c \in Clients, EndpointFails(c) \/ Drop(c)  PROVE ServedInv'
  <2>1. /\ alive' \subseteq alive /\ UNCHANGED <<queue, connections, loop>>
        /\ \A d \in Clients : endpoint'[d] = "out" => endpoint[d] = "out"
    BY <1>12 DEF EndpointFails, Drop, TypeOK
  <2>2. \A i \in DOMAIN queue : ~IsSend(queue[i]) => queue[i].who \in Clients
    BY <1>0, CallType
  <2> QED  BY <2>1, <2>2 DEF ServedInv, Served, loop
<1> QED
  BY <1>1, <1>4, <1>5, <1>6, <1>7, <1>8, <1>9, <1>10, <1>11, <1>12 DEF Next

-----------------------------------------------------------------------------
LEMMA InitIInv == Init => IInv
<1> SUFFICES ASSUME Init PROVE QueueInv /\ OrderInv /\ ServedInv
  BY InitType DEF IInv
<1>1. /\ queue = <<>> /\ DOMAIN queue = {} /\ ~sending /\ alive = {} /\ connections = {}
      /\ \A m \in 1..MaxMessages : due[m] = {}
      /\ \A c \in Clients : DOMAIN received[c] = {}
  BY DEF Init
<1> QED  BY <1>1 DEF QueueInv, OrderedCalls, OrderInv, InTimestampOrder, ServedInv

(* The inductive invariant is one. *)
THEOREM Invariance == Spec => []IInv
<1>1. IInv /\ [Next]_vars => IInv'
  BY TypeStep, QueueStep, OrderStep, ServedStep DEF IInv
<1> QED  BY <1>1, InitIInv, PTL DEF Spec

(* Queue, connections and messages have their types. *)
THEOREM TypeCorrect == Spec => []TypeOK
<1>1. IInv => TypeOK
  BY DEF IInv
<1> QED  BY <1>1, Invariance, PTL

(* No client ever receives messages out of the order of their timestamps. *)
THEOREM OrderCorrect == Spec => []InTimestampOrder
<1>1. IInv => InTimestampOrder
  BY DEF IInv, OrderInv
<1> QED  BY <1>1, Invariance, PTL

(* A broadcast that ends reaches all members whose connection is still open. *)
THEOREM ServiceCorrect == Spec => []EveryMemberServed
<1>1. ASSUME IInv, NEW m \in 1..MaxMessages, IsDone(m), NEW c \in due[m] \cap alive
      PROVE  \E i \in DOMAIN received[c] : received[c][i] = m
  <2>1. Served(m, c)
    BY <1>1 DEF IInv, ServedInv
  <2>2. ~(sending /\ m = Head(queue).message)
    <3>1. ASSUME sending PROVE m # Head(queue).message
      <4>1. Holds("send") /\ queue # <<>>
        BY <1>1, <3>1 DEF IInv, QueueInv, Holds
      <4>2. 1 \in DOMAIN queue /\ Head(queue) = queue[1] /\ queue[1].op = "send"
        BY <1>1, <4>1, HeadCall DEF IInv, Holds
      <4> QED  BY <1>1, <4>2 DEF IsDone
    <3> QED  BY <3>1
  <2> QED  BY <2>1, <2>2 DEF Served
<1>2. IInv => EveryMemberServed
  BY <1>1 DEF EveryMemberServed
<1> QED  BY <1>2, Invariance, PTL

(* The set the loop runs over does not change under it. *)
THEOREM IterationStable == Spec => StableIteration
<1>1. IInv /\ [Next]_vars => (sending /\ sending' => connections' = connections)
  <2> SUFFICES ASSUME IInv, [Next]_vars, sending, sending'  PROVE connections' = connections
    OBVIOUS
  <2>1. ~Add /\ ~Discard /\ ~FinishSending
    BY HeadCall DEF IInv, QueueInv, Holds, Add, Discard, FinishSending
  <2> QED
    BY <2>1 DEF Next, Broadcast, Cancel, BeginSending, SendTo, Connect, Disconnect, EndpointFails,
                Drop, loop, vars
<1> QED  BY <1>1, Invariance, PTL DEF StableIteration, Spec
=============================================================================
