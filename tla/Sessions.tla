------------------------------- MODULE Sessions -------------------------------
(***************************************************************************)
(* net/session, net/reactor and the delivery half of net/server: client    *)
(* connections, the edge-triggered loop that serves them, and the threads  *)
(* (engine and workers) that queue output on them.                         *)
(*                                                                         *)
(* A client connects once and has at most one Session object, so a client  *)
(* stands for its session; descriptors are reused.  Output is counted in   *)
(* messages: the n-th one a session takes is the number n.  The reactor    *)
(* thread holds no lock over its loop: todo is what it still has to do for *)
(* the event at hand, one system call or critical section at a time.       *)
(***************************************************************************)
EXTENDS Naturals, Sequences, FiniteSets, SequencesExt

CONSTANTS Clients,
          Fds,           \* descriptors for accepted sockets
          Writers,       \* threads that call deliver
          MaxOutbound,   \* maxOutbound_, in messages
          SocketBuffer,  \* kernel send buffer, in messages
          MessageLimit,  \* bound: calls of deliver
          None

ASSUME BoundsAssumption ==
  MaxOutbound \in Nat /\ SocketBuffer \in Nat \ {0} /\ MessageLimit \in Nat
ASSUME NoneIsNobody == None \notin Clients \cup Fds

VARIABLES
  backlog,     \* connections waiting for accept4
  fd,          \* socket_ of each session, None before it was accepted
  closed,      \* closed_
  overflowed,  \* overflowed_ > 0
  outbound,    \* outbound_
  sessions,    \* sessions_, and with it handlers_
  needFlush,   \* needFlush_; a descriptor noted twice is flushed once
  needClose,   \* needClose_
  ready,       \* epoll's ready list: events not reported yet
  batch,       \* events of the last epoll_wait not dispatched yet
  todo,        \* the reactor thread inside a handler
  writer,      \* the threads inside deliver
  unread,      \* in the kernel: messages the peer has not read
  noSpace,     \* in the kernel: a send found the buffer full
  gone,        \* the peer has disconnected
  messages,    \* deliver calls so far
  queued,      \* history: how many messages send() took
  sent         \* history: messages handed to the socket, in order

session == <<fd, overflowed, outbound, queued>>
pending == <<needFlush, needClose, ready>>
reactor == <<sessions, batch, todo>>
threads == <<writer, messages>>
network == <<backlog, unread, noSpace, gone, sent>>
vars == <<session, closed, pending, reactor, threads, network>>

Sources == Fds \cup {"listener", "wakeup"}

Idle == [at |-> "idle", client |-> None]

Task(op, client) == [op |-> op, client |-> client, arg |-> None]

\* Somebody holds a shared_ptr to the session, so its socket is open.
Alive(c) ==
  /\ fd[c] # None
  /\ \/ \E f \in Fds : sessions[f] = c
     \/ \E w \in Writers : writer[w].client = c
     \/ \E i \in DOMAIN todo : todo[i].client = c

Registered(c) == \E f \in Fds : sessions[f] = c

Init ==
  /\ backlog = {} /\ fd = [c \in Clients |-> None]
  /\ closed = [c \in Clients |-> FALSE] /\ overflowed = [c \in Clients |-> FALSE]
  /\ outbound = [c \in Clients |-> <<>>]
  /\ sessions = [f \in Fds |-> None]
  /\ needFlush = {} /\ needClose = <<>>
  /\ ready = [f \in Sources |-> {}] /\ batch = {} /\ todo = <<>>
  /\ writer = [w \in Writers |-> Idle]
  /\ unread = [c \in Clients |-> 0] /\ noSpace = [c \in Clients |-> FALSE]
  /\ gone = [c \in Clients |-> FALSE]
  /\ messages = 0
  /\ queued = [c \in Clients |-> 0] /\ sent = [c \in Clients |-> <<>>]

-----------------------------------------------------------------------------
\* The peers and the kernel

\* The peer's end of a registered socket makes an event.
Raise(c, events) ==
  ready' = IF Registered(c) THEN [ready EXCEPT ![fd[c]] = @ \cup events] ELSE ready

Connect(c) ==
  /\ fd[c] = None /\ c \notin backlog
  /\ backlog' = backlog \cup {c}
  /\ ready' = [ready EXCEPT !["listener"] = {"IN"}]
  /\ UNCHANGED <<session, closed, needFlush, needClose, reactor, threads, unread, noSpace,
                 gone, sent>>

\* Frames matter here only while there is an answer to give.
PeerSends(c) ==
  /\ Registered(c) /\ ~gone[c] /\ messages < MessageLimit
  /\ Raise(c, {"IN"})
  /\ UNCHANGED <<session, closed, needFlush, needClose, reactor, threads, network>>

\* Room in a buffer that a send found full is a transition to writable.
PeerReads(c) ==
  /\ unread[c] > 0 /\ ~gone[c] /\ Alive(c)
  /\ unread' = [unread EXCEPT ![c] = 0]
  /\ noSpace' = [noSpace EXCEPT ![c] = FALSE]
  /\ Raise(c, IF noSpace[c] THEN {"OUT"} ELSE {})
  /\ UNCHANGED <<session, closed, needFlush, needClose, reactor, threads, backlog, gone, sent>>

\* An orderly shutdown is an end of stream to read; a reset is a hang-up too.
PeerLeaves(c) ==
  /\ Alive(c) /\ ~gone[c]
  /\ gone' = [gone EXCEPT ![c] = TRUE]
  /\ Raise(c, {"IN"}) \/ Raise(c, {"IN", "HUP"})
  /\ UNCHANGED <<session, closed, needFlush, needClose, reactor, threads, backlog, unread,
                 noSpace, sent>>

-----------------------------------------------------------------------------
\* Session::send and close, and what deliver makes of them

\* The critical section of send.  On overflow the session is marked closed.
Fits(c) == Len(outbound[c]) < MaxOutbound

Insert(c) ==
  /\ queued' = [queued EXCEPT ![c] = @ + 1]
  /\ outbound' = [outbound EXCEPT ![c] = Append(@, queued[c] + 1)]
  /\ UNCHANGED <<fd, closed, overflowed>>

Overflow(c) ==
  /\ overflowed' = [overflowed EXCEPT ![c] = TRUE]
  /\ closed' = [closed EXCEPT ![c] = TRUE]
  /\ UNCHANGED <<fd, outbound, queued>>

wake == ready' = [ready EXCEPT !["wakeup"] = {"IN"}]

\* A name with a suffix is a fault of the definition it precedes, kept to show
\* that a property notices it.
Close_EveryTime(c) ==
  /\ closed' = [closed EXCEPT ![c] = TRUE]
  /\ needClose' = Append(needClose, fd[c])
  /\ wake
  /\ UNCHANGED needFlush

Close_AfterRelease(c) ==
  /\ closed' = [closed EXCEPT ![c] = TRUE]
  /\ \/ closed[c] /\ UNCHANGED <<needClose, ready>>
     \/ ~closed[c] /\ needClose' = Append(needClose, None) /\ wake
  /\ UNCHANGED needFlush

Close_Silent(c) ==
  /\ closed' = [closed EXCEPT ![c] = TRUE]
  /\ \/ closed[c] /\ UNCHANGED needClose
     \/ ~closed[c] /\ needClose' = Append(needClose, fd[c])
  /\ UNCHANGED <<needFlush, ready>>

\* Only the first close() runs the close handler.
Close(c) ==
  /\ closed' = [closed EXCEPT ![c] = TRUE]
  /\ \/ closed[c] /\ UNCHANGED <<needClose, ready>>
     \/ ~closed[c] /\ needClose' = Append(needClose, fd[c]) /\ wake
  /\ UNCHANGED needFlush

Goto(w, label) == writer' = [writer EXCEPT ![w].at = label]
Leave(w) == writer' = [writer EXCEPT ![w] = Idle]

\* A thread obtained the session, a worker through its task, the engine through
\* the weak_ptr filed under an account; send() looks at closed_ first.
Deliver(w, c) ==
  /\ writer[w] = Idle /\ messages < MessageLimit /\ Alive(c)
  /\ messages' = messages + 1
  /\ writer' = [writer EXCEPT ![w] = [at |-> IF closed[c] THEN "drop" ELSE "insert", client |-> c]]
  /\ UNCHANGED <<session, closed, pending, reactor, network>>

SendInserts(w) ==
  /\ writer[w].at = "insert"
  /\ \/ Fits(writer[w].client) /\ Insert(writer[w].client) /\ Goto(w, "note")
     \/ ~Fits(writer[w].client) /\ Overflow(writer[w].client) /\ Goto(w, "drop")
  /\ UNCHANGED <<pending, reactor, messages, network>>

DeliverDrops(w) ==
  /\ writer[w].at = "drop"
  /\ Close(writer[w].client)
  /\ Leave(w)
  /\ UNCHANGED <<session, reactor, messages, network>>

DeliverNotes(w) ==
  /\ writer[w].at = "note"
  /\ needFlush' = needFlush \cup {fd[writer[w].client]}
  /\ Goto(w, "wake")
  /\ UNCHANGED <<session, closed, needClose, ready, reactor, messages, network>>

DeliverWakes(w) ==
  /\ writer[w].at = "wake"
  /\ wake
  /\ Leave(w)
  /\ UNCHANGED <<session, closed, needFlush, needClose, reactor, messages, network>>

-----------------------------------------------------------------------------
\* The reactor thread

EpollWait ==
  /\ todo = <<>> /\ batch = {}
  /\ batch' = {[at |-> f, events |-> ready[f]] : f \in {f \in Sources : ready[f] # {}}}
  /\ ready' = [f \in Sources |-> {}]
  /\ batch' # {}
  /\ UNCHANGED <<session, closed, needFlush, needClose, sessions, todo, threads, network>>

OnWakeup_ServicesFirst == <<Task("service", None), Task("drain", None)>>

\* The eventfd is read empty before the lists are looked at.
OnWakeup == <<Task("drain", None), Task("service", None)>>

\* The callback found for a descriptor when its event's turn comes.
Callback(event) ==
  LET c == sessions[event.at]
      has(e) == e \in event.events
  IN CASE event.at = "wakeup"   -> OnWakeup
       [] event.at = "listener" -> <<Task("accept", None)>>
       [] event.at \in Fds /\ c = None -> <<>>
       [] event.at \in Fds /\ c # None /\ has("HUP") -> <<Task("close", c)>>
       [] OTHER -> (IF has("OUT") THEN <<Task("writable", c)>> ELSE <<>>)
                   \o (IF has("IN") THEN <<Task("read", c)>> ELSE <<>>)

DispatchEvent ==
  /\ todo = <<>>
  /\ \E event \in batch : batch' = batch \ {event} /\ todo' = Callback(event)
  /\ UNCHANGED <<session, closed, pending, sessions, threads, network>>

At(op) == todo # <<>> /\ Head(todo).op = op
Me == Head(todo).client
Done == todo' = Tail(todo)
Continue(op, arg) == todo' = <<[op |-> op, client |-> Me, arg |-> arg]>> \o Tail(todo)

\* drainWakeup reads the counter down to zero, and with it a wakeup that came
\* since epoll_wait.
DrainWakeup ==
  /\ At("drain")
  /\ ready' = [ready EXCEPT !["wakeup"] = {}]
  /\ Done
  /\ UNCHANGED <<session, closed, needFlush, needClose, sessions, batch, threads, network>>

\* servicePending swaps the lists, flushes, then retires.
ServicePending ==
  LET found == SetToSeq({f \in needFlush : sessions[f] # None})
  IN /\ At("service")
     /\ todo' = [i \in 1 .. Len(found) |-> Task("writable", sessions[found[i]])]
                \o [i \in 1 .. Len(needClose) |-> [Task("retire", None) EXCEPT !.arg = needClose[i]]]
                \o Tail(todo)
     /\ needFlush' = {} /\ needClose' = <<>>
     /\ UNCHANGED <<session, closed, ready, sessions, batch, threads, network>>

\* Unregistered from epoll and dropped from the map; an event of the current
\* batch stays in it.
Retire ==
  /\ At("retire")
  /\ sessions' = [sessions EXCEPT ![Head(todo).arg] = None]
  /\ ready' = [ready EXCEPT ![Head(todo).arg] = {}]
  /\ Done
  /\ UNCHANGED <<session, closed, needFlush, needClose, batch, threads, network>>

\* One turn of the accept loop.  emplace leaves an entry that is there alone;
\* a new socket is writable at once.
Accept ==
  LET free == Fds \ {fd[c] : c \in {c \in Clients : Alive(c)}}
  IN /\ At("accept")
     /\ \/ /\ backlog = {} \/ free = {}       \* EAGAIN, or out of descriptors
           /\ Done
           /\ UNCHANGED <<fd, sessions, ready, backlog>>
        \/ \E c \in backlog, f \in free :
             /\ backlog' = backlog \ {c}
             /\ fd' = [fd EXCEPT ![c] = f]
             /\ sessions' = [sessions EXCEPT ![f] = IF @ = None THEN c ELSE @]
             /\ ready' = [ready EXCEPT ![f] = {"OUT"}]
             /\ UNCHANGED todo
     /\ UNCHANGED <<closed, overflowed, outbound, queued, needFlush, needClose, batch, threads,
                    unread, noSpace, gone, sent>>

CloseReady ==
  /\ At("close")
  /\ Close(Me)
  /\ Done
  /\ UNCHANGED <<session, sessions, batch, threads, network>>

\* onWritable looks at closed_ once and starts flush, whose loop ends when
\* nothing is queued, when the socket is full, or when the peer is gone; else it
\* sends a copy of some of the queue, without the lock ...
FlushSends ==
  LET room == SocketBuffer - unread[Me]
      stop == (At("writable") /\ closed[Me]) \/ outbound[Me] = <<>>
  IN /\ At("writable") \/ At("flush")
     /\ \/ stop /\ Done /\ UNCHANGED <<closed, pending, sent, unread, noSpace>>
        \/ /\ ~stop /\ room > 0
           /\ \E n \in 1 .. room :
                /\ n <= Len(outbound[Me])
                /\ sent' = [sent EXCEPT ![Me] = @ \o SubSeq(outbound[Me], 1, n)]
                /\ unread' = [unread EXCEPT ![Me] = @ + n]
                /\ Continue("erase", n)
           /\ UNCHANGED <<closed, pending, noSpace>>
        \/ /\ ~stop /\ room = 0 /\ ~gone[Me]     \* EAGAIN
           /\ noSpace' = [noSpace EXCEPT ![Me] = TRUE]
           /\ Done
           /\ UNCHANGED <<closed, pending, sent, unread>>
        \/ /\ ~stop /\ gone[Me]                  \* EPIPE
           /\ Close(Me)
           /\ Done
           /\ UNCHANGED <<sent, unread, noSpace>>
     /\ UNCHANGED <<session, sessions, batch, threads, backlog, gone>>

FlushErases_AllOfIt ==
  /\ At("erase")
  /\ outbound' = [outbound EXCEPT ![Me] = <<>>]
  /\ Continue("flush", None)
  /\ UNCHANGED <<fd, overflowed, queued, closed, pending, sessions, batch, threads, network>>

\* ... and erases that much, while the other threads append.
FlushErases ==
  /\ At("erase")
  /\ outbound' = [outbound EXCEPT ![Me] = SubSeq(@, Head(todo).arg + 1, Len(@))]
  /\ Continue("flush", None)
  /\ UNCHANGED <<fd, overflowed, queued, closed, pending, sessions, batch, threads, network>>

\* The read loop ends when the session is closed or the socket has no more ...
ReadStops ==
  /\ At("read")
  /\ closed[Me] \/ ~gone[Me]
  /\ Done
  /\ UNCHANGED <<session, closed, pending, sessions, batch, threads, network>>

\* ... at the end of the stream, on a socket error and on a frame that does not parse ...
ReadCloses ==
  /\ At("read") /\ ~closed[Me]
  /\ Close(Me)
  /\ Done
  /\ UNCHANGED <<session, sessions, batch, threads, network>>

\* ... and goes on after a frame.  Frames handed to a worker come back as its
\* deliveries; one the full pool refuses is answered here and now.
ReadRejects ==
  /\ At("read") /\ ~closed[Me] /\ messages < MessageLimit
  /\ messages' = messages + 1
  /\ \/ /\ Fits(Me) /\ Insert(Me)
        /\ needFlush' = needFlush \cup {fd[Me]} /\ wake
     \/ ~Fits(Me) /\ Overflow(Me) /\ UNCHANGED <<needFlush, ready>>
  /\ UNCHANGED <<needClose, reactor, writer, network>>

Reactor ==
  \/ EpollWait \/ DispatchEvent \/ DrainWakeup \/ ServicePending \/ Retire \/ Accept
  \/ CloseReady \/ FlushSends \/ FlushErases \/ ReadStops \/ ReadCloses \/ ReadRejects

Delivering(w) ==
  SendInserts(w) \/ DeliverDrops(w) \/ DeliverNotes(w) \/ DeliverWakes(w)

Next ==
  \/ \E c \in Clients : Connect(c) \/ PeerSends(c) \/ PeerReads(c) \/ PeerLeaves(c)
  \/ \E w \in Writers : Delivering(w) \/ \E c \in Clients : Deliver(w, c)
  \/ Reactor

Spec == Init /\ [][Next]_vars

\* The threads keep running, and a peer that stays reads what it is sent.
\* Nobody has to connect, to leave or to produce output.
Fairness ==
  /\ WF_vars(Reactor)
  /\ \A w \in Writers : WF_vars(Delivering(w))
  /\ \A c \in Clients : WF_vars(PeerReads(c))

FairSpec == Spec /\ Fairness

-----------------------------------------------------------------------------
TypeOK ==
  /\ backlog \subseteq Clients /\ fd \in [Clients -> Fds \cup {None}]
  /\ closed \in [Clients -> BOOLEAN] /\ overflowed \in [Clients -> BOOLEAN]
  /\ outbound \in [Clients -> Seq(Nat)]
  /\ sessions \in [Fds -> Clients \cup {None}]
  /\ needFlush \subseteq Fds /\ needClose \in Seq(Fds)
  /\ ready \in [Sources -> SUBSET {"IN", "OUT", "HUP"}]
  /\ unread \in [Clients -> 0 .. SocketBuffer]

\* Whoever appends meanwhile, flush sends every message send() took once and in
\* order, and erases exactly what it sent.
StreamIsIntact ==
  \A c \in Clients :
    LET unerased == IF At("erase") /\ Me = c THEN Head(todo).arg ELSE 0
    IN [n \in 1 .. queued[c] |-> n]
         = SubSeq(sent[c], 1, Len(sent[c]) - unerased) \o outbound[c]

\* A descriptor waiting to be retired still belongs to the closed session that
\* asked: it is not reused meanwhile, and nobody asks twice.
RetiresTheRightSession ==
  LET isDue(f) == \/ \E i \in DOMAIN needClose : needClose[i] = f
                  \/ \E i \in DOMAIN todo : todo[i].op = "retire" /\ todo[i].arg = f
  IN \A f \in Fds : isDue(f) =>
       sessions[f] # None /\ closed[sessions[f]] /\ fd[sessions[f]] = f

\* A message send() took reaches the socket or its session is closed: the wakeup
\* and the edge-triggered writability between them lose no flush.
QueuedIsSent ==
  \A c \in Clients : \A n \in 1 .. MessageLimit :
    (queued[c] >= n) ~> (Len(sent[c]) >= n \/ closed[c])

\* A session that was closed, by its peer or on an error, is unregistered and
\* released by the reactor.
ClosedIsRetired ==
  \A c \in Clients : (closed[c] /\ ~overflowed[c]) ~> ~Registered(c)

\* net/server.hpp: exceeding the outbound cap "disconnects the client".
OverflowDisconnects ==
  \A c \in Clients : overflowed[c] ~> ~Registered(c)

================================================================================
