----------------------- MODULE ReconnectingTcpSocket -----------------------
(***************************************************************************)
(* The reconnecting stream over TCP: the class ReconnectingTcpSocket of    *)
(* packages/core/src/transports/serial/tcp-socket.ts, from the initial     *)
(* connection by createSerialPortConnection (serial.factory.ts) to the     *)
(* destroy() of HomeNetBridge.stop, with the idle watchdog of the bridge.  *)
(*                                                                         *)
(* One action is one callback of the event loop with the promise reactions *)
(* that follow it.  What node does inside a net.Socket and inside Duplex   *)
(* (one chunk at a time is passed to _write) is external: it is modelled   *)
(* as far as the class depends on it, the remote side and the network are  *)
(* nondeterministic.  Time is abstract, except that the 'close' event of a *)
(* destroyed socket is emitted in the same turn of the event loop, before  *)
(* any timer of a second or more can fire (NoCloseDue).                    *)
(***************************************************************************)
EXTENDS Integers, Sequences

CONSTANTS
  Sockets,       \* net.Socket objects; one is used again after it closed
  NoSocket,      \* this.socket is null
  InitialDelay,  \* initialDelayMs
  MaxDelay,      \* maxDelayMs
  MaxRetries,    \* maxRetries of the factory
  MaxWrites      \* bound: chunks the owner writes

VARIABLES
  socket,         \* this.socket
  status,         \* what each net.Socket is doing
  listening,      \* sockets that setupSocketListeners was called for
  connectTimer,   \* connectionTimeout of the attempt on a socket is armed
  reconnecting,   \* this.reconnecting
  isDestroyed,    \* this._isDestroyed
  reconnectTimer, \* this.reconnectTimer is armed
  currentDelay,   \* this.currentDelay
  writeBuffer,    \* this.writeBuffer: chunks, numbered in the order of write()
  current,        \* the chunk whose _write callback is outstanding, else 0
  holder,         \* the socket that chunk was written to, else NoSocket
  pending,        \* chunks that Duplex has not passed to _write yet
  factory,        \* progress of createSerialPortConnection
  retriesLeft,    \* maxRetries - attempt
  written,        \* history: number of the last chunk given to write()
  completed,      \* history: chunks whose callback reported success
  delivered,      \* history: chunks the remote side got
  stopped         \* history: the owner called destroy()

connVars   == <<socket, status, listening, connectTimer>>
retryVars  == <<reconnecting, reconnectTimer, currentDelay>>
writeVars  == <<writeBuffer, current, holder, pending>>
ownerVars  == <<factory, retriesLeft, stopped>>
chunkVars  == <<written, completed, delivered>>
vars == <<connVars, retryVars, isDestroyed, writeVars, ownerVars, chunkVars>>

\* "silent": open here, but the remote side vanished without closing.
\* "ending": the remote side closed; node ends the socket, then destroys it.
\* "closing": destroyed, its 'close' event is due.
Statuses == {"unused", "connecting", "open", "silent", "ending",
             "closing", "closed"}
Phases == {"waiting", "connecting", "ready", "failed"}

TypeOK ==
  /\ socket \in Sockets \cup {NoSocket}
  /\ status \in [Sockets -> Statuses]
  /\ listening \in SUBSET Sockets
  /\ connectTimer \in SUBSET Sockets
  /\ reconnecting \in BOOLEAN
  /\ isDestroyed \in BOOLEAN
  /\ reconnectTimer \in BOOLEAN
  /\ currentDelay \in InitialDelay..MaxDelay
  /\ writeBuffer \in Seq(Nat)
  /\ current \in Nat
  /\ holder \in Sockets \cup {NoSocket}
  /\ pending \in Seq(Nat)
  /\ factory \in Phases
  /\ retriesLeft \in Nat
  /\ written \in Nat
  /\ completed \in Nat
  /\ delivered \in Seq(Nat)
  /\ stopped \in BOOLEAN

Init ==
  /\ socket = NoSocket
  /\ status = [s \in Sockets |-> "unused"]
  /\ listening = {}
  /\ connectTimer = {}
  /\ reconnecting = FALSE
  /\ isDestroyed = FALSE
  /\ reconnectTimer = FALSE
  /\ currentDelay = InitialDelay
  /\ writeBuffer = <<>>
  /\ current = 0
  /\ holder = NoSocket
  /\ pending = <<>>
  /\ factory = "waiting"
  /\ retriesLeft = MaxRetries
  /\ written = 0
  /\ completed = 0
  /\ delivered = <<>>
  /\ stopped = FALSE

\* The socket s is not destroyed.
Live(s) == status[s] \in {"connecting", "open", "silent", "ending"}

\* isConnected: this.socket is set and not destroyed (it may be connecting).
Usable == socket # NoSocket /\ Live(socket)

NoCloseDue == \A s \in Sockets : status[s] # "closing"

\* A socket object no callback refers to any more.
Fresh(s) == status[s] \in {"unused", "closed"} /\ s \notin connectTimer
-----------------------------------------------------------------------------
(* Pieces that several callbacks share.                                    *)

\* connect(), up to the point where it waits for an event.
Connect(s) ==
  /\ Fresh(s)
  /\ socket' = s
  /\ status' = [status EXCEPT ![s] = "connecting"]
  /\ listening' = listening \ {s}
  /\ connectTimer' = connectTimer \cup {s}

\* scheduleReconnect(), called with reconnecting equal to busy.
ScheduleReconnect(busy) ==
  IF busy \/ isDestroyed
  THEN reconnecting' = busy /\ UNCHANGED reconnectTimer
  ELSE reconnecting' = TRUE /\ reconnectTimer' = TRUE

\* _destroy: st is the status of the sockets before it.
Destroy(st) ==
  /\ isDestroyed' = TRUE
  /\ reconnecting' = FALSE
  /\ reconnectTimer' = FALSE
  /\ status' = [s \in Sockets |->
                  IF s = socket /\ Live(s) THEN "closing" ELSE st[s]]
  /\ socket' = NoSocket
  /\ writeBuffer' = <<>>
  /\ current' = 0
  /\ holder' = NoSocket
  /\ pending' = <<>>
  /\ UNCHANGED <<listening, connectTimer, currentDelay>>

\* _write and writeToSocket of chunk c, rest being what Duplex keeps back.
\* A socket that is still connecting takes the chunk like a connected one; one
\* that was ended refuses it with an error, and Duplex destroys the stream.
PassChunk(c, rest) ==
  IF Usable /\ status[socket] = "ending"
  THEN Destroy(status)
  ELSE /\ current' = c
       /\ pending' = rest
       /\ IF Usable
          THEN holder' = socket /\ UNCHANGED writeBuffer
          ELSE holder' = NoSocket /\ writeBuffer' = Append(writeBuffer, c)
       /\ UNCHANGED <<connVars, retryVars, isDestroyed>>

\* Variant with a fault: reconnecting is not reset before scheduling again.
FailedStillBusy(sk) ==
  /\ factory' = IF factory # "connecting" THEN factory
                ELSE IF retriesLeft > 0 THEN "waiting" ELSE "failed"
  /\ retriesLeft' = IF factory = "connecting" /\ retriesLeft > 0
                    THEN retriesLeft - 1 ELSE retriesLeft
  /\ isDestroyed' = (isDestroyed \/ factory' = "failed")
  /\ socket' = IF factory' = "failed" THEN NoSocket ELSE sk
  /\ UNCHANGED currentDelay
  /\ ScheduleReconnect(reconnecting)

\* The rejection of connect(): the factory waits for its next attempt or gives
\* up and destroys the socket; the reconnection timer backs off and schedules
\* again.  sk is this.socket after the rejecting callback.
AttemptFailed(sk) ==
  /\ factory' = IF factory # "connecting" THEN factory
                ELSE IF retriesLeft > 0 THEN "waiting" ELSE "failed"
  /\ retriesLeft' = IF factory = "connecting" /\ retriesLeft > 0
                    THEN retriesLeft - 1 ELSE retriesLeft
  /\ isDestroyed' = (isDestroyed \/ factory' = "failed")
  /\ socket' = IF factory' = "failed" THEN NoSocket ELSE sk
  /\ IF factory = "ready"
     THEN /\ currentDelay' = IF 2 * currentDelay < MaxDelay
                             THEN 2 * currentDelay ELSE MaxDelay
          /\ ScheduleReconnect(FALSE)
     ELSE UNCHANGED retryVars
-----------------------------------------------------------------------------
(* The factory and the owner.                                              *)

\* An attempt of the loop in createSerialPortConnection.
FactoryConnect(s) ==
  /\ factory = "waiting"
  /\ NoCloseDue
  /\ factory' = "connecting"
  /\ Connect(s)
  /\ UNCHANGED <<retryVars, isDestroyed, writeVars, retriesLeft, stopped,
                 chunkVars>>

\* write() of the stream.
Write ==
  /\ factory = "ready"
  /\ written < MaxWrites
  /\ written' = written + 1
  /\ UNCHANGED <<ownerVars, completed, delivered>>
  /\ \/ /\ isDestroyed
        /\ UNCHANGED <<connVars, retryVars, isDestroyed, writeVars>>
     \/ /\ ~isDestroyed
        /\ current # 0
        /\ pending' = Append(pending, written + 1)
        /\ UNCHANGED <<connVars, retryVars, isDestroyed, writeBuffer, current,
                       holder>>
     \/ /\ ~isDestroyed
        /\ current = 0
        /\ PassChunk(written + 1, <<>>)

\* requestReconnect, called by the idle watchdog of the bridge.
RequestReconnect ==
  /\ factory = "ready"
  /\ ~stopped
  /\ ~isDestroyed
  /\ IF Usable
     THEN /\ status' = [status EXCEPT ![socket] = "closing"]
          /\ UNCHANGED <<reconnecting, reconnectTimer>>
     ELSE /\ ScheduleReconnect(reconnecting)
          /\ UNCHANGED status
  /\ UNCHANGED <<socket, listening, connectTimer, currentDelay, isDestroyed,
                 writeVars, ownerVars, chunkVars>>

\* HomeNetBridge.stop: the owner destroys the stream.
Stop ==
  /\ factory = "ready"
  /\ ~stopped
  /\ stopped' = TRUE
  /\ UNCHANGED <<factory, retriesLeft, chunkVars>>
  /\ IF isDestroyed
     THEN UNCHANGED <<connVars, retryVars, isDestroyed, writeVars>>
     ELSE Destroy(status)
-----------------------------------------------------------------------------
(* Callbacks of connect().                                                 *)

\* Variant with a fault: the buffered chunk is not flushed.
ConnectWithoutFlush(s) ==
  /\ status[s] = "connecting"
  /\ connectTimer' = connectTimer \ {s}
  /\ status' = [status EXCEPT ![s] = "open"]
  /\ listening' = listening \cup {s}
  /\ currentDelay' = InitialDelay
  /\ reconnecting' = FALSE
  /\ factory' = IF factory = "connecting" THEN "ready" ELSE factory
  /\ UNCHANGED <<socket, reconnectTimer, isDestroyed, writeVars, retriesLeft,
                 stopped, chunkVars>>

\* onConnect; flushWriteBuffer writes the chunk that was kept back.
OnConnect(s) ==
  /\ status[s] = "connecting"
  /\ connectTimer' = connectTimer \ {s}
  /\ status' = [status EXCEPT ![s] = "open"]
  /\ listening' = listening \cup {s}
  /\ currentDelay' = InitialDelay
  /\ writeBuffer' = <<>>
  /\ holder' = IF writeBuffer # <<>> THEN socket ELSE holder
  /\ reconnecting' = FALSE
  /\ factory' = IF factory = "connecting" THEN "ready" ELSE factory
  /\ UNCHANGED <<socket, reconnectTimer, isDestroyed, current, pending,
                 retriesLeft, stopped, chunkVars>>

\* onError: the connection is refused or cannot be made.
OnError(s) ==
  /\ status[s] = "connecting"
  /\ connectTimer' = connectTimer \ {s}
  /\ status' = [status EXCEPT ![s] = "closing"]
  /\ AttemptFailed(NoSocket)
  /\ UNCHANGED <<listening, writeVars, stopped, chunkVars>>

\* connectionTimeout fires; it looks at this.socket, whichever that is.
ConnectionTimeout(s) ==
  /\ s \in connectTimer
  /\ NoCloseDue
  /\ connectTimer' = connectTimer \ {s}
  /\ IF socket = NoSocket
     THEN UNCHANGED <<socket, status, retryVars, isDestroyed, factory,
                      retriesLeft>>
     ELSE /\ status' = [status EXCEPT ![socket] =
                          IF Live(socket) THEN "closing" ELSE @]
          /\ AttemptFailed(socket)
  /\ UNCHANGED <<listening, writeVars, stopped, chunkVars>>

\* The timer of scheduleReconnect.
ReconnectTimer(s) ==
  /\ reconnectTimer
  /\ NoCloseDue
  /\ reconnectTimer' = FALSE
  /\ Connect(s)
  /\ UNCHANGED <<reconnecting, currentDelay, isDestroyed, writeVars, ownerVars,
                 chunkVars>>
-----------------------------------------------------------------------------
(* Events of a socket.                                                     *)

\* 'close'.  After onConnect it is handled by handleDisconnect, whatever
\* this.socket is by then.  A chunk given to a socket that never connected
\* fails now, and Duplex destroys the stream; a write on a connected socket
\* has called back before.
SocketClosed(s) ==
  /\ status[s] = "closing"
  /\ ~(s \in listening /\ holder = s)
  /\ UNCHANGED <<ownerVars, chunkVars>>
  /\ \/ /\ s \in listening
        /\ status' = [status EXCEPT ![s] = "closed"]
        /\ socket' = NoSocket
        /\ ScheduleReconnect(reconnecting)
        /\ UNCHANGED <<listening, connectTimer, currentDelay, isDestroyed,
                       writeVars>>
     \/ /\ s \notin listening
        /\ holder = s
        /\ Destroy([status EXCEPT ![s] = "closed"])
     \/ /\ s \notin listening
        /\ holder # s
        /\ status' = [status EXCEPT ![s] = "closed"]
        /\ UNCHANGED <<socket, listening, connectTimer, retryVars, isDestroyed,
                       writeVars>>

\* The callback of a write reports success: the chunk went out, or the socket
\* was destroyed under it.  Duplex passes the next chunk at once.
WriteSucceeds(s) ==
  /\ holder = s
  /\ status[s] \in {"open", "silent", "ending", "closing"}
  /\ s \in listening
  /\ completed' = completed + 1
  /\ delivered' = IF status[s] \in {"open", "ending"}
                  THEN Append(delivered, current) ELSE delivered
  /\ UNCHANGED <<ownerVars, written>>
  /\ IF pending # <<>>
     THEN PassChunk(Head(pending), Tail(pending))
     ELSE /\ current' = 0
          /\ holder' = NoSocket
          /\ UNCHANGED <<connVars, retryVars, isDestroyed, writeBuffer,
                         pending>>

\* The callback of a write reports an error, and Duplex destroys the stream.
WriteFails(s) ==
  /\ holder = s
  /\ status[s] \in {"open", "silent", "ending"}
  /\ Destroy(status)
  /\ UNCHANGED <<ownerVars, chunkVars>>

\* The network and the remote side (external).
Network(s) ==
  /\ \/ status[s] = "open" /\ status' = [status EXCEPT ![s] = "silent"]
     \/ status[s] = "open" /\ status' = [status EXCEPT ![s] = "ending"]
     \/ status[s] \in {"open", "silent", "ending"}
        /\ status' = [status EXCEPT ![s] = "closing"]
  /\ UNCHANGED <<socket, listening, connectTimer, retryVars, isDestroyed,
                 writeVars, ownerVars, chunkVars>>
-----------------------------------------------------------------------------
Next ==
  \/ \E s \in Sockets :
       \/ FactoryConnect(s) \/ OnConnect(s) \/ OnError(s)
       \/ ConnectionTimeout(s) \/ ReconnectTimer(s) \/ SocketClosed(s)
       \/ WriteSucceeds(s) \/ WriteFails(s) \/ Network(s)
  \/ Write \/ RequestReconnect \/ Stop

\* A write on a socket whose remote side vanished may stay unanswered.
WriteReturns(s) == status[s] # "silent" /\ (WriteSucceeds(s) \/ WriteFails(s))

\* The event loop runs due timers and 'close' events; the operating system
\* finishes writes and ends sockets the remote side closed.
Fairness ==
  /\ WF_vars(\E s \in Sockets : FactoryConnect(s))
  /\ WF_vars(\E s \in Sockets : ReconnectTimer(s))
  /\ \A s \in Sockets :
       /\ WF_vars(ConnectionTimeout(s))
       /\ WF_vars(SocketClosed(s))
       /\ WF_vars(WriteReturns(s))
       /\ WF_vars(Network(s) /\ status[s] = "ending")

\* What only some properties assume: attempts made for ever do not all fail,
\* and serial_idle is configured, so that the watchdog fires.
GoodNetwork == \A s \in Sockets : SF_vars(OnConnect(s))
Watched     == WF_vars(RequestReconnect)

Spec     == Init /\ [][Next]_vars
FairSpec == Spec /\ Fairness
-----------------------------------------------------------------------------
(* Properties.                                                             *)

\* An attempt whose promise is still pending.
Attempting == socket # NoSocket /\ socket \in connectTimer

\* There is never a second connection: a socket that is not destroyed is
\* this.socket, and a destroyed stream or a failed factory leaves none behind.
SingleConnection ==
  \A s \in Sockets : Live(s) => s = socket /\ ~isDestroyed

\* One attempt at a time: while the stream lives, the only armed
\* connectionTimeout is the one of this.socket, so a stale one can never
\* destroy a newer connection; and no reconnection is scheduled meanwhile.
OneAttempt ==
  ~isDestroyed =>
    /\ connectTimer \subseteq {socket}
    /\ reconnectTimer => connectTimer = {}
    /\ factory = "ready" => (reconnecting <=> reconnectTimer \/ Attempting)

\* Never stuck: without a connection whose 'close' will be handled, something
\* that reconnects is armed.
AlwaysDriven ==
  factory = "ready" /\ ~isDestroyed =>
    \/ reconnectTimer
    \/ Attempting
    \/ socket \in listening
         /\ status[socket] \in {"open", "silent", "ending", "closing"}

\* No chunk is lost, repeated or overtaken between write() and the callback:
\* what waits is exactly what was written after the completed chunks, and the
\* chunk passed to _write is kept either in writeBuffer or by one socket.
ChunksInOrder ==
  /\ ~isDestroyed =>
       (IF current = 0 THEN <<>> ELSE <<current>>) \o pending
         = [i \in 1..(written - completed) |-> completed + i]
  /\ writeBuffer = IF current # 0 /\ holder = NoSocket THEN <<current>> ELSE <<>>
  /\ holder # NoSocket => current # 0
  /\ \A i, j \in 1..Len(delivered) : i < j => delivered[i] < delivered[j]
  /\ \A i \in 1..Len(delivered) : delivered[i] <= completed

\* "A TCP socket wrapper that automatically reconnects on disconnection": only
\* its owner, or the factory that never connected, destroys it.
OnlyOwnerDestroys == isDestroyed => stopped \/ factory = "failed"

\* With the watchdog, and on a network on which attempts do not fail for ever,
\* every write calls back, whatever happens to the connections meanwhile.
WritesReturn ==
  GoodNetwork /\ Watched => \A c \in 1..MaxWrites : current = c ~> current # c

\* With the watchdog, a connection whose remote side vanished is given up.
SilenceIsNoticed ==
  Watched => \A s \in Sockets : status[s] = "silent" ~> status[s] # "silent"
-----------------------------------------------------------------------------
(* The inductive invariant behind the safety properties.                   *)

\* One socket at most is in use or waits for its 'close' event; the sockets
\* and their timers and listeners go together.
SocketShape ==
  /\ \A s, t \in Sockets :
       {status[s], status[t]} \cap {"unused", "closed"} = {} => s = t
  /\ \A s \in Sockets :
       /\ status[s] = "connecting" => s \in connectTimer
       /\ status[s] \in {"open", "silent", "ending"} => s \in listening
       /\ status[s] = "closing" => socket \in {s, NoSocket}
       /\ status[s] = "closing" /\ s \in listening /\ ~isDestroyed => socket = s
  /\ listening \cap connectTimer = {}
  /\ reconnectTimer => ~Usable

\* What destroy() leaves.
DestroyedShape ==
  isDestroyed =>
    /\ socket = NoSocket /\ ~reconnecting /\ ~reconnectTimer
    /\ current = 0 /\ holder = NoSocket /\ pending = <<>>

\* Until the factory hands the stream out nobody writes, nothing reconnects.
FactoryShape ==
  /\ factory \in {"waiting", "connecting"} =>
       /\ ~isDestroyed /\ ~reconnecting /\ ~reconnectTimer
       /\ listening = {} /\ current = 0
  /\ factory = "waiting" => connectTimer = {} /\ ~Usable
  /\ factory = "connecting" => socket \in Sockets /\ status[socket] = "connecting"
  /\ factory = "failed" => isDestroyed

\* The chunks from the completed to the last written one, each counted once.
ChunkCount ==
  ~isDestroyed =>
    /\ current = 0 => pending = <<>> /\ written = completed
    /\ current # 0 => /\ current = completed + 1
                      /\ Len(pending) = written - completed - 1
                      /\ \A i \in 1..Len(pending) : pending[i] = completed + 1 + i

\* Inductive: checked by TLC as part of ConnectionsInTurn of MCPort and proved
\* in PortProof.
ConnectionInv ==
  /\ TypeOK /\ SingleConnection /\ OneAttempt /\ AlwaysDriven /\ ChunksInOrder
  /\ SocketShape /\ DestroyedShape /\ FactoryShape /\ ChunkCount
=============================================================================
