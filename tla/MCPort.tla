------------------------------- MODULE MCPort -------------------------------
(***************************************************************************)
(* The way of a command to its port in one run, each part from its own       *)
(* initial states: the queue of commands (CommandManager) and the TCP        *)
(* connection they are written to (ReconnectingTcpSocket).  `part` says      *)
(* which one a behaviour is about; the other keeps its initial values.       *)
(*                                                                         *)
(* There are a command of an entity that is acknowledged by either kind of  *)
(* event, one of the same entity with low priority and no retry, one raw    *)
(* packet with and one without ackMatch.  Three net.Socket objects are one   *)
(* more than any correct behaviour uses at a time, so that a leaked          *)
(* connection has a place to show.                                          *)
(***************************************************************************)
EXTENDS CommandManager

CONSTANTS
    light, fan, ackPacket, thisPort, otherPort,
    Sockets, NoSocket, InitialDelay, MaxDelay, MaxRetries, MaxWrites

ASSUME TcpAssumption ==
    /\ NoSocket \notin Sockets
    /\ InitialDelay \in Nat \ {0}
    /\ MaxDelay \in Nat /\ InitialDelay <= MaxDelay
    /\ {MaxRetries, MaxWrites} \subseteq Nat

VARIABLES
    part,
    socket, status, listening, connectTimer, reconnecting, isDestroyed, reconnectTimer,
    currentDelay, writeBuffer, current, holder, pending, factory, retriesLeft,
    written, completed, delivered, stopped

Tcp == INSTANCE ReconnectingTcpSocket

tcpVars == <<socket, status, listening, connectTimer, reconnecting, isDestroyed,
             reconnectTimer, currentDelay, writeBuffer, current, holder, pending,
             factory, retriesLeft, written, completed, delivered, stopped>>
allVars == <<part, vars, tcpVars>>

PortInit == part \in {"commands", "tcp"} /\ Init /\ Tcp!Init

CommandsStep == part = "commands" /\ Next /\ UNCHANGED <<part, tcpVars>>
TcpStep      == part = "tcp" /\ Tcp!Next /\ UNCHANGED <<part, vars>>

PortNext == CommandsStep \/ TcpStep

\* The fairness of CommandManager and of ReconnectingTcpSocket.
PortSpec ==
    /\ PortInit /\ [][PortNext]_allVars
    /\ \A j \in Jobs :
         /\ WF_vars(part = "commands" /\ AckTimeout(j))
         /\ WF_vars(part = "commands" /\ (Retry(j) \/ GiveUp(j)))
         /\ WF_vars(part = "commands" /\ Resolve(j))
         /\ WF_vars(part = "commands" /\ Finally(j))
    /\ WF_tcpVars(part = "tcp" /\ \E s \in Sockets : Tcp!FactoryConnect(s))
    /\ WF_tcpVars(part = "tcp" /\ \E s \in Sockets : Tcp!ReconnectTimer(s))
    /\ \A s \in Sockets :
         /\ WF_tcpVars(part = "tcp" /\ Tcp!ConnectionTimeout(s))
         /\ WF_tcpVars(part = "tcp" /\ Tcp!SocketClosed(s))
         /\ WF_tcpVars(part = "tcp" /\ Tcp!WriteReturns(s))
         /\ WF_tcpVars(part = "tcp" /\ Tcp!Network(s) /\ status[s] = "ending")

-----------------------------------------------------------------------------
\* Of ReconnectingTcpSocket: one connection, one attempt, and never neither of
\* them for good.  A socket that is not destroyed is this.socket, no timer is left
\* from an older attempt, and without a connection something reconnects; across
\* connections chunks go out in the order of write(), each at most once.
ConnectionsInTurn == Tcp!ConnectionInv

\* Of ReconnectingTcpSocket: with the watchdog every write calls back, and a
\* silent connection is given up.
WritesReturn == Tcp!WritesReturn /\ Tcp!SilenceIsNoticed

\* Of ReconnectingTcpSocket, what tcp-socket.ts:19 says: only its owner, or the
\* factory that never connected, destroys the stream.
OnlyOwnerDestroys == Tcp!OnlyOwnerDestroys

-----------------------------------------------------------------------------
MCEntities == {light, fan}
MCPackets  == {ackPacket}
MCPorts    == {thisPort, otherPort}

Command(e, m, p, n) ==
    [entity |-> e, ackMatch |-> m, priority |-> p, attempts |-> n]

MCRequests ==
    {Command(light, ackPacket, "normal", 1),
     Command(light, NoMatch, "low", 0),
     Command(NoEntity, ackPacket, "low", 1),
     Command(NoEntity, NoMatch, "normal", 1)}
=============================================================================
