--------------------------- MODULE EslConnections ---------------------------
(***************************************************************************)
(* Sockets and who closes them: the server of the event-socket library     *)
(* (esl_listen, esl_listen_threaded, client_thread), handles that connect  *)
(* or are attached to a socket, and the class ESLconnection that wraps a   *)
(* handle (src/esl/esl.c, src/esl/esl_oop.cpp).                            *)
(*                                                                         *)
(* The kernel gives the lowest descriptor that is free, so one that was    *)
(* closed is soon somebody else's.  A handle starts as zeroes: until it    *)
(* has a socket its sock is 0, which is a descriptor, too.                 *)
(***************************************************************************)
EXTENDS Integers

CONSTANTS Conns,    \* the ESLconnection objects, none of them called as below
          MaxFd     \* bound: the largest descriptor

Fds == 0 .. MaxFd
INVALID == -1

VARIABLES fd,       \* fd[s]: who s was opened for; 0 is the program's input
          server,   \* the listening server: at, sock and whether it has threads
          conn,     \* conn[c]: where object c is, its argument and its handle
          lost,     \* descriptors no one is going to close: no thread was made
          strayed   \* history: an object without a socket was disconnected

vars == <<fd, server, conn, lost, strayed>>

Zeroed == [at |-> "none", callback |-> FALSE, arg |-> INVALID, sock |-> 0,
           opened |-> FALSE, connected |-> FALSE, destroyed |-> FALSE]

Init ==
  /\ fd = [s \in Fds |-> IF s = 0 THEN "program" ELSE "free"]
  /\ server = [at |-> "down", sock |-> INVALID, threaded |-> FALSE]
  /\ conn = [c \in Conns |-> Zeroed]
  /\ lost = {} /\ strayed = FALSE

\* The lowest descriptor that is free.
Lowest(s) == s \in Fds /\ fd[s] = "free" /\ \A r \in 0 .. s - 1 : fd[r] # "free"
NoneFree == \A s \in Fds : fd[s] # "free"

-----------------------------------------------------------------------------
(* The server.                                                             *)

\* socket, bind and listen.  When bind or listen fail the socket is closed again.
Listen(threaded) ==
  /\ server.at = "down"
  /\ \E s \in Fds :
       /\ Lowest(s)
       /\ fd' = [fd EXCEPT ![s] = "server"]
       /\ server' = [at |-> "up", sock |-> s, threaded |-> threaded]
  /\ UNCHANGED <<conn, lost, strayed>>

\* Without threads the callback runs to its end before the next accept.
MayAccept ==
  /\ server.at = "up"
  /\ server.threaded \/ \A c \in Conns : ~ conn[c].callback

\* A client is accepted, and the callback or a thread that runs it starts: it
\* makes the object c.
Accept(c) ==
  /\ MayAccept /\ conn[c].at = "none"
  /\ \E s \in Fds :
       /\ Lowest(s)
       /\ fd' = [fd EXCEPT ![s] = "handler"]
       /\ conn' = [conn EXCEPT ![c] = [Zeroed EXCEPT !.at = "handler", !.callback = TRUE,
                                               !.arg = s]]
  /\ UNCHANGED <<server, lost, strayed>>

\* A signal interrupts accept: the callback is called with no socket.
AcceptInterrupted(c) ==
  /\ MayAccept /\ conn[c].at = "none"
  /\ conn' = [conn EXCEPT ![c] = [Zeroed EXCEPT !.at = "handler", !.callback = TRUE]]
  /\ UNCHANGED <<fd, server, lost, strayed>>

\* esl_thread_create_detached fails, and its result is not looked at.
AcceptNoThread ==
  /\ MayAccept /\ server.threaded
  /\ \E s \in Fds :
       /\ Lowest(s)
       /\ fd' = [fd EXCEPT ![s] = "handler"]
       /\ lost' = lost \cup {s}
  /\ UNCHANGED <<server, conn, strayed>>

\* accept fails, for one when no descriptor is free: the server ends.
AcceptFails ==
  /\ MayAccept
  /\ fd' = [fd EXCEPT ![server.sock] = "free"]
  /\ server' = [at |-> "down", sock |-> INVALID, threaded |-> FALSE]
  /\ UNCHANGED <<conn, lost, strayed>>

-----------------------------------------------------------------------------
(* Handles.                                                                *)

\* esl_disconnect leaves a handle of zeroes that is marked as destroyed.
Disconnected(h) ==
  [Zeroed EXCEPT !.at = h.at, !.callback = h.callback, !.destroyed = TRUE]

\* What esl_disconnect closes: whatever sock is, unless it is invalid.
Closed(h) == IF h.sock = INVALID THEN fd ELSE [fd EXCEPT ![h.sock] = "free"]

\* It closes a descriptor that it never opened.
Strays(h) == ~ h.destroyed /\ ~ h.opened /\ h.sock # INVALID

\* ESLconnection(socket): the handle has the socket before anything can fail.
Attach(c) ==
  /\ conn[c].at = "handler" /\ conn[c].arg # INVALID
  /\ fd' = [fd EXCEPT ![conn[c].arg] = c]
  /\ conn' = [conn EXCEPT ![c] = [@ EXCEPT !.at = "live", !.arg = INVALID,
                                           !.sock = conn[c].arg, !.opened = TRUE,
                                           !.connected = TRUE]]
  /\ UNCHANGED <<server, lost, strayed>>

\* Without a socket esl_attach_handle leaves the handle as it was made.
AttachInvalid(c) ==
  /\ conn[c].at = "handler" /\ conn[c].arg = INVALID
  /\ conn' = [conn EXCEPT ![c].at = "live"]
  /\ UNCHANGED <<fd, server, lost, strayed>>

\* The peer does not answer "connect": esl_attach_handle disconnects.
AttachFails(c) ==
  /\ conn[c].at = "handler" /\ conn[c].arg # INVALID
  /\ fd' = [fd EXCEPT ![conn[c].arg] = "free"]
  /\ conn' = [conn EXCEPT ![c] = Disconnected([@ EXCEPT !.at = "live"])]
  /\ UNCHANGED <<server, lost, strayed>>

\* ESLconnection(host, port): the socket is made, and the rest succeeds or not.
Connect(c, connected) ==
  /\ conn[c].at = "none"
  /\ \E s \in Fds :
       /\ Lowest(s)
       /\ fd' = [fd EXCEPT ![s] = c]
       /\ conn' = [conn EXCEPT ![c] = [Zeroed EXCEPT !.at = "live", !.sock = s,
                                               !.opened = TRUE, !.connected = connected]]
  /\ UNCHANGED <<server, lost, strayed>>

\* There is no port, or the host can not be resolved: sock stays 0.
ConnectUnresolved(c) ==
  /\ conn[c].at = "none"
  /\ conn' = [conn EXCEPT ![c] = [Zeroed EXCEPT !.at = "live"]]
  /\ UNCHANGED <<fd, server, lost, strayed>>

\* socket fails.
ConnectNoSocket(c) ==
  /\ conn[c].at = "none" /\ NoneFree
  /\ conn' = [conn EXCEPT ![c] = [Zeroed EXCEPT !.at = "live", !.sock = INVALID]]
  /\ UNCHANGED <<fd, server, lost, strayed>>

\* The connection ends; the socket stays open until esl_disconnect.
Hangup(c) ==
  /\ conn[c].at = "live" /\ conn[c].connected
  /\ conn' = [conn EXCEPT ![c].connected = FALSE]
  /\ UNCHANGED <<fd, server, lost, strayed>>

\* ESLconnection::disconnect.
disconnect(c) ==
  /\ conn[c].at = "live" /\ ~ conn[c].destroyed
  /\ fd' = Closed(conn[c])
  /\ conn' = [conn EXCEPT ![c] = Disconnected(@)]
  /\ strayed' = (strayed \/ Strays(conn[c]))
  /\ UNCHANGED <<server, lost>>

\* Mutant of Delete: a handle that was disconnected is disconnected again.
DeleteUnchecked(c) ==
  /\ conn[c].at = "live"
  /\ fd' = Closed(conn[c])
  /\ strayed' = (strayed \/ Strays(conn[c]))
  /\ conn' = [conn EXCEPT ![c] = Zeroed]
  /\ UNCHANGED <<server, lost>>

\* ~ESLconnection; a callback ends with the object it made.
Delete(c) ==
  /\ conn[c].at = "live"
  /\ fd' = IF conn[c].destroyed THEN fd ELSE Closed(conn[c])
  /\ strayed' = (strayed \/ Strays(conn[c]))
  /\ conn' = [conn EXCEPT ![c] = Zeroed]
  /\ UNCHANGED <<server, lost>>

Next ==
  \/ \E threaded \in BOOLEAN : Listen(threaded)
  \/ AcceptNoThread \/ AcceptFails
  \/ \E c \in Conns :
       \/ Accept(c) \/ AcceptInterrupted(c)
       \/ Attach(c) \/ AttachInvalid(c) \/ AttachFails(c)
       \/ \E connected \in BOOLEAN : Connect(c, connected)
       \/ ConnectUnresolved(c) \/ ConnectNoSocket(c)
       \/ Hangup(c) \/ disconnect(c) \/ Delete(c)

Spec == Init /\ [][Next]_vars

-----------------------------------------------------------------------------
(* Properties.                                                             *)

TypeOK ==
  /\ fd \in [Fds -> {"free", "program", "server", "handler"} \cup Conns]
  /\ server \in [at : {"down", "up"}, sock : Fds \cup {INVALID}, threaded : BOOLEAN]
  /\ conn \in [Conns -> [at : {"none", "handler", "live"}, callback : BOOLEAN,
                         arg : Fds \cup {INVALID}, sock : Fds \cup {INVALID},
                         opened : BOOLEAN, connected : BOOLEAN, destroyed : BOOLEAN]]
  /\ lost \subseteq Fds /\ strayed \in BOOLEAN

\* A connected object holds its own socket, and the server and the program's
\* input keep theirs.
Held ==
  /\ fd[0] = "program"
  /\ server.at = "up" => fd[server.sock] = "server"
  /\ \A c \in Conns :
       /\ conn[c].connected => fd[conn[c].sock] = c
       /\ conn[c].at = "handler" /\ conn[c].arg # INVALID => fd[conn[c].arg] = "handler"

\* A descriptor that is open has somebody who will close it, unless the thread
\* for it could not be made.
Closable ==
  \A s \in Fds :
    /\ fd[s] = "server" => server.at = "up" /\ server.sock = s
    /\ fd[s] = "handler" =>
         s \in lost \/ \E c \in Conns : conn[c].at = "handler" /\ conn[c].arg = s
    /\ \A c \in Conns :
         fd[s] = c => conn[c].at = "live" /\ conn[c].sock = s /\ ~ conn[c].destroyed

\* Until an object that never had a socket is disconnected (it closes
\* descriptor 0), nobody closes the socket of another, through all reuses of
\* descriptors, and none leaks but where a thread can not be made
\* (src/esl/esl.c:1123-1176, src/esl/esl_oop.cpp:50-77).
SocketsOwned == ~ strayed => Held /\ Closable
=============================================================================
