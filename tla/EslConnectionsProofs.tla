----------------------- MODULE EslConnectionsProofs ------------------------
(* EslConnections: for any number of objects and of descriptors, no one     *)
(* closes the socket of another until a stray disconnect (SocketsOwned).    *)
EXTENDS EslConnections, TLAPS

\* The objects are not named like the other owners, and there is a descriptor 0.
Apart ==
  /\ MaxFd \in Nat
  /\ Conns \cap {"free", "program", "server", "handler"} = {}

Owner == {"free", "program", "server", "handler"} \cup Conns
Handle == [at : {"none", "handler", "live"}, callback : BOOLEAN,
           arg : Fds \cup {INVALID}, sock : Fds \cup {INVALID},
           opened : BOOLEAN, connected : BOOLEAN, destroyed : BOOLEAN]

\* What a handle says of itself, whatever others do.
Sound(h) ==
  /\ h.opened => h.at = "live" /\ ~ h.destroyed /\ h.sock \in Fds
  /\ h.connected => h.opened
  /\ h.at = "handler" => ~ h.destroyed

HandlesSound ==
  /\ server.at = "up" => server.sock \in Fds
  /\ \A c \in Conns : Sound(conn[c])

\* A handle that opened its socket has it, and a socket has one handler.
Owners ==
  /\ \A c \in Conns : conn[c].opened => fd[conn[c].sock] = c
  /\ \A c, d \in Conns :
       /\ conn[c].at = "handler" /\ conn[c].arg # INVALID
       /\ conn[d].at = "handler" /\ conn[d].arg = conn[c].arg
       => c = d

\* The inductive invariant.
IInv == TypeOK /\ HandlesSound /\ (~ strayed => Held /\ Closable /\ Owners)

-----------------------------------------------------------------------------

\* A handle of zeroes is one, and 0 is a descriptor, INVALID is none.
LEMMA ZeroedSound ==
  ASSUME Apart
  PROVE  0 \in Fds /\ INVALID \notin Fds /\ Zeroed \in Handle /\ Sound(Zeroed)
BY DEF Apart, Fds, INVALID, Zeroed, Handle, Sound

\* Nothing is open at the start but the program's input.
LEMMA InitSound ==
  ASSUME Apart, Init
  PROVE  IInv
<1>1. TypeOK
  BY ZeroedSound DEF Apart, Init, TypeOK, Handle, Fds, INVALID
<1>2. HandlesSound
  BY ZeroedSound DEF Init, HandlesSound
<1>3. \A c \in Conns : conn[c].at = "none" /\ ~ conn[c].opened /\ ~ conn[c].connected
  BY DEF Init, Zeroed
<1>4. Held /\ Closable /\ Owners
  BY <1>3, ZeroedSound DEF Apart, Init, Held, Closable, Owners
<1> QED
  BY <1>1, <1>2, <1>4 DEF IInv

\* A step that replaces one handle by a sound one.
LEMMA OneHandle ==
  ASSUME IInv, NEW c \in Conns, NEW h \in Handle, Sound(h),
         conn' = [conn EXCEPT ![c] = h]
  PROVE  /\ conn' \in [Conns -> Handle]
         /\ conn'[c] = h /\ \A d \in Conns \ {c} : conn'[d] = conn[d]
         /\ \A d \in Conns : Sound(conn'[d])
BY DEF IInv, TypeOK, HandlesSound, Handle, Sound

\* Opening and closing keep the types.
LEMMA OneFd ==
  ASSUME IInv, NEW s \in Fds, NEW o \in Owner, fd' = [fd EXCEPT ![s] = o]
  PROVE  /\ fd' \in [Fds -> Owner]
         /\ fd'[s] = o /\ \A r \in Fds \ {s} : fd'[r] = fd[r]
BY DEF IInv, TypeOK, Owner

\* The types, when the parts of a step have theirs.
LEMMA Typed ==
  ASSUME IInv, fd' \in [Fds -> Owner], conn' \in [Conns -> Handle],
         \A d \in Conns : Sound(conn'[d]),
         UNCHANGED server, UNCHANGED lost, strayed' \in BOOLEAN
  PROVE  TypeOK' /\ HandlesSound'
BY DEF IInv, TypeOK, HandlesSound, Handle, Owner, Sound, Fds

-----------------------------------------------------------------------------
(* The server.                                                             *)

\* Listen takes a descriptor that is free.
LEMMA ListenKeeps ==
  ASSUME Apart, IInv, NEW threaded \in BOOLEAN, Listen(threaded)
  PROVE  IInv'
<1>1. PICK s \in Fds : /\ Lowest(s) /\ fd' = [fd EXCEPT ![s] = "server"]
                       /\ server' = [at |-> "up", sock |-> s, threaded |-> threaded]
  BY DEF Listen
<1>2. /\ fd' \in [Fds -> Owner] /\ fd'[s] = "server"
      /\ \A r \in Fds \ {s} : fd'[r] = fd[r]
  BY <1>1, OneFd DEF Owner
<1>3. TypeOK' /\ HandlesSound'
  BY <1>1, <1>2 DEF Listen, IInv, TypeOK, HandlesSound, Owner, Sound, Fds
<1>4. ASSUME ~ strayed
      PROVE  Held' /\ Closable' /\ Owners'
  BY <1>1, <1>2, <1>4, ZeroedSound
     DEF Apart, Listen, IInv, TypeOK, HandlesSound, Sound, Held, Closable, Owners, Lowest
<1> QED
  BY <1>3, <1>4 DEF Listen, IInv

\* A socket without a thread is given to nobody.
LEMMA AcceptNoThreadKeeps ==
  ASSUME Apart, IInv, AcceptNoThread
  PROVE  IInv'
<1>1. PICK s \in Fds : /\ Lowest(s) /\ fd' = [fd EXCEPT ![s] = "handler"]
                       /\ lost' = lost \cup {s}
  BY DEF AcceptNoThread
<1>2. /\ fd' \in [Fds -> Owner] /\ fd'[s] = "handler"
      /\ \A r \in Fds \ {s} : fd'[r] = fd[r]
  BY <1>1, OneFd DEF Owner
<1>3. TypeOK' /\ HandlesSound'
  BY <1>1, <1>2 DEF AcceptNoThread, IInv, TypeOK, HandlesSound, Owner, Sound, Fds
<1>4. ASSUME ~ strayed
      PROVE  Held' /\ Closable' /\ Owners'
  BY <1>1, <1>2, <1>4, ZeroedSound
     DEF Apart, AcceptNoThread, IInv, TypeOK, HandlesSound, Sound, Held, Closable, Owners,
         Lowest
<1> QED
  BY <1>3, <1>4 DEF AcceptNoThread, IInv

\* The server closes its own socket.
LEMMA AcceptFailsKeeps ==
  ASSUME Apart, IInv, AcceptFails
  PROVE  IInv'
<1>1. server.at = "up" /\ server.sock \in Fds
  BY DEF AcceptFails, MayAccept, IInv, HandlesSound
<1>2. /\ fd' \in [Fds -> Owner] /\ fd'[server.sock] = "free"
      /\ \A r \in Fds \ {server.sock} : fd'[r] = fd[r]
  BY <1>1, OneFd DEF AcceptFails, Owner
<1>3. TypeOK' /\ HandlesSound'
  BY <1>2 DEF AcceptFails, IInv, TypeOK, HandlesSound, Owner, Sound, Fds, INVALID
<1>4. ASSUME ~ strayed
      PROVE  Held' /\ Closable' /\ Owners'
  BY <1>1, <1>2, <1>4, ZeroedSound
     DEF Apart, AcceptFails, IInv, TypeOK, HandlesSound, Sound, Held, Closable, Owners
<1> QED
  BY <1>3, <1>4 DEF AcceptFails, IInv

\* A handler gets a descriptor that was free.
LEMMA AcceptKeeps ==
  ASSUME Apart, IInv, NEW c \in Conns, Accept(c)
  PROVE  IInv'
<1>1. PICK s \in Fds :
        /\ Lowest(s) /\ fd' = [fd EXCEPT ![s] = "handler"]
        /\ conn' = [conn EXCEPT ![c] = [Zeroed EXCEPT !.at = "handler", !.callback = TRUE,
                                                      !.arg = s]]
  BY DEF Accept
<1> DEFINE h == [Zeroed EXCEPT !.at = "handler", !.callback = TRUE, !.arg = s]
<1>2. h \in Handle
  BY ZeroedSound DEF Handle
<1>3. Sound(h) /\ h.at = "handler" /\ h.arg = s /\ ~ h.opened /\ ~ h.connected
  BY DEF Sound, Zeroed
<1> HIDE DEF h
<1>4. /\ conn' \in [Conns -> Handle]
      /\ conn'[c] = h /\ \A d \in Conns \ {c} : conn'[d] = conn[d]
      /\ \A d \in Conns : Sound(conn'[d])
  BY <1>1, <1>2, <1>3, OneHandle DEF h
<1>5. /\ fd' \in [Fds -> Owner] /\ fd'[s] = "handler"
      /\ \A r \in Fds \ {s} : fd'[r] = fd[r]
  BY <1>1, OneFd DEF Owner
<1>6. TypeOK' /\ HandlesSound'
  BY <1>4, <1>5, Typed DEF Accept, IInv, TypeOK
<1>7. ASSUME ~ strayed
      PROVE  Held' /\ Closable' /\ Owners'
  BY <1>1, <1>3, <1>4, <1>5, <1>7, ZeroedSound
     DEF Apart, Accept, IInv, TypeOK, HandlesSound, Sound, Held, Closable, Owners, Lowest
<1> QED
  BY <1>6, <1>7 DEF Accept, IInv

-----------------------------------------------------------------------------
(* Objects.                                                                *)

\* The callback has no socket.
LEMMA AcceptInterruptedKeeps ==
  ASSUME Apart, IInv, NEW c \in Conns, AcceptInterrupted(c)
  PROVE  IInv'
<1>1. conn[c].at = "none"
  BY DEF AcceptInterrupted
<1> DEFINE h == [Zeroed EXCEPT !.at = "handler", !.callback = TRUE]
<1>2. h \in Handle
  BY <1>1, ZeroedSound DEF Handle
<1>3. Sound(h) /\ h.arg = INVALID /\ ~ h.opened /\ ~ h.connected
  BY <1>1, ZeroedSound DEF Sound, Zeroed
<1>4. conn' = [conn EXCEPT ![c] = h]
  BY <1>1 DEF AcceptInterrupted
<1> HIDE DEF h
<1>5. /\ conn' \in [Conns -> Handle]
      /\ conn'[c] = h /\ \A d \in Conns \ {c} : conn'[d] = conn[d]
      /\ \A d \in Conns : Sound(conn'[d])
  BY <1>2, <1>3, <1>4, OneHandle
<1>6. fd' \in [Fds -> Owner] /\ fd' = fd
  BY DEF AcceptInterrupted, IInv, TypeOK, Owner
<1>7. TypeOK' /\ HandlesSound'
  BY <1>5, <1>6, Typed DEF AcceptInterrupted, IInv, TypeOK
<1>8. ASSUME ~ strayed
      PROVE  Held' /\ Closable' /\ Owners'
  <2>1. \A s \in Fds : fd[s] # c
    BY <1>1, <1>8 DEF IInv, Closable
  <2>2. Held'
    BY <1>3, <1>5, <1>6, <1>8 DEF AcceptInterrupted, IInv, Held
  <2>3. Closable'
    BY <1>1, <1>3, <1>5, <1>6, <1>8, <2>1, ZeroedSound
       DEF Apart, AcceptInterrupted, IInv, Closable
  <2>4. Owners'
    BY <1>3, <1>5, <1>6, <1>8 DEF AcceptInterrupted, IInv, Owners
  <2> QED
    BY <2>2, <2>3, <2>4
<1> QED
  BY <1>7, <1>8 DEF AcceptInterrupted, IInv

\* The object takes its socket over from the handler.
LEMMA AttachKeeps ==
  ASSUME Apart, IInv, NEW c \in Conns, Attach(c)
  PROVE  IInv'
<1>1. /\ conn[c] \in Handle /\ Sound(conn[c])
      /\ conn[c].at = "handler" /\ conn[c].arg \in Fds /\ ~ conn[c].destroyed
  BY DEF Attach, IInv, TypeOK, HandlesSound, Handle, Sound, INVALID
<1> DEFINE h == [conn[c] EXCEPT !.at = "live", !.arg = INVALID, !.sock = conn[c].arg,
                                !.opened = TRUE, !.connected = TRUE]
<1>2. h \in Handle
  BY <1>1, ZeroedSound DEF Handle
<1>3. Sound(h) /\ h.at = "live" /\ ~ h.destroyed /\ h.sock = conn[c].arg /\ h.arg = INVALID
      /\ h.opened
  BY <1>1, ZeroedSound DEF Sound, Handle
<1>4. conn' = [conn EXCEPT ![c] = h]
  BY <1>1 DEF Attach
<1> HIDE DEF h
<1>5. /\ conn' \in [Conns -> Handle]
      /\ conn'[c] = h /\ \A d \in Conns \ {c} : conn'[d] = conn[d]
      /\ \A d \in Conns : Sound(conn'[d])
  BY <1>2, <1>3, <1>4, OneHandle
<1>6. /\ fd' \in [Fds -> Owner] /\ fd'[conn[c].arg] = c
      /\ \A r \in Fds \ {conn[c].arg} : fd'[r] = fd[r]
  BY <1>1, OneFd DEF Attach, Owner
<1>7. TypeOK' /\ HandlesSound'
  BY <1>5, <1>6, Typed DEF Attach, IInv, TypeOK
<1>8. ASSUME ~ strayed
      PROVE  Held' /\ Closable' /\ Owners'
  BY <1>1, <1>3, <1>5, <1>6, <1>8, ZeroedSound
     DEF Apart, Attach, IInv, TypeOK, HandlesSound, Sound, Held, Closable, Owners, Lowest
<1> QED
  BY <1>7, <1>8 DEF Attach, IInv

\* Nothing is taken over.
LEMMA AttachInvalidKeeps ==
  ASSUME Apart, IInv, NEW c \in Conns, AttachInvalid(c)
  PROVE  IInv'
<1>1. /\ conn[c] \in Handle /\ Sound(conn[c])
      /\ conn[c].at = "handler" /\ conn[c].arg = INVALID /\ ~ conn[c].opened
  BY DEF AttachInvalid, IInv, TypeOK, HandlesSound, Handle, Sound
<1> DEFINE h == [conn[c] EXCEPT !.at = "live"]
<1>2. h \in Handle
  BY <1>1, ZeroedSound DEF Handle
<1>3. Sound(h) /\ h.at = "live" /\ ~ h.opened /\ ~ h.connected
  BY <1>1, ZeroedSound DEF Sound, Handle
<1>4. conn' = [conn EXCEPT ![c] = h]
  BY <1>1 DEF AttachInvalid
<1> HIDE DEF h
<1>5. /\ conn' \in [Conns -> Handle]
      /\ conn'[c] = h /\ \A d \in Conns \ {c} : conn'[d] = conn[d]
      /\ \A d \in Conns : Sound(conn'[d])
  BY <1>2, <1>3, <1>4, OneHandle
<1>6. fd' \in [Fds -> Owner] /\ fd' = fd
  BY DEF AttachInvalid, IInv, TypeOK, Owner
<1>7. TypeOK' /\ HandlesSound'
  BY <1>5, <1>6, Typed DEF AttachInvalid, IInv, TypeOK
<1>8. ASSUME ~ strayed
      PROVE  Held' /\ Closable' /\ Owners'
  <2>1. \A s \in Fds : fd[s] # c
    BY <1>1, <1>8 DEF IInv, Closable
  <2>2. Held'
    BY <1>3, <1>5, <1>6, <1>8 DEF AttachInvalid, IInv, Held
  <2>3. Closable'
    BY <1>1, <1>3, <1>5, <1>6, <1>8, <2>1, ZeroedSound
       DEF Apart, AttachInvalid, IInv, Closable
  <2>4. Owners'
    BY <1>3, <1>5, <1>6, <1>8 DEF AttachInvalid, IInv, Owners
  <2> QED
    BY <2>2, <2>3, <2>4
<1> QED
  BY <1>7, <1>8 DEF AttachInvalid, IInv

\* The handler's socket is closed.
LEMMA AttachFailsKeeps ==
  ASSUME Apart, IInv, NEW c \in Conns, AttachFails(c)
  PROVE  IInv'
<1>1. /\ conn[c] \in Handle /\ Sound(conn[c])
      /\ conn[c].at = "handler" /\ conn[c].arg \in Fds
  BY DEF AttachFails, IInv, TypeOK, HandlesSound, Handle, INVALID
<1> DEFINE h == Disconnected([conn[c] EXCEPT !.at = "live"])
<1>2. h \in Handle
  BY <1>1, ZeroedSound DEF Handle, Disconnected
<1>3. Sound(h) /\ h.at = "live" /\ ~ h.opened /\ ~ h.connected
  BY <1>1, ZeroedSound DEF Sound, Handle, Disconnected, Zeroed
<1>4. conn' = [conn EXCEPT ![c] = h]
  BY <1>1 DEF AttachFails
<1> HIDE DEF h
<1>5. /\ conn' \in [Conns -> Handle]
      /\ conn'[c] = h /\ \A d \in Conns \ {c} : conn'[d] = conn[d]
      /\ \A d \in Conns : Sound(conn'[d])
  BY <1>2, <1>3, <1>4, OneHandle
<1>6. /\ fd' \in [Fds -> Owner] /\ fd'[conn[c].arg] = "free"
      /\ \A r \in Fds \ {conn[c].arg} : fd'[r] = fd[r]
  BY <1>1, OneFd DEF AttachFails, Owner
<1>7. TypeOK' /\ HandlesSound'
  BY <1>5, <1>6, Typed DEF AttachFails, IInv, TypeOK
<1>8. ASSUME ~ strayed
      PROVE  Held' /\ Closable' /\ Owners'
  BY <1>1, <1>3, <1>5, <1>6, <1>8, ZeroedSound
     DEF Apart, AttachFails, IInv, TypeOK, HandlesSound, Sound, Held, Closable, Owners, Lowest
<1> QED
  BY <1>7, <1>8 DEF AttachFails, IInv

\* A new socket is the object's own.
LEMMA ConnectKeeps ==
  ASSUME Apart, IInv, NEW c \in Conns, NEW connected \in BOOLEAN, Connect(c, connected)
  PROVE  IInv'
<1>1. PICK s \in Fds : /\ Lowest(s) /\ fd' = [fd EXCEPT ![s] = c]
                       /\ conn' = [conn EXCEPT ![c] =
                            [Zeroed EXCEPT !.at = "live", !.sock = s, !.opened = TRUE,
                                      !.connected = connected]]
  BY DEF Connect
<1> DEFINE h == [Zeroed EXCEPT !.at = "live", !.sock = s, !.opened = TRUE,
                                      !.connected = connected]
<1>2. h \in Handle
  BY <1>1, ZeroedSound DEF Handle
<1>3. Sound(h) /\ h.at = "live" /\ h.sock = s /\ h.opened
  BY <1>1, ZeroedSound DEF Sound, Zeroed
<1>4. conn' = [conn EXCEPT ![c] = h]
  BY <1>1 DEF Connect
<1> HIDE DEF h
<1>5. /\ conn' \in [Conns -> Handle]
      /\ conn'[c] = h /\ \A d \in Conns \ {c} : conn'[d] = conn[d]
      /\ \A d \in Conns : Sound(conn'[d])
  BY <1>2, <1>3, <1>4, OneHandle
<1>6. /\ fd' \in [Fds -> Owner] /\ fd'[s] = c
      /\ \A r \in Fds \ {s} : fd'[r] = fd[r]
  BY <1>1, OneFd DEF Connect, Owner
<1>7. TypeOK' /\ HandlesSound'
  BY <1>5, <1>6, Typed DEF Connect, IInv, TypeOK
<1>8. ASSUME ~ strayed
      PROVE  Held' /\ Closable' /\ Owners'
  BY <1>1, <1>3, <1>5, <1>6, <1>8, ZeroedSound
     DEF Apart, Connect, IInv, TypeOK, HandlesSound, Sound, Held, Closable, Owners, Lowest
<1> QED
  BY <1>7, <1>8 DEF Connect, IInv

\* No socket is made.
LEMMA ConnectUnresolvedKeeps ==
  ASSUME Apart, IInv, NEW c \in Conns, ConnectUnresolved(c)
  PROVE  IInv'
<1>1. conn[c].at = "none"
  BY DEF ConnectUnresolved
<1> DEFINE h == [Zeroed EXCEPT !.at = "live"]
<1>2. h \in Handle
  BY <1>1, ZeroedSound DEF Handle
<1>3. Sound(h) /\ h.at = "live" /\ ~ h.opened /\ ~ h.connected
  BY <1>1, ZeroedSound DEF Sound, Zeroed
<1>4. conn' = [conn EXCEPT ![c] = h]
  BY <1>1 DEF ConnectUnresolved
<1> HIDE DEF h
<1>5. /\ conn' \in [Conns -> Handle]
      /\ conn'[c] = h /\ \A d \in Conns \ {c} : conn'[d] = conn[d]
      /\ \A d \in Conns : Sound(conn'[d])
  BY <1>2, <1>3, <1>4, OneHandle
<1>6. fd' \in [Fds -> Owner] /\ fd' = fd
  BY DEF ConnectUnresolved, IInv, TypeOK, Owner
<1>7. TypeOK' /\ HandlesSound'
  BY <1>5, <1>6, Typed DEF ConnectUnresolved, IInv, TypeOK
<1>8. ASSUME ~ strayed
      PROVE  Held' /\ Closable' /\ Owners'
  <2>1. \A s \in Fds : fd[s] # c
    BY <1>1, <1>8 DEF IInv, Closable
  <2>2. Held'
    BY <1>3, <1>5, <1>6, <1>8 DEF ConnectUnresolved, IInv, Held
  <2>3. Closable'
    BY <1>1, <1>3, <1>5, <1>6, <1>8, <2>1, ZeroedSound
       DEF Apart, ConnectUnresolved, IInv, Closable
  <2>4. Owners'
    BY <1>3, <1>5, <1>6, <1>8 DEF ConnectUnresolved, IInv, Owners
  <2> QED
    BY <2>2, <2>3, <2>4
<1> QED
  BY <1>7, <1>8 DEF ConnectUnresolved, IInv

\* No socket can be made.
LEMMA ConnectNoSocketKeeps ==
  ASSUME Apart, IInv, NEW c \in Conns, ConnectNoSocket(c)
  PROVE  IInv'
<1>1. conn[c].at = "none"
  BY DEF ConnectNoSocket
<1> DEFINE h == [Zeroed EXCEPT !.at = "live", !.sock = INVALID]
<1>2. h \in Handle
  BY <1>1, ZeroedSound DEF Handle
<1>3. Sound(h) /\ h.at = "live" /\ ~ h.opened /\ ~ h.connected
  BY <1>1, ZeroedSound DEF Sound, Zeroed
<1>4. conn' = [conn EXCEPT ![c] = h]
  BY <1>1 DEF ConnectNoSocket
<1> HIDE DEF h
<1>5. /\ conn' \in [Conns -> Handle]
      /\ conn'[c] = h /\ \A d \in Conns \ {c} : conn'[d] = conn[d]
      /\ \A d \in Conns : Sound(conn'[d])
  BY <1>2, <1>3, <1>4, OneHandle
<1>6. fd' \in [Fds -> Owner] /\ fd' = fd
  BY DEF ConnectNoSocket, IInv, TypeOK, Owner
<1>7. TypeOK' /\ HandlesSound'
  BY <1>5, <1>6, Typed DEF ConnectNoSocket, IInv, TypeOK
<1>8. ASSUME ~ strayed
      PROVE  Held' /\ Closable' /\ Owners'
  <2>1. \A s \in Fds : fd[s] # c
    BY <1>1, <1>8 DEF IInv, Closable
  <2>2. Held'
    BY <1>3, <1>5, <1>6, <1>8 DEF ConnectNoSocket, IInv, Held
  <2>3. Closable'
    BY <1>1, <1>3, <1>5, <1>6, <1>8, <2>1, ZeroedSound
       DEF Apart, ConnectNoSocket, IInv, Closable
  <2>4. Owners'
    BY <1>3, <1>5, <1>6, <1>8 DEF ConnectNoSocket, IInv, Owners
  <2> QED
    BY <2>2, <2>3, <2>4
<1> QED
  BY <1>7, <1>8 DEF ConnectNoSocket, IInv

\* The socket stays.
LEMMA HangupKeeps ==
  ASSUME Apart, IInv, NEW c \in Conns, Hangup(c)
  PROVE  IInv'
<1>1. /\ conn[c] \in Handle /\ Sound(conn[c])
      /\ conn[c].at = "live" /\ conn[c].connected /\ conn[c].opened
  BY DEF Hangup, IInv, TypeOK, HandlesSound, Handle, Sound
<1> DEFINE h == [conn[c] EXCEPT !.connected = FALSE]
<1>2. h \in Handle
  BY <1>1, ZeroedSound DEF Handle
<1>3. Sound(h) /\ h.at = "live" /\ ~ h.connected /\ ~ h.destroyed
      /\ h.opened /\ h.sock = conn[c].sock
  BY <1>1, ZeroedSound DEF Sound, Handle
<1>4. conn' = [conn EXCEPT ![c] = h]
  BY <1>1 DEF Hangup
<1> HIDE DEF h
<1>5. /\ conn' \in [Conns -> Handle]
      /\ conn'[c] = h /\ \A d \in Conns \ {c} : conn'[d] = conn[d]
      /\ \A d \in Conns : Sound(conn'[d])
  BY <1>2, <1>3, <1>4, OneHandle
<1>6. fd' \in [Fds -> Owner] /\ fd' = fd
  BY DEF Hangup, IInv, TypeOK, Owner
<1>7. TypeOK' /\ HandlesSound'
  BY <1>5, <1>6, Typed DEF Hangup, IInv, TypeOK
<1>8. ASSUME ~ strayed
      PROVE  Held' /\ Closable' /\ Owners'
  BY <1>1, <1>3, <1>5, <1>6, <1>8, ZeroedSound
     DEF Apart, Hangup, IInv, TypeOK, HandlesSound, Sound, Held, Closable, Owners, Lowest
<1> QED
  BY <1>7, <1>8 DEF Hangup, IInv

\* What closing the socket of a handle that did not stray does.
LEMMA ClosedOwn ==
  ASSUME Apart, IInv, NEW c \in Conns, conn[c].at = "live", ~ conn[c].destroyed
  PROVE  /\ Closed(conn[c]) \in [Fds -> Owner]
         /\ ~ Strays(conn[c]) =>
              \/ Closed(conn[c]) = fd /\ conn[c].sock = INVALID
              \/ /\ conn[c].opened /\ conn[c].sock \in Fds
                 /\ Closed(conn[c])[conn[c].sock] = "free"
                 /\ \A r \in Fds \ {conn[c].sock} : Closed(conn[c])[r] = fd[r]
<1>1. conn[c].sock \in Fds \cup {INVALID} /\ fd \in [Fds -> Owner] /\ "free" \in Owner
  BY DEF IInv, TypeOK, Owner
<1> QED
  BY <1>1 DEF Closed, Strays

\* The object's own socket is closed, or no own one has been.
LEMMA DisconnectKeeps ==
  ASSUME Apart, IInv, NEW c \in Conns, disconnect(c)
  PROVE  IInv'
<1>1. /\ conn[c] \in Handle /\ Sound(conn[c])
      /\ conn[c].at = "live" /\ ~ conn[c].destroyed
  BY DEF disconnect, IInv, TypeOK, HandlesSound, Handle
<1> DEFINE h == Disconnected(conn[c])
<1>2. h \in Handle
  BY <1>1, ZeroedSound DEF Handle, Disconnected
<1>3. Sound(h) /\ h.at = "live" /\ ~ h.opened /\ ~ h.connected
  BY <1>1, ZeroedSound DEF Sound, Handle, Disconnected, Zeroed
<1>4. conn' = [conn EXCEPT ![c] = h]
  BY DEF disconnect
<1> HIDE DEF h
<1>5. /\ conn' \in [Conns -> Handle]
      /\ conn'[c] = h /\ \A d \in Conns \ {c} : conn'[d] = conn[d]
      /\ \A d \in Conns : Sound(conn'[d])
  BY <1>2, <1>3, <1>4, OneHandle
<1>6. TypeOK' /\ HandlesSound'
  BY <1>1, <1>5, ClosedOwn, Typed DEF disconnect, Strays, IInv, TypeOK
<1>7. ASSUME ~ strayed'
      PROVE  Held' /\ Closable' /\ Owners'
  <2>1. /\ ~ strayed
        /\ \/ fd' = fd /\ conn[c].sock = INVALID
           \/ /\ conn[c].opened /\ conn[c].sock \in Fds
              /\ fd'[conn[c].sock] = "free"
              /\ \A r \in Fds \ {conn[c].sock} : fd'[r] = fd[r]
    BY <1>1, <1>7, ClosedOwn DEF disconnect
  <2> QED
    BY <1>1, <1>3, <1>5, <2>1, ZeroedSound
       DEF Apart, disconnect, IInv, TypeOK, HandlesSound, Sound, Held, Closable, Owners
<1> QED
  BY <1>6, <1>7 DEF IInv

\* The same when the object is deleted; a handle that was disconnected has
\* nothing to close.
LEMMA DeleteKeeps ==
  ASSUME Apart, IInv, NEW c \in Conns, Delete(c)
  PROVE  IInv'
<1>1. conn[c] \in Handle /\ Sound(conn[c]) /\ conn[c].at = "live"
  BY DEF Delete, IInv, TypeOK, HandlesSound, Handle
<1>2. Zeroed \in Handle /\ Sound(Zeroed) /\ Zeroed.at = "none" /\ ~ Zeroed.opened
      /\ ~ Zeroed.connected
  BY ZeroedSound DEF Zeroed
<1>3. conn' = [conn EXCEPT ![c] = Zeroed]
  BY DEF Delete
<1>4. /\ conn' \in [Conns -> Handle]
      /\ conn'[c] = Zeroed /\ \A d \in Conns \ {c} : conn'[d] = conn[d]
      /\ \A d \in Conns : Sound(conn'[d])
  BY <1>2, <1>3, OneHandle
<1>5. fd' \in [Fds -> Owner]
  BY <1>1, ClosedOwn DEF Delete, IInv, TypeOK, Owner
<1>6. TypeOK' /\ HandlesSound'
  BY <1>1, <1>4, <1>5, Typed DEF Delete, Strays, IInv, TypeOK
<1>7. ASSUME ~ strayed'
      PROVE  Held' /\ Closable' /\ Owners'
  <2>1. /\ ~ strayed
        /\ \/ fd' = fd /\ (conn[c].destroyed \/ conn[c].sock = INVALID)
           \/ /\ conn[c].opened /\ conn[c].sock \in Fds
              /\ fd'[conn[c].sock] = "free"
              /\ \A r \in Fds \ {conn[c].sock} : fd'[r] = fd[r]
    BY <1>1, <1>7, ClosedOwn DEF Delete
  <2> QED
    BY <1>1, <1>2, <1>4, <2>1, ZeroedSound
       DEF Apart, Delete, IInv, TypeOK, HandlesSound, Sound, Held, Closable, Owners
<1> QED
  BY <1>6, <1>7 DEF IInv

-----------------------------------------------------------------------------

\* Whatever the number of objects and of descriptors, and in whatever order
\* sockets are accepted, attached, connected, disconnected and deleted: nobody
\* closes the socket of another before a stray disconnect
\* (src/esl/esl.c:1123-1176, src/esl/esl_oop.cpp:50-77).
THEOREM ConnectionsOwned ==
  ASSUME Apart
  PROVE  Spec => []SocketsOwned
<1>1. Init => IInv
  BY InitSound
<1>2. IInv /\ [Next]_vars => IInv'
  <2> SUFFICES ASSUME IInv, [Next]_vars PROVE IInv'
    OBVIOUS
  <2>1. CASE UNCHANGED vars
    BY <2>1 DEF vars, IInv, TypeOK, HandlesSound, Sound, Held, Closable, Owners
  <2>2. CASE Next
    BY <2>2, ListenKeeps, AcceptNoThreadKeeps, AcceptFailsKeeps, AcceptKeeps,
       AcceptInterruptedKeeps, AttachKeeps, AttachInvalidKeeps, AttachFailsKeeps,
       ConnectKeeps, ConnectUnresolvedKeeps, ConnectNoSocketKeeps, HangupKeeps,
       DisconnectKeeps, DeleteKeeps
       DEF Next
  <2> QED
    BY <2>1, <2>2
<1>3. IInv => SocketsOwned
  BY DEF IInv, SocketsOwned
<1> QED
  BY <1>1, <1>2, <1>3, PTL DEF Spec
=============================================================================
