-------------------------- MODULE NotificationHub --------------------------
(***************************************************************************)
(* The WebSocket hub of sync/hub.go and the connection handlers of          *)
(* websocket_handlers.go: one goroutine in Run, per connection the handler  *)
(* that registers it and then a read and a write pump, and Shutdown, which  *)
(* runs in the goroutine of main.                                           *)
(*                                                                          *)
(* A payload is not looked at: the hub's queue holds the users to notify, a *)
(* client's Send channel is the number of messages in it.                   *)
(***************************************************************************)
EXTENDS Naturals, Sequences

CONSTANTS
  Conn,          \* bound: WebSocket connections ever made
  User,
  UserOf,        \* the user a connection authenticated as
  NotifyDepth,   \* capacity of Hub.notify
  SendDepth,     \* capacity of Client.Send
  None

ASSUME UserOfAssumption == UserOf \in [Conn -> User]
ASSUME DepthAssumption == NotifyDepth \in Nat \ {0} /\ SendDepth \in Nat \ {0}
ASSUME NoConnAssumption == None \notin Conn \cup User

VARIABLES
  loop,          \* Run: the message it has received
  notify,        \* Hub.notify
  done,          \* Hub.done is closed
  clients,       \* Hub.clients
  reader,        \* HandleWSConnection, then wsReadPump
  writer,        \* wsWritePump
  send,          \* how many messages Client.Send holds
  closed,        \* clients whose Send is closed
  socket,        \* connections that are not closed on this side
  shut           \* Shutdown, and the connection it is writing to

pumpVars == <<reader, writer>>
hubVars == <<loop, notify, done, clients, pumpVars, send, closed, socket, shut>>

At(where, on) == [at |-> where, on |-> on]

HubTypeOK ==
  /\ loop \in [at : {"select", "stopped"}, on : {None}]
              \cup [at : {"register", "unregister"}, on : Conn]
              \cup [at : {"notify"}, on : User]
  /\ notify \in Seq(User) /\ Len(notify) <= NotifyDepth
  /\ done \in BOOLEAN
  /\ clients \subseteq Conn /\ closed \subseteq Conn /\ socket \subseteq Conn
  /\ reader \in [Conn -> {"none", "register", "reading", "unregister", "close", "done"}]
  /\ writer \in [Conn -> {"none", "select", "write", "bye", "close", "done"}]
  /\ send \in [Conn -> 0 .. SendDepth]
  /\ shut \in [at : {"idle", "lock", "locked", "finished"}, on : {None}]
              \cup [at : {"write"}, on : Conn]

(* Connections in ended were closed and forgotten before.                   *)
HubInit(ended) ==
  /\ loop = At("select", None) /\ notify = <<>> /\ done = FALSE
  /\ clients = {} /\ closed = {} /\ socket = {}
  /\ reader = [c \in Conn |-> IF c \in ended THEN "done" ELSE "none"] /\ writer = reader
  /\ send = [c \in Conn |-> 0]
  /\ shut = At("idle", None)

-----------------------------------------------------------------------------
(* NotifyUser: the sender waits while the channel is full.                  *)
NotifyUser(u) == Len(notify) < NotifyDepth /\ notify' = Append(notify, u)

(* Shutdown has the mutex.                                                  *)
Locked == shut.at \in {"locked", "write"}

(* HandleWSConnection up to Register; the token was accepted.               *)
HandleWSConnection(c) ==
  /\ reader[c] = "none"
  /\ reader' = [reader EXCEPT ![c] = "register"]
  /\ socket' = socket \cup {c}
  /\ UNCHANGED <<loop, notify, done, clients, writer, send, closed, shut>>

(* Run receives a registration, and Register returns: the pumps start.      *)
RunRegister(c) ==
  /\ loop.at = "select" /\ reader[c] = "register"
  /\ loop' = At("register", c)
  /\ reader' = [reader EXCEPT ![c] = "reading"]
  /\ writer' = [writer EXCEPT ![c] = "select"]
  /\ UNCHANGED <<notify, done, clients, send, closed, socket, shut>>

HandleRegister ==
  /\ loop.at = "register" /\ ~Locked
  /\ clients' = clients \cup {loop.on}
  /\ loop' = At("select", None)
  /\ UNCHANGED <<notify, done, pumpVars, send, closed, socket, shut>>

RunUnregister(c) ==
  /\ loop.at = "select" /\ reader[c] = "unregister"
  /\ loop' = At("unregister", c)
  /\ reader' = [reader EXCEPT ![c] = "close"]
  /\ UNCHANGED <<notify, done, clients, writer, send, closed, socket, shut>>

(* Wrong HandleUnregister: the entry stays in the map.                      *)
HandleUnregisterKeeps ==
  /\ loop.at = "unregister" /\ ~Locked
  /\ closed' = closed \cup ({loop.on} \cap clients)
  /\ loop' = At("select", None)
  /\ UNCHANGED <<notify, done, clients, pumpVars, send, socket, shut>>

(* A client that is not in the map is left alone.                           *)
HandleUnregister ==
  /\ loop.at = "unregister" /\ ~Locked
  /\ closed' = closed \cup ({loop.on} \cap clients)
  /\ clients' = clients \ {loop.on}
  /\ loop' = At("select", None)
  /\ UNCHANGED <<notify, done, pumpVars, send, socket, shut>>

RunNotify ==
  /\ loop.at = "select" /\ notify # <<>>
  /\ loop' = At("notify", Head(notify))
  /\ notify' = Tail(notify)
  /\ UNCHANGED <<done, clients, pumpVars, send, closed, socket, shut>>

(* Wrong HandleNotify: it sends without looking for room.                   *)
HandleNotifyUnbounded ==
  /\ loop.at = "notify" /\ ~Locked
  /\ send' = [c \in Conn |-> IF c \in clients /\ UserOf[c] = loop.on THEN send[c] + 1 ELSE send[c]]
  /\ loop' = At("select", None)
  /\ UNCHANGED <<notify, done, clients, pumpVars, closed, socket, shut>>

(* Wrong HandleNotify: it waits until every client has room.                *)
HandleNotifyWaits ==
  /\ loop.at = "notify" /\ ~Locked
  /\ \A c \in clients : UserOf[c] = loop.on => send[c] < SendDepth
  /\ send' = [c \in Conn |-> IF c \in clients /\ UserOf[c] = loop.on THEN send[c] + 1 ELSE send[c]]
  /\ loop' = At("select", None)
  /\ UNCHANGED <<notify, done, clients, pumpVars, closed, socket, shut>>

(* Every client of the user gets the message, or loses it if its buffer is  *)
(* full.                                                                    *)
HandleNotify ==
  LET Gets(c) == c \in clients /\ UserOf[c] = loop.on /\ send[c] < SendDepth IN
  /\ loop.at = "notify" /\ ~Locked
  /\ send' = [c \in Conn |-> IF Gets(c) THEN send[c] + 1 ELSE send[c]]
  /\ loop' = At("select", None)
  /\ UNCHANGED <<notify, done, clients, pumpVars, closed, socket, shut>>

RunStops ==
  /\ loop.at = "select" /\ done
  /\ loop' = At("stopped", None)
  /\ UNCHANGED <<notify, done, clients, pumpVars, send, closed, socket, shut>>

-----------------------------------------------------------------------------
(* Wrong ReadEnds: wsReadPump returns without Unregister.                    *)
ReadEndsQuietly(c) ==
  /\ reader[c] = "reading"
  /\ reader' = [reader EXCEPT ![c] = "close"]
  /\ UNCHANGED <<loop, notify, done, clients, writer, send, closed, socket, shut>>

(* wsReadPump: ReadMessage fails because the peer went away, the deadline   *)
(* passed or this side closed the connection.                               *)
ReadEnds(c) ==
  /\ reader[c] = "reading"
  /\ reader' = [reader EXCEPT ![c] = "unregister"]
  /\ UNCHANGED <<loop, notify, done, clients, writer, send, closed, socket, shut>>

(* Unregister, if nobody receives any more.                                 *)
UnregisterGivesUp(c) ==
  /\ reader[c] = "unregister" /\ done
  /\ reader' = [reader EXCEPT ![c] = "close"]
  /\ UNCHANGED <<loop, notify, done, clients, writer, send, closed, socket, shut>>

ReaderCloses(c) ==
  /\ reader[c] = "close"
  /\ reader' = [reader EXCEPT ![c] = "done"]
  /\ socket' = socket \ {c}
  /\ UNCHANGED <<loop, notify, done, clients, writer, send, closed, shut>>

(* wsWritePump: a message, the closed channel once it is empty, or a ping.  *)
WriterSelects(c) ==
  /\ writer[c] = "select"
  /\ \/ /\ send[c] > 0
        /\ send' = [send EXCEPT ![c] = @ - 1] /\ writer' = [writer EXCEPT ![c] = "write"]
     \/ /\ send[c] = 0 /\ c \in closed
        /\ writer' = [writer EXCEPT ![c] = "bye"] /\ UNCHANGED send
     \/ writer' = [writer EXCEPT ![c] = "write"] /\ UNCHANGED send
  /\ UNCHANGED <<loop, notify, done, clients, reader, closed, socket, shut>>

(* WriteMessage returns; on a closed connection with an error.              *)
WriteReturns(c) ==
  /\ \/ writer[c] = "write" /\ c \in socket /\ writer' = [writer EXCEPT ![c] = "select"]
     \/ writer[c] \in {"write", "bye"} /\ writer' = [writer EXCEPT ![c] = "close"]
  /\ UNCHANGED <<loop, notify, done, clients, reader, send, closed, socket, shut>>

WriterCloses(c) ==
  /\ writer[c] = "close"
  /\ writer' = [writer EXCEPT ![c] = "done"]
  /\ socket' = socket \ {c}
  /\ UNCHANGED <<loop, notify, done, clients, reader, send, closed, shut>>

-----------------------------------------------------------------------------
(* Shutdown: done is closed before the mutex is taken; then the close frame *)
(* is written to every client from here, its connection closed and the map  *)
(* emptied.  Send stays open.                                               *)
ShutdownBegins ==
  /\ shut.at = "idle"
  /\ done' = TRUE /\ shut' = At("lock", None)
  /\ UNCHANGED <<loop, notify, clients, pumpVars, send, closed, socket>>

ShutdownLocks ==
  /\ shut.at = "lock"
  /\ shut' = At("locked", None)
  /\ UNCHANGED <<loop, notify, done, clients, pumpVars, send, closed, socket>>

ShutdownWrites(c) ==
  /\ shut.at = "locked" /\ c \in clients
  /\ shut' = At("write", c)
  /\ UNCHANGED <<loop, notify, done, clients, pumpVars, send, closed, socket>>

ShutdownCloses ==
  /\ shut.at = "write"
  /\ socket' = socket \ {shut.on} /\ clients' = clients \ {shut.on}
  /\ shut' = At("locked", None)
  /\ UNCHANGED <<loop, notify, done, pumpVars, send, closed>>

ShutdownReturns ==
  /\ shut.at = "locked" /\ clients = {}
  /\ shut' = At("finished", None)
  /\ UNCHANGED <<loop, notify, done, clients, pumpVars, send, closed, socket>>

Run == HandleRegister \/ HandleUnregister \/ RunNotify \/ HandleNotify \/ RunStops
ReadPump(c) == ReadEnds(c) \/ UnregisterGivesUp(c) \/ ReaderCloses(c)
WritePump(c) == WriterSelects(c) \/ WriteReturns(c) \/ WriterCloses(c)
Shutdown ==
  \/ ShutdownBegins \/ ShutdownLocks \/ ShutdownCloses \/ ShutdownReturns
  \/ \E c \in Conn : ShutdownWrites(c)

Hub ==
  \/ Run
  \/ \E c \in Conn : RunRegister(c) \/ RunUnregister(c) \/ ReadPump(c) \/ WritePump(c)

-----------------------------------------------------------------------------
(* The hub sends on, and closes, the channel of a client only while it is   *)
(* open: no client in the map has a closed channel.  A second close or a    *)
(* send after it would panic in Run and end the process.                    *)
ClientsOpen == clients \cap closed = {}

(* No entry of the map outlives the goroutine that would take it out: until *)
(* the hub is stopped, a client in the map has a read pump that has yet to  *)
(* unregister it, or Run is just about to take it out.  Its registration    *)
(* and its end may reach Run in any order with anybody's notifications.     *)
ClientsForgotten ==
  \A c \in clients : \/ done \/ reader[c] \in {"reading", "unregister"}
                     \/ loop = At("unregister", c)

(* A connection has one writer at a time, as the WebSocket library demands  *)
(* (it panics otherwise); Shutdown promises that browsers "close their      *)
(* sockets cleanly".                                                        *)
OneWriter == \A c \in Conn : ~(shut = At("write", c) /\ writer[c] \in {"write", "bye"})
=============================================================================
