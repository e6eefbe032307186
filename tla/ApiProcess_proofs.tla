------------------------- MODULE ApiProcess_proofs -------------------------
(***************************************************************************)
(* Theorems about the hub, the thumbnail jobs and the process they are in,  *)
(* for any number of connections, users, files, workers and requests.       *)
(***************************************************************************)
EXTENDS ApiProcess, TLAPS

(* A connection is registered once: before that it is neither in the map    *)
(* nor closed, and between Register and handleRegister not closed.          *)
RegisteredOnce ==
  /\ \A c \in Conn : reader[c] \in {"none", "register"} => c \notin clients \cup closed
  /\ loop.at = "register" =>
       loop.on \notin closed /\ reader[loop.on] \notin {"none", "register"}

HubInv == HubTypeOK /\ RegisteredOnce /\ ClientsOpen

(* What a worker has established about its job.                             *)
WorkersKnow ==
  \A w \in Worker :
    /\ worker[w].at = "render" => worker[w].job \in Image
    /\ worker[w].at \in {"notify", "delete"} /\ worker[w].job \in Image => worker[w].job \in thumbs

QueueInv == QueueTypeOK /\ WorkersKnow /\ JobsKeptUntilDone

Inv == HubInv /\ QueueInv /\ ApiTypeOK

-----------------------------------------------------------------------------
LEMMA LoopTyped ==
  ASSUME HubTypeOK
  PROVE  /\ loop.at \in {"register", "unregister"} => loop.on \in Conn
         /\ loop.at = "notify" => loop.on \in User
         /\ shut.at = "write" => shut.on \in Conn
BY DEF HubTypeOK

LEMMA Records ==
  /\ At("select", None) \in [at : {"select", "stopped"}, on : {None}]
  /\ At("stopped", None) \in [at : {"select", "stopped"}, on : {None}]
  /\ \A c \in Conn : At("register", c) \in [at : {"register", "unregister"}, on : Conn]
  /\ \A c \in Conn : At("unregister", c) \in [at : {"register", "unregister"}, on : Conn]
  /\ \A u \in User : At("notify", u) \in [at : {"notify"}, on : User]
  /\ \A s \in {"idle", "lock", "locked", "finished"} :
       At(s, None) \in [at : {"idle", "lock", "locked", "finished"}, on : {None}]
  /\ \A c \in Conn : At("write", c) \in [at : {"write"}, on : Conn]
  /\ \A s, x : At(s, x).at = s /\ At(s, x).on = x
BY DEF At

LEMMA NotifyTyped ==
  ASSUME HubTypeOK, NEW u \in User, NotifyUser(u)
  PROVE  notify' \in Seq(User) /\ Len(notify') <= NotifyDepth
<1>1. notify \in Seq(User) /\ Len(notify) \in Nat
  BY DEF HubTypeOK
<1>2. notify' = Append(notify, u) /\ Len(notify) < NotifyDepth
  BY DEF NotifyUser
<1>3. notify' \in Seq(User) /\ Len(notify') = Len(notify) + 1
  BY <1>1, <1>2
<1> QED
  BY <1>1, <1>2, <1>3, DepthAssumption

LEMMA SendStep ==
  ASSUME HubInv, NEW u \in User, NotifyUser(u),
         UNCHANGED <<loop, done, clients, pumpVars, send, closed, socket, shut>>
  PROVE  HubInv'
BY NotifyTyped DEF HubInv, HubTypeOK, RegisteredOnce, ClientsOpen, pumpVars

LEMMA LoopStep ==
  ASSUME HubInv, Run \/ \E c \in Conn : RunRegister(c) \/ RunUnregister(c)
  PROVE  HubInv'
<1> USE Records, LoopTyped, DepthAssumption
<1>1. ASSUME NEW c \in Conn, RunRegister(c) PROVE HubInv'
  <2>1. HubTypeOK'
    BY <1>1 DEF RunRegister, HubInv, HubTypeOK
  <2>2. RegisteredOnce' /\ ClientsOpen'
    BY <1>1 DEF RunRegister, HubInv, HubTypeOK, RegisteredOnce, ClientsOpen
  <2> QED
    BY <2>1, <2>2 DEF HubInv
<1>2. CASE HandleRegister
  <2>1. HubTypeOK'
    BY <1>2 DEF HandleRegister, HubInv, HubTypeOK, pumpVars
  <2>2. RegisteredOnce' /\ ClientsOpen'
    BY <1>2 DEF HandleRegister, HubInv, HubTypeOK, RegisteredOnce, ClientsOpen, pumpVars
  <2> QED
    BY <2>1, <2>2 DEF HubInv
<1>3. ASSUME NEW c \in Conn, RunUnregister(c) PROVE HubInv'
  <2>1. HubTypeOK'
    BY <1>3 DEF RunUnregister, HubInv, HubTypeOK
  <2>2. RegisteredOnce' /\ ClientsOpen'
    BY <1>3 DEF RunUnregister, HubInv, HubTypeOK, RegisteredOnce, ClientsOpen
  <2> QED
    BY <2>1, <2>2 DEF HubInv
<1>4. CASE HandleUnregister
  <2>1. HubTypeOK'
    BY <1>4 DEF HandleUnregister, HubInv, HubTypeOK, pumpVars
  <2>2. RegisteredOnce' /\ ClientsOpen'
    BY <1>4 DEF HandleUnregister, HubInv, HubTypeOK, RegisteredOnce, ClientsOpen, pumpVars
  <2> QED
    BY <2>1, <2>2 DEF HubInv
<1>5. CASE RunNotify
  <2>1. notify \in Seq(User) /\ notify # <<>> /\ Len(notify) <= NotifyDepth
    BY <1>5 DEF RunNotify, HubInv, HubTypeOK
  <2>2. Head(notify) \in User /\ Tail(notify) \in Seq(User) /\ Len(Tail(notify)) <= NotifyDepth
    BY <2>1
  <2>3. HubTypeOK'
    BY <1>5, <2>2 DEF RunNotify, HubInv, HubTypeOK, pumpVars
  <2>4. RegisteredOnce' /\ ClientsOpen'
    BY <1>5 DEF RunNotify, HubInv, RegisteredOnce, ClientsOpen, pumpVars
  <2> QED
    BY <2>3, <2>4 DEF HubInv
<1>6. CASE HandleNotify
  <2>1. send' \in [Conn -> 0 .. SendDepth]
    BY <1>6 DEF HandleNotify, HubInv, HubTypeOK
  <2>2. HubTypeOK'
    BY <1>6, <2>1 DEF HandleNotify, HubInv, HubTypeOK, pumpVars
  <2>3. RegisteredOnce' /\ ClientsOpen'
    BY <1>6 DEF HandleNotify, HubInv, RegisteredOnce, ClientsOpen, pumpVars
  <2> QED
    BY <2>2, <2>3 DEF HubInv
<1>7. CASE RunStops
  <2>1. HubTypeOK'
    BY <1>7 DEF RunStops, HubInv, HubTypeOK, pumpVars
  <2>2. RegisteredOnce' /\ ClientsOpen'
    BY <1>7 DEF RunStops, HubInv, RegisteredOnce, ClientsOpen, pumpVars
  <2> QED
    BY <2>1, <2>2 DEF HubInv
<1> QED
  BY <1>1, <1>2, <1>3, <1>4, <1>5, <1>6, <1>7 DEF Run

LEMMA PumpStep ==
  ASSUME HubInv, NEW c \in Conn, HandleWSConnection(c) \/ ReadPump(c) \/ WritePump(c)
  PROVE  HubInv'
<1> USE DepthAssumption
<1>1. CASE HandleWSConnection(c) \/ ReadPump(c)
  <2>1. HubTypeOK'
    BY <1>1 DEF HandleWSConnection, ReadPump, ReadEnds, UnregisterGivesUp, ReaderCloses,
       HubInv, HubTypeOK
  <2>2. RegisteredOnce' /\ ClientsOpen'
    BY <1>1 DEF HandleWSConnection, ReadPump, ReadEnds, UnregisterGivesUp, ReaderCloses,
       HubInv, HubTypeOK, RegisteredOnce, ClientsOpen
  <2> QED
    BY <2>1, <2>2 DEF HubInv
<1>2. CASE WritePump(c)
  <2>1. HubTypeOK'
    <3>1. send' \in [Conn -> 0 .. SendDepth]
      BY <1>2 DEF WritePump, WriterSelects, WriteReturns, WriterCloses, HubInv, HubTypeOK
    <3>2. writer' \in [Conn -> {"none", "select", "write", "bye", "close", "done"}]
      BY <1>2 DEF WritePump, WriterSelects, WriteReturns, WriterCloses, HubInv, HubTypeOK
    <3>3. socket' \subseteq Conn /\ UNCHANGED <<loop, notify, done, clients, reader, closed, shut>>
      BY <1>2 DEF WritePump, WriterSelects, WriteReturns, WriterCloses, HubInv, HubTypeOK
    <3> QED
      BY <3>1, <3>2, <3>3 DEF HubInv, HubTypeOK
  <2>2. RegisteredOnce' /\ ClientsOpen'
    BY <1>2 DEF WritePump, WriterSelects, WriteReturns, WriterCloses, HubInv,
       RegisteredOnce, ClientsOpen
  <2> QED
    BY <2>1, <2>2 DEF HubInv
<1> QED
  BY <1>1, <1>2

LEMMA ShutdownStep ==
  ASSUME HubInv, Shutdown
  PROVE  HubInv'
<1> USE Records
<1>1. CASE ShutdownBegins \/ ShutdownLocks \/ ShutdownReturns
  <2>1. shut' \in [at : {"idle", "lock", "locked", "finished"}, on : {None}]
    BY <1>1 DEF ShutdownBegins, ShutdownLocks, ShutdownReturns
  <2>2. done' \in BOOLEAN
    BY <1>1 DEF ShutdownBegins, ShutdownLocks, ShutdownReturns, HubInv, HubTypeOK
  <2>3. UNCHANGED <<loop, notify, clients, reader, writer, send, closed, socket>>
    BY <1>1 DEF ShutdownBegins, ShutdownLocks, ShutdownReturns, pumpVars
  <2> QED
    BY <2>1, <2>2, <2>3 DEF HubInv, HubTypeOK, RegisteredOnce, ClientsOpen
<1>2. CASE ShutdownCloses
  <2>1. /\ shut' \in [at : {"idle", "lock", "locked", "finished"}, on : {None}]
        /\ socket' \subseteq Conn /\ clients' \subseteq clients
        /\ UNCHANGED <<loop, notify, done, reader, writer, send, closed>>
    BY <1>2 DEF ShutdownCloses, HubInv, HubTypeOK, pumpVars
  <2> QED
    BY <2>1 DEF HubInv, HubTypeOK, RegisteredOnce, ClientsOpen
<1>3. ASSUME NEW c \in Conn, ShutdownWrites(c) PROVE HubInv'
  BY <1>3 DEF ShutdownWrites, HubInv, HubTypeOK, RegisteredOnce, ClientsOpen, pumpVars
<1> QED
  BY <1>1, <1>2, <1>3 DEF Shutdown

-----------------------------------------------------------------------------
LEMMA WorkerTyped ==
  ASSUME QueueTypeOK, NEW w \in Worker, worker[w].at \notin {"poll", "stopped"}
  PROVE  worker[w].job \in published
BY DEF QueueTypeOK

(* A step that moves one worker, and neither takes jobs nor thumbnails away.*)
WorkerMoves(w, at, j) ==
  /\ UNCHANGED <<made, rows, published, cancelled>>
  /\ worker' = [worker EXCEPT ![w] = Doing(at, j)]
  /\ \/ at \in {"poll", "stopped"} /\ j = NoFile
     \/ at \in {"fetch", "render", "notify", "delete"} /\ j \in published
  /\ queue' \subseteq queue /\ hidden' \subseteq queue'
  /\ thumbs \subseteq thumbs' /\ thumbs' \subseteq Image \ Broken
  /\ at = "render" => j \in Image
  /\ at \in {"notify", "delete"} /\ j \in Image => j \in thumbs'
  /\ \A f \in queue \ queue' : f \in Image => f \in thumbs'

LEMMA WorkerStep ==
  ASSUME QueueInv, NEW w \in Worker, NEW at, NEW j, WorkerMoves(w, at, j)
  PROVE  QueueInv'
<1>1. Doing(at, j) \in [at : {"poll", "stopped"}, job : {NoFile}]
        \cup [at : {"fetch", "render", "notify", "delete"}, job : published]
      /\ Doing(at, j).at = at /\ Doing(at, j).job = j
  BY DEF Doing, WorkerMoves
<1>2. QueueTypeOK'
  BY <1>1 DEF QueueInv, QueueTypeOK, WorkerMoves
<1>3. \A v \in Worker : worker'[v] = IF v = w THEN Doing(at, j) ELSE worker[v]
  BY DEF QueueInv, QueueTypeOK, WorkerMoves
<1>4. WorkersKnow'
  BY <1>1, <1>3 DEF QueueInv, WorkersKnow, WorkerMoves
<1>5. JobsKeptUntilDone'
  BY DEF QueueInv, JobsKeptUntilDone, WorkerMoves
<1> QED
  BY <1>2, <1>4, <1>5 DEF QueueInv

LEMMA MoveStep ==
  ASSUME QueueInv, NEW w \in Worker, NEW from \in {"fetch", "render", "notify", "delete"}, NEW to,
         Goes(w, from, to)
  PROVE  \E j \in published : j = worker[w].job /\ worker' = [worker EXCEPT ![w] = Doing(to, j)]
<1>1. worker[w].at = from /\ worker[w].job \in published
  BY WorkerTyped DEF Goes, QueueInv
<1>2. worker[w] \in [at : {"fetch", "render", "notify", "delete"}, job : published]
  BY <1>1 DEF QueueInv, QueueTypeOK
<1>3. [worker[w] EXCEPT !.at = to] = Doing(to, worker[w].job)
  BY <1>2 DEF Doing
<1>4. worker' = [worker EXCEPT ![w] = [worker[w] EXCEPT !.at = to]]
  BY DEF Goes, QueueInv, QueueTypeOK
<1> QED
  BY <1>1, <1>3, <1>4

LEMMA WorkStep ==
  ASSUME QueueInv, NEW w \in Worker, Work(w)
  PROVE  QueueInv'
<1> USE DEF WorkerMoves
<1>1. CASE WorkerStops(w)
  <2>1. WorkerMoves(w, "stopped", NoFile)
    BY <1>1 DEF WorkerStops, jobVars, QueueInv, QueueTypeOK
  <2> QED
    BY <2>1, WorkerStep
<1>2. ASSUME NEW f \in File, ReceiveMessage(w, f) PROVE QueueInv'
  <2>1. f \in queue /\ f \in published
    BY <1>2 DEF ReceiveMessage, QueueInv, QueueTypeOK
  <2>2. CASE worker' = [worker EXCEPT ![w] = Doing("fetch", f)]
    <3>1. WorkerMoves(w, "fetch", f)
      BY <1>2, <2>1, <2>2 DEF ReceiveMessage, QueueInv, QueueTypeOK
    <3> QED
      BY <3>1, WorkerStep
  <2>3. CASE UNCHANGED worker
    BY <1>2, <2>1, <2>3 DEF ReceiveMessage, QueueInv, QueueTypeOK, WorkersKnow, JobsKeptUntilDone
  <2> QED
    BY <1>2, <2>2, <2>3 DEF ReceiveMessage
<1>3. CASE Fetch(w)
  <2>1. PICK to : to = IF worker[w].job \in Image THEN "render" ELSE "delete"
    OBVIOUS
  <2>2. Goes(w, "fetch", to) /\ UNCHANGED <<made, rows, queue, hidden, published, thumbs, cancelled>>
    BY <1>3, <2>1 DEF Fetch, jobVars
  <2>3. PICK j \in published : j = worker[w].job /\ worker' = [worker EXCEPT ![w] = Doing(to, j)]
    BY <2>2, MoveStep
  <2>4. WorkerMoves(w, to, j)
    BY <2>1, <2>2, <2>3 DEF QueueInv, QueueTypeOK
  <2> QED
    BY <2>4, WorkerStep
<1>4. CASE Render(w)
  <2>1. PICK j \in published : j = worker[w].job /\ worker' = [worker EXCEPT ![w] = Doing("notify", j)]
    BY <1>4, MoveStep DEF Render
  <2>2. j \in Image \ Broken
    BY <1>4, <2>1 DEF Render, Goes, QueueInv, WorkersKnow
  <2>3. thumbs' = thumbs \cup {j} /\ thumbs \subseteq Image \ Broken
    BY <1>4, <2>1 DEF Render, QueueInv, QueueTypeOK
  <2>4. WorkerMoves(w, "notify", j)
    BY <1>4, <2>1, <2>2, <2>3 DEF Render, jobVars, QueueInv, QueueTypeOK
  <2> QED
    BY <2>4, WorkerStep
<1>5. CASE Fails(w)
  <2>1. WorkerMoves(w, "poll", NoFile)
    BY <1>5 DEF Fails, jobVars, QueueInv, QueueTypeOK
  <2> QED
    BY <2>1, WorkerStep
<1>6. CASE DeleteMessage(w)
  <2>1. worker[w].job \in Image => worker[w].job \in thumbs
    BY <1>6 DEF DeleteMessage, QueueInv, WorkersKnow
  <2>2. /\ queue' \subseteq queue /\ hidden' \subseteq queue'
        /\ \A f \in queue \ queue' : f = worker[w].job
        /\ UNCHANGED published
    BY <1>6 DEF DeleteMessage, jobVars, QueueInv, QueueTypeOK
  <2>3. WorkerMoves(w, "poll", NoFile)
    BY <1>6, <2>1, <2>2 DEF DeleteMessage, QueueInv, QueueTypeOK
  <2> QED
    BY <2>3, WorkerStep
<1> QED
  BY <1>1, <1>2, <1>3, <1>4, <1>5, <1>6 DEF Work

LEMMA PublishStep ==
  ASSUME QueueInv, NEW f \in made, PublishThumbnailJob(f),
         UNCHANGED <<made, rows, thumbs, worker, cancelled>>
  PROVE  QueueInv'
<1>1. QueueTypeOK'
  <2>1. published \subseteq published' /\ published' \subseteq made /\ queue' \subseteq published'
        /\ hidden' \subseteq queue'
    BY DEF PublishThumbnailJob, jobVars, QueueInv, QueueTypeOK
  <2> QED
    BY <2>1 DEF QueueInv, QueueTypeOK
<1>2. WorkersKnow' /\ JobsKeptUntilDone'
  BY DEF PublishThumbnailJob, jobVars, QueueInv, WorkersKnow, JobsKeptUntilDone
<1> QED
  BY <1>1, <1>2 DEF QueueInv

(* Files come and go, messages reappear, the context is cancelled.          *)
LEMMA OutsideStep ==
  ASSUME QueueInv, UNCHANGED <<queue, published, thumbs, worker>>,
         hidden' \subseteq hidden, rows' \subseteq made', made \subseteq made', made' \subseteq File,
         cancelled' \in BOOLEAN
  PROVE  QueueInv'
BY DEF QueueInv, QueueTypeOK, WorkersKnow, JobsKeptUntilDone

-----------------------------------------------------------------------------
LEMMA HandlerTyped ==
  ASSUME ApiTypeOK, NEW h \in Handler
  PROVE  /\ handler[h].at = "publish" => handler[h].file \in made /\ handler[h].user \in User
         /\ handler[h].at = "notify" => handler[h].user \in User
BY DEF ApiTypeOK, Idle

LEMMA InitInv ==
  ASSUME NEW redis \in BOOLEAN, ApiInit({}, {}, redis)
  PROVE  Inv
<1>1. HubInv
  <2>1. /\ loop = At("select", None) /\ shut = At("idle", None)
        /\ notify = <<>> /\ clients = {} /\ closed = {} /\ socket = {} /\ done = FALSE
        /\ reader = [c \in Conn |-> "none"] /\ writer = [c \in Conn |-> "none"]
        /\ send = [c \in Conn |-> 0]
    BY DEF ApiInit, HubInit
  <2>2. <<>> \in Seq(User) /\ Len(<<>>) <= NotifyDepth /\ 0 \in 0 .. SendDepth
    BY DepthAssumption
  <2>3. HubTypeOK
    BY <2>1, <2>2, Records DEF HubTypeOK
  <2>4. loop.at # "register"
    BY <2>1, Records
  <2>5. RegisteredOnce /\ ClientsOpen
    BY <2>1, <2>4 DEF RegisteredOnce, ClientsOpen
  <2> QED
    BY <2>3, <2>5 DEF HubInv
<1>2. QueueInv
  BY DEF ApiInit, QueueInit, QueueInv, QueueTypeOK, WorkersKnow, JobsKeptUntilDone, Doing
<1>3. ApiTypeOK
  BY <1>1, <1>2 DEF ApiInit, ApiTypeOK, HubInv, QueueInv
<1> QED
  BY <1>1, <1>2, <1>3 DEF Inv

LEMMA RequestStep ==
  ASSUME Inv, NEW h \in Handler, Request(h)
  PROVE  Inv'
<1> USE OwnerAssumption
<1>1. ASSUME NEW f \in File, CompleteUpload(h, f) PROVE Inv'
  <2>1. HubInv'
    BY <1>1 DEF CompleteUpload, hubVars, pumpVars, Inv, HubInv, HubTypeOK, RegisteredOnce, ClientsOpen
  <2>2. QueueInv'
    BY <1>1, OutsideStep DEF CompleteUpload, jobVars, Inv, QueueInv, QueueTypeOK
  <2>3. ApiTypeOK'
    BY <1>1, <2>1, <2>2 DEF CompleteUpload, Inv, HubInv, QueueInv, ApiTypeOK
  <2> QED
    BY <2>1, <2>2, <2>3 DEF Inv
<1>2. CASE PublishJob(h)
  <2>1. HubInv'
    BY <1>2 DEF PublishJob, hubVars, pumpVars, Inv, HubInv, HubTypeOK, RegisteredOnce, ClientsOpen
  <2>2. QueueInv'
    <3>1. handler[h].file \in made
      BY <1>2, HandlerTyped DEF PublishJob, Inv
    <3>2. CASE UNCHANGED jobVars
      BY <1>2, <3>2, OutsideStep DEF PublishJob, jobVars, Inv, QueueInv, QueueTypeOK
    <3>3. CASE PublishThumbnailJob(handler[h].file)
      <4>1. PICK f \in made : f = handler[h].file
        BY <3>1
      <4> QED
        BY <1>2, <3>3, <4>1, PublishStep DEF PublishJob, Inv
    <3> QED
      BY <1>2, <3>2, <3>3 DEF PublishJob
  <2>3. ApiTypeOK'
    BY <1>2, <2>1, <2>2, HandlerTyped DEF PublishJob, Inv, HubInv, QueueInv, ApiTypeOK
  <2> QED
    BY <2>1, <2>2, <2>3 DEF Inv
<1>3. ASSUME NEW u \in User, Share(h, u) PROVE Inv'
  <2>1. HubInv'
    BY <1>3 DEF Share, hubVars, pumpVars, Inv, HubInv, HubTypeOK, RegisteredOnce, ClientsOpen
  <2>2. QueueInv'
    BY <1>3, OutsideStep DEF Share, queueVars, jobVars, Inv, QueueInv, QueueTypeOK
  <2>3. ApiTypeOK'
    BY <1>3, <2>1, <2>2 DEF Share, queueVars, Inv, HubInv, QueueInv, ApiTypeOK
  <2> QED
    BY <2>1, <2>2, <2>3 DEF Inv
<1>4. CASE HandlerNotifies(h)
  <2>1. handler[h].user \in User
    BY <1>4, HandlerTyped DEF HandlerNotifies, Inv
  <2>2. HubInv'
    <3>1. PICK u \in User : u = handler[h].user
      BY <2>1
    <3> QED
      BY <1>4, <3>1, SendStep DEF HandlerNotifies, Inv
  <2>3. QueueInv'
    BY <1>4, OutsideStep DEF HandlerNotifies, queueVars, jobVars, Inv, QueueInv, QueueTypeOK
  <2>4. ApiTypeOK'
    BY <1>4, <2>2, <2>3 DEF HandlerNotifies, queueVars, Inv, HubInv, QueueInv, ApiTypeOK
  <2> QED
    BY <2>2, <2>3, <2>4 DEF Inv
<1> QED
  BY <1>1, <1>2, <1>3, <1>4 DEF Request

LEMMA BackgroundStep ==
  ASSUME Inv, NEW w \in Worker, Background(w)
  PROVE  Inv'
<1>1. CASE WorkerNotifies(w)
  <2>1. PICK j \in published : j = worker[w].job /\ worker' = [worker EXCEPT ![w] = Doing("delete", j)]
    BY <1>1, MoveStep DEF WorkerNotifies, Inv
  <2>2. HubInv'
    <3>1. PICK u \in User : u = Owner[worker[w].job]
      BY <2>1, OwnerAssumption DEF Inv, QueueInv, QueueTypeOK
    <3> QED
      BY <1>1, <3>1, SendStep DEF WorkerNotifies, Inv
  <2>3. QueueInv'
    <3>1. j \in Image => j \in thumbs
      BY <1>1, <2>1 DEF WorkerNotifies, Goes, Inv, QueueInv, WorkersKnow
    <3>2. WorkerMoves(w, "delete", j)
      BY <1>1, <2>1, <3>1 DEF WorkerMoves, WorkerNotifies, jobVars, Inv, QueueInv, QueueTypeOK
    <3> QED
      BY <3>2, WorkerStep DEF Inv
  <2>4. ApiTypeOK'
    BY <1>1, <2>2, <2>3 DEF WorkerNotifies, Inv, HubInv, QueueInv, ApiTypeOK
  <2> QED
    BY <2>2, <2>3, <2>4 DEF Inv
<1>2. CASE Work(w) /\ UNCHANGED <<hubVars, main, handler, subscriber>>
  <2>1. HubInv'
    BY <1>2 DEF hubVars, pumpVars, Inv, HubInv, HubTypeOK, RegisteredOnce, ClientsOpen
  <2>2. QueueInv'
    BY <1>2, WorkStep DEF Inv
  <2>3. made' = made
    BY <1>2 DEF Work, WorkerStops, ReceiveMessage, Fetch, Render, Fails, DeleteMessage
  <2>4. ApiTypeOK'
    BY <1>2, <2>1, <2>2, <2>3 DEF Inv, HubInv, QueueInv, ApiTypeOK
  <2> QED
    BY <2>1, <2>2, <2>4 DEF Inv
<1> QED
  BY <1>1, <1>2 DEF Background

LEMMA BackplaneStep ==
  ASSUME Inv, Backplane
  PROVE  Inv'
<1>1. QueueInv' /\ UNCHANGED <<made, handler, main>>
  BY OutsideStep DEF Backplane, Dispatch, SubscriberStops, Receive, queueVars, jobVars,
     Inv, QueueInv, QueueTypeOK
<1>2. HubInv'
  <2>1. CASE Dispatch
    <3>1. PICK u \in User : u = subscriber
      BY <2>1 DEF Dispatch
    <3> QED
      BY <2>1, <3>1, SendStep DEF Dispatch, Inv
  <2>2. CASE UNCHANGED hubVars
    BY <2>2 DEF hubVars, pumpVars, Inv, HubInv, HubTypeOK, RegisteredOnce, ClientsOpen
  <2> QED
    BY <2>1, <2>2 DEF Backplane, SubscriberStops, Receive
<1>3. subscriber' \in {"off", "receive", "stopped"} \cup User
  BY DEF Backplane, Dispatch, SubscriberStops, Receive
<1>4. ApiTypeOK'
  BY <1>1, <1>2, <1>3 DEF Inv, HubInv, QueueInv, ApiTypeOK
<1> QED
  BY <1>1, <1>2, <1>4 DEF Inv

LEMMA MainStep ==
  ASSUME Inv, Main \/ ConcurrentWrite
  PROVE  Inv'
<1>1. CASE StopHub
  <2>1. HubInv'
    BY <1>1, ShutdownStep DEF StopHub, Inv
  <2>2. QueueInv'
    BY <1>1, OutsideStep DEF StopHub, queueVars, jobVars, Inv, QueueInv, QueueTypeOK
  <2>3. ApiTypeOK'
    BY <1>1, <2>1, <2>2 DEF StopHub, queueVars, Inv, HubInv, QueueInv, ApiTypeOK
  <2> QED
    BY <2>1, <2>2, <2>3 DEF Inv
<1>2. CASE Sigterm \/ CancelWorkers \/ WorkersStopped \/ HubStopped \/ Drain \/ ConcurrentWrite
  <2>1. HubInv'
    BY <1>2 DEF Sigterm, CancelWorkers, WorkersStopped, HubStopped, Drain, ConcurrentWrite,
       hubVars, pumpVars, Inv, HubInv, HubTypeOK, RegisteredOnce, ClientsOpen
  <2>2. QueueInv'
    BY <1>2, OutsideStep DEF Sigterm, CancelWorkers, WorkersStopped, HubStopped, Drain,
       ConcurrentWrite, queueVars, jobVars, Inv, QueueInv, QueueTypeOK
  <2>3. main' \in {"serving", "workers", "hub", "drain", "exited"}
    BY <1>2 DEF Sigterm, CancelWorkers, WorkersStopped, HubStopped, Drain, ConcurrentWrite,
       After, Inv, ApiTypeOK
  <2>4. UNCHANGED <<made, handler, subscriber>>
    BY <1>2 DEF Sigterm, CancelWorkers, WorkersStopped, HubStopped, Drain, ConcurrentWrite,
       queueVars
  <2>5. ApiTypeOK'
    BY <2>1, <2>2, <2>3, <2>4 DEF Inv, HubInv, QueueInv, ApiTypeOK
  <2> QED
    BY <2>1, <2>2, <2>5 DEF Inv
<1> QED
  BY <1>1, <1>2 DEF Main

LEMMA AroundStep ==
  ASSUME Inv, HubAlone \/ Outside
  PROVE  Inv'
<1>1. ASSUME HubInv', QueueInv', UNCHANGED <<made, main, handler, subscriber>> PROVE Inv'
  <2>1. ApiTypeOK'
    BY <1>1 DEF Inv, HubInv, QueueInv, ApiTypeOK
  <2> QED
    BY <1>1, <2>1 DEF Inv
<1>2. ASSUME UNCHANGED <<queueVars, main, handler, subscriber>>, HubInv' PROVE Inv'
  <2>1. QueueInv' /\ UNCHANGED made
    BY <1>2, OutsideStep DEF queueVars, jobVars, Inv, QueueInv, QueueTypeOK
  <2> QED
    BY <1>1, <1>2, <2>1
<1>3. CASE HubAlone
  <2>1. HubInv'
    BY <1>3, LoopStep, PumpStep DEF HubAlone, Hub, Inv
  <2> QED
    BY <1>2, <1>3, <2>1 DEF HubAlone
<1>4. ASSUME NEW c \in Conn, HandleWSConnection(c), UNCHANGED <<queueVars, main, handler, subscriber>>
      PROVE  Inv'
  BY <1>2, <1>4, PumpStep DEF Inv
<1>5. ASSUME NEW f \in File, VisibilityTimeout(f) \/ DeleteFile(f),
             UNCHANGED <<hubVars, main, handler, subscriber>>
      PROVE  Inv'
  <2>1. HubInv'
    BY <1>5 DEF hubVars, pumpVars, Inv, HubInv, HubTypeOK, RegisteredOnce, ClientsOpen
  <2>2. QueueInv' /\ UNCHANGED made
    BY <1>5, OutsideStep DEF VisibilityTimeout, DeleteFile, jobVars, Inv, QueueInv, QueueTypeOK
  <2> QED
    BY <1>1, <1>5, <2>1, <2>2
<1> QED
  BY <1>3, <1>4, <1>5 DEF Outside

LEMMA NextInv == Inv /\ [ApiNext]_apiVars => Inv'
<1> SUFFICES ASSUME Inv, [ApiNext]_apiVars PROVE Inv'
  OBVIOUS
<1>1. CASE ApiNext
  BY <1>1, RequestStep, BackgroundStep, BackplaneStep, MainStep, AroundStep DEF ApiNext
<1>2. CASE UNCHANGED apiVars
  BY <1>2 DEF apiVars, hubVars, pumpVars, queueVars, jobVars, Inv, HubInv, QueueInv, ApiTypeOK,
     HubTypeOK, QueueTypeOK, RegisteredOnce, ClientsOpen, WorkersKnow, JobsKeptUntilDone
<1> QED
  BY <1>1, <1>2

LEMMA Invariance == ApiSpec => []Inv
<1>1. (\E redis \in BOOLEAN : ApiInit({}, {}, redis)) => Inv
  BY InitInv
<1> QED
  BY <1>1, NextInv, PTL DEF ApiSpec

(* Every variable of the process keeps its type; queues and buffers stay    *)
(* within their capacity.                                                   *)
THEOREM ApiTypeCorrect == ApiSpec => []ApiTypeOK
<1>1. Inv => ApiTypeOK
  BY DEF Inv
<1> QED
  BY <1>1, Invariance, PTL

(* Run never sends on, or closes again, a channel that is closed.           *)
THEOREM ClientsOpenCorrect == ApiSpec => []ClientsOpen
<1>1. Inv => ClientsOpen
  BY DEF Inv, HubInv
<1> QED
  BY <1>1, Invariance, PTL

(* A thumbnail job leaves the queue only when its thumbnail is stored.      *)
THEOREM JobsKeptCorrect == ApiSpec => []JobsKeptUntilDone
<1>1. Inv => JobsKeptUntilDone
  BY DEF Inv, QueueInv
<1> QED
  BY <1>1, Invariance, PTL

-----------------------------------------------------------------------------
(* The hub forgets: a client between Register and handleRegister has its    *)
(* read pump still to unregister it, too.                                   *)
PumpPending(c) == done \/ reader[c] \in {"reading", "unregister"}

Forgetting ==
  /\ \A c \in clients : PumpPending(c) \/ loop = At("unregister", c)
  /\ loop.at = "register" => PumpPending(loop.on)

LEMMA ForgettingLoop ==
  ASSUME HubTypeOK, Forgetting, Run \/ \E c \in Conn : RunRegister(c) \/ RunUnregister(c)
  PROVE  Forgetting'
<1> USE Records
<1>1. ASSUME NEW c \in Conn, RunRegister(c) PROVE Forgetting'
  BY <1>1 DEF RunRegister, HubTypeOK, Forgetting, PumpPending
<1>2. CASE HandleRegister
  BY <1>2 DEF HandleRegister, Forgetting, PumpPending, pumpVars
<1>3. ASSUME NEW c \in Conn, RunUnregister(c) PROVE Forgetting'
  BY <1>3 DEF RunUnregister, HubTypeOK, Forgetting, PumpPending
<1>4. CASE HandleUnregister
  BY <1>4 DEF HandleUnregister, Forgetting, PumpPending, pumpVars
<1>5. CASE RunNotify \/ HandleNotify \/ RunStops
  BY <1>5 DEF RunNotify, HandleNotify, RunStops, Forgetting, PumpPending, pumpVars
<1> QED
  BY <1>1, <1>2, <1>3, <1>4, <1>5 DEF Run

LEMMA ForgettingAround ==
  ASSUME HubTypeOK, Forgetting,
         \/ Shutdown
         \/ \E c \in Conn : HandleWSConnection(c) \/ ReadPump(c) \/ WritePump(c)
  PROVE  Forgetting'
<1>1. ASSUME NEW c \in Conn, HandleWSConnection(c) PROVE Forgetting'
  BY <1>1 DEF HandleWSConnection, HubTypeOK, Forgetting, PumpPending
<1>2. ASSUME NEW c \in Conn, ReadPump(c) PROVE Forgetting'
  <2>1. loop.at = "register" => loop.on \in Conn
    BY LoopTyped
  <2>2. CASE ReadEnds(c)
    BY <2>1, <2>2 DEF ReadEnds, HubTypeOK, Forgetting, PumpPending
  <2>3. CASE UnregisterGivesUp(c)
    BY <2>1, <2>3 DEF UnregisterGivesUp, HubTypeOK, Forgetting, PumpPending
  <2>4. CASE ReaderCloses(c)
    BY <2>1, <2>4 DEF ReaderCloses, HubTypeOK, Forgetting, PumpPending
  <2> QED
    BY <1>2, <2>2, <2>3, <2>4 DEF ReadPump
<1>3. ASSUME NEW c \in Conn, WritePump(c) PROVE Forgetting'
  BY <1>3 DEF WritePump, WriterSelects, WriteReturns, WriterCloses, Forgetting, PumpPending
<1>4. CASE Shutdown
  BY <1>4 DEF Shutdown, ShutdownBegins, ShutdownLocks, ShutdownWrites, ShutdownCloses,
     ShutdownReturns, Forgetting, PumpPending, pumpVars
<1> QED
  BY <1>1, <1>2, <1>3, <1>4

LEMMA NextForgetting ==
  ASSUME HubTypeOK, Forgetting, [ApiNext]_apiVars
  PROVE  Forgetting'
<1>1. CASE UNCHANGED <<loop, done, clients, reader>>
  BY <1>1 DEF Forgetting, PumpPending
<1>2. ASSUME NEW h \in Handler, Request(h) PROVE UNCHANGED <<loop, done, clients, reader>>
  BY <1>2 DEF Request, CompleteUpload, Share, PublishJob, HandlerNotifies, hubVars, pumpVars
<1>3. ASSUME NEW w \in Worker, Background(w) PROVE UNCHANGED <<loop, done, clients, reader>>
  BY <1>3 DEF Background, WorkerNotifies, hubVars, pumpVars
<1>4. CASE Backplane \/ Sigterm \/ CancelWorkers \/ WorkersStopped \/ HubStopped \/ Drain
           \/ ConcurrentWrite \/ UNCHANGED apiVars
  <2>1. UNCHANGED <<loop, done, clients, reader>>
    BY <1>4 DEF Backplane, Receive, Dispatch, SubscriberStops, Sigterm, CancelWorkers,
       WorkersStopped, HubStopped, Drain, ConcurrentWrite, apiVars, hubVars, pumpVars
  <2> QED
    BY <1>1, <2>1
<1>5. CASE StopHub \/ HubAlone
  BY <1>5, ForgettingLoop, ForgettingAround DEF StopHub, HubAlone, Hub
<1>6. CASE Outside
  <2>1. \/ \E c \in Conn : HandleWSConnection(c)
        \/ UNCHANGED <<loop, done, clients, reader>>
    BY <1>6 DEF Outside, hubVars, pumpVars
  <2> QED
    BY <1>1, <2>1, ForgettingAround
<1> QED
  BY <1>1, <1>2, <1>3, <1>4, <1>5, <1>6 DEF ApiNext, Main

(* Until it is stopped the hub keeps no client whose handler is gone.       *)
THEOREM ClientsForgottenCorrect == ApiSpec => []ClientsForgotten
<1>1. (\E redis \in BOOLEAN : ApiInit({}, {}, redis)) => Forgetting
  BY Records DEF ApiInit, HubInit, Forgetting
<1>2. Inv => HubTypeOK
  BY DEF Inv, HubInv
<1>3. HubTypeOK /\ Forgetting /\ [ApiNext]_apiVars => Forgetting'
  BY NextForgetting
<1>4. Forgetting => ClientsForgotten
  BY DEF Forgetting, PumpPending, ClientsForgotten
<1> QED
  BY <1>1, <1>2, <1>3, <1>4, Invariance, PTL DEF ApiSpec
=============================================================================
