----------------------------- MODULE ApiProcess -----------------------------
(***************************************************************************)
(* cmd/api/main.go: the HTTP handlers, the workers and the backplane's      *)
(* subscriber all notify through the hub, and SIGTERM stops them one after  *)
(* the other.                                                               *)
(***************************************************************************)
EXTENDS NotificationHub, ThumbnailQueue

CONSTANTS
  Owner,         \* the user a file belongs to
  Handler,       \* concurrent HTTP requests
  UseSQS         \* SQS_QUEUE_URL is set: workers run and are waited for

ASSUME OwnerAssumption == Owner \in [File -> User]
ASSUME ConfigAssumption == UseSQS \in BOOLEAN

VARIABLES
  main,          \* what main is at
  handler,       \* HTTP requests: HandleCompleteUpload, HandleShare
  subscriber     \* RedisBackplane.Run: what it dispatches

apiVars == <<hubVars, queueVars, main, handler, subscriber>>

Idle == [at |-> "idle", file |-> NoFile, user |-> None]

ApiTypeOK ==
  /\ HubTypeOK /\ QueueTypeOK
  /\ main \in {"serving", "workers", "hub", "drain", "exited"}
  /\ handler \in [Handler ->
       {Idle} \cup [at : {"publish"}, file : made, user : User]
              \cup [at : {"notify"}, file : {NoFile}, user : User]]
  /\ subscriber \in {"off", "receive", "stopped"} \cup User

(* redis: REDIS_URL is set, and the backplane's subscriber runs.             *)
ApiInit(ended, old, redis) ==
  /\ HubInit(ended) /\ QueueInit(old)
  /\ main = "serving"
  /\ handler = [h \in Handler |-> Idle]
  /\ subscriber = IF redis THEN "receive" ELSE "off"

-----------------------------------------------------------------------------
(* UploadService.Complete after its commit: the job, then the notification. *)
CompleteUpload(h, f) ==
  /\ main # "drain" /\ handler[h] = Idle /\ f \notin made
  /\ made' = made \cup {f} /\ rows' = rows \cup {f}
  /\ handler' = [handler EXCEPT ![h] = [at |-> "publish", file |-> f, user |-> Owner[f]]]
  /\ UNCHANGED <<hubVars, jobVars, thumbs, worker, cancelled, main, subscriber>>

PublishJob(h) ==
  /\ handler[h].at = "publish"
  /\ IF UseSQS THEN PublishThumbnailJob(handler[h].file) ELSE UNCHANGED jobVars
  /\ handler' = [handler EXCEPT ![h] = [at |-> "notify", file |-> NoFile, user |-> @.user]]
  /\ UNCHANGED <<hubVars, made, rows, thumbs, worker, cancelled, main, subscriber>>

(* HandleShare, once the grant is stored.                                   *)
Share(h, u) ==
  /\ main # "drain" /\ handler[h] = Idle
  /\ handler' = [handler EXCEPT ![h] = [at |-> "notify", file |-> NoFile, user |-> u]]
  /\ UNCHANGED <<hubVars, queueVars, main, subscriber>>

HandlerNotifies(h) ==
  /\ handler[h].at = "notify"
  /\ NotifyUser(handler[h].user)
  /\ handler' = [handler EXCEPT ![h] = Idle]
  /\ UNCHANGED <<loop, done, clients, pumpVars, send, closed, socket, shut,
                 queueVars, main, subscriber>>

(* ProcessMessage's last step.                                              *)
WorkerNotifies(w) ==
  /\ Goes(w, "notify", "delete")
  /\ NotifyUser(Owner[worker[w].job])
  /\ UNCHANGED <<loop, done, clients, pumpVars, send, closed, socket, shut,
                 made, rows, jobVars, thumbs, cancelled, main, handler, subscriber>>

(* RedisBackplane.Run: any node may have published, this one too.           *)
Receive(u) ==
  /\ subscriber = "receive"
  /\ subscriber' = u
  /\ UNCHANGED <<hubVars, queueVars, main, handler>>

Dispatch ==
  /\ subscriber \in User
  /\ NotifyUser(subscriber)
  /\ subscriber' = "receive"
  /\ UNCHANGED <<loop, done, clients, pumpVars, send, closed, socket, shut,
                 queueVars, main, handler>>

SubscriberStops ==
  /\ subscriber = "receive" /\ cancelled
  /\ subscriber' = "stopped"
  /\ UNCHANGED <<hubVars, queueVars, main, handler>>

-----------------------------------------------------------------------------
(* Wrong Next: the hub is shut down before the workers.                     *)
HubFirst(m) ==
  CASE m = "serving" -> "hub" [] m = "hub" -> "workers"
    [] m = "workers" -> "drain" [] m = "drain" -> "exited"

(* The order in which main stops the parts.                                 *)
After(m) ==
  CASE m = "serving" -> "workers" [] m = "workers" -> "hub"
    [] m = "hub" -> "drain" [] m = "drain" -> "exited"

(* SIGTERM or an interrupt; the context is cancelled on the way to Wait.    *)
Sigterm ==
  /\ main = "serving"
  /\ main' = After(main)
  /\ UNCHANGED <<hubVars, queueVars, handler, subscriber>>

CancelWorkers ==
  /\ main = "workers" /\ UseSQS /\ ~cancelled
  /\ cancelled' = TRUE
  /\ UNCHANGED <<hubVars, made, rows, jobVars, thumbs, worker, main, handler, subscriber>>

(* workerWg.Wait: the workers and the subscriber.                           *)
WorkersStopped ==
  /\ main = "workers"
  /\ UseSQS => /\ cancelled /\ \A w \in Worker : worker[w].at = "stopped"
               /\ subscriber \in {"off", "stopped"}
  /\ main' = After(main)
  /\ UNCHANGED <<hubVars, queueVars, handler, subscriber>>

StopHub ==
  /\ main = "hub" /\ Shutdown
  /\ UNCHANGED <<queueVars, main, handler, subscriber>>

HubStopped ==
  /\ main = "hub" /\ shut.at = "finished"
  /\ main' = After(main)
  /\ UNCHANGED <<hubVars, queueVars, handler, subscriber>>

(* httpServer.Shutdown waits for the requests, for ten seconds at most.     *)
Drain ==
  /\ main = "drain"
  /\ main' = After(main)
  /\ UNCHANGED <<hubVars, queueVars, handler, subscriber>>

(* The WebSocket library panics when it meets two writers.                  *)
ConcurrentWrite ==
  /\ ~OneWriter
  /\ main' = "exited"
  /\ UNCHANGED <<hubVars, queueVars, handler, subscriber>>

-----------------------------------------------------------------------------
Request(h) ==
  \/ \E f \in File : CompleteUpload(h, f)
  \/ \E u \in User : Share(h, u)
  \/ PublishJob(h)
  \/ HandlerNotifies(h)

Background(w) == UseSQS /\ (WorkerNotifies(w) \/ (Work(w) /\ UNCHANGED <<hubVars, main, handler, subscriber>>))

Backplane == Dispatch \/ SubscriberStops \/ \E u \in User : Receive(u)

Main == Sigterm \/ CancelWorkers \/ WorkersStopped \/ StopHub \/ HubStopped \/ Drain

HubAlone == Hub /\ UNCHANGED <<queueVars, main, handler, subscriber>>

Outside ==
  \/ /\ main # "drain"
     /\ \E c \in Conn : HandleWSConnection(c)
     /\ UNCHANGED <<queueVars, main, handler, subscriber>>
  \/ /\ \E f \in File : VisibilityTimeout(f) \/ DeleteFile(f)
     /\ UNCHANGED <<hubVars, main, handler, subscriber>>

ApiNext ==
  /\ main # "exited"
  /\ \/ \E h \in Handler : Request(h)
     \/ \E w \in Worker : Background(w)
     \/ Backplane \/ Main \/ HubAlone \/ Outside \/ ConcurrentWrite

ApiSpec == (\E redis \in BOOLEAN : ApiInit({}, {}, redis)) /\ [][ApiNext]_apiVars

-----------------------------------------------------------------------------
(* Fairness.  Goroutines run; select picks each ready case again and again; *)
(* senders that wait on a channel are served in turn; a write to a socket   *)
(* ends, by its deadline at the latest; calls to the database, the storage  *)
(* and SQS do not fail for ever, and SQS does not hold a message back for   *)
(* ever.  Nobody has to connect, to upload or to send a signal.             *)
Fairly(A) == main # "exited" /\ A
HubDoes(A) == Fairly(A /\ UNCHANGED <<queueVars, main, handler, subscriber>>)
QueueDoes(A) == Fairly(UseSQS /\ A /\ UNCHANGED <<hubVars, main, handler, subscriber>>)

ForWorkers(A(_)) == QueueDoes(\E w \in Worker : A(w))

RunFair ==
  /\ WF_apiVars(HubDoes(HandleRegister \/ HandleUnregister \/ HandleNotify))
  /\ WF_apiVars(HubDoes(RunNotify))
  /\ \A c \in Conn : SF_apiVars(HubDoes(RunRegister(c) \/ RunUnregister(c)))

PumpsFair ==
  \A c \in Conn :
    /\ WF_apiVars(HubDoes(UnregisterGivesUp(c) \/ ReaderCloses(c)))
    /\ WF_apiVars(HubDoes(c \notin socket /\ ReadEnds(c)))
    /\ WF_apiVars(HubDoes(WritePump(c)))

SendersFair ==
  /\ \A h \in Handler : WF_apiVars(Fairly(PublishJob(h) \/ HandlerNotifies(h)))
  /\ \A w \in Worker : SF_apiVars(Fairly(UseSQS /\ WorkerNotifies(w)))
  /\ SF_apiVars(Fairly(Dispatch)) /\ SF_apiVars(Fairly(SubscriberStops))

WorkersFair ==
  /\ \A w \in Worker : WF_apiVars(QueueDoes(Work(w)))
  /\ \A f \in Image \ Broken :
       LET Gets(w) == ReceiveMessage(w, f) /\ worker' # worker
           Fetches(w) == worker[w].job = f /\ Fetch(w)
           Renders(w) == worker[w].job = f /\ Render(w)
       IN  /\ SF_apiVars(ForWorkers(Gets)) /\ SF_apiVars(ForWorkers(Fetches))
           /\ SF_apiVars(ForWorkers(Renders)) /\ WF_apiVars(QueueDoes(VisibilityTimeout(f)))

MainFair ==
  WF_apiVars(Fairly(CancelWorkers \/ WorkersStopped \/ StopHub \/ HubStopped \/ Drain))

Fair == RunFair /\ PumpsFair /\ SendersFair /\ WorkersFair /\ MainFair

FairApiSpec == ApiSpec /\ Fair

-----------------------------------------------------------------------------
Over == main = "exited"

(* Register and Unregister return, whatever clients are slow or gone.  Once *)
(* the hub was told to stop this is promised of Unregister only: nobody     *)
(* receives from the other channels any more.                               *)
CallsReturn ==
  \A c \in Conn : /\ reader[c] = "register" ~> reader[c] # "register" \/ done \/ Over
                 /\ reader[c] = "unregister" ~> reader[c] # "unregister" \/ Over

(* When one side of a connection has closed it, both its pumps return and   *)
(* the hub forgets it: no goroutine is left behind, and no map entry but    *)
(* that of a hub that has been stopped.                                     *)
ConnectionsEnd ==
  \A c \in Conn : c \notin socket /\ writer[c] # "none" ~>
    Over \/ (reader[c] = "done" /\ writer[c] = "done" /\ (c \in clients => done))

(* The job of an image gets its thumbnail made, past failing calls, lost    *)
(* answers, timeouts and jobs that can never be done, unless the file is    *)
(* deleted or the workers are told to stop.                                 *)
ThumbnailsArrive ==
  \A f \in Image \ Broken : f \in queue ~> f \in thumbs \/ f \notin rows \/ cancelled \/ Over

(* SIGTERM ends the process, whoever waits for whom: workers and subscriber *)
(* may wait for the hub, main waits for them.                               *)
ShutdownEnds == main # "serving" ~> Over
=============================================================================
