--------------------------- MODULE ThumbnailQueue ---------------------------
(***************************************************************************)
(* Thumbnail jobs: the SQS queue, the worker pool of queue/worker.go and    *)
(* the processor of queue/processor.go.                                     *)
(*                                                                          *)
(* A job is the file it is for.  A message that was received is hidden      *)
(* until the visibility timeout, and gone only when it is deleted.  A call  *)
(* may fail; with a cancelled context those to the database and to SQS do.  *)
(* ReceiveMessage without a message and the back-off after an error change  *)
(* nothing that is modelled.                                                *)
(***************************************************************************)
EXTENDS FiniteSets

CONSTANTS
  File,          \* bound: files ever uploaded
  Image,         \* those whose name isSupportedImage accepts
  Broken,        \* images that cannot be decoded
  Worker,
  NoFile

ASSUME FilesAssumption == Image \subseteq File /\ Broken \subseteq Image /\ NoFile \notin File

VARIABLES
  made,          \* files a Complete has created
  rows,          \* those that have not been deleted since
  queue,         \* jobs in the SQS queue
  hidden,        \* those inside their visibility timeout
  published,     \* history: jobs ever sent
  thumbs,        \* objects thumbnails/<file>.png
  worker,        \* where a worker is, with which job
  cancelled      \* workerCtx is done

jobVars == <<queue, hidden, published>>
queueVars == <<made, rows, jobVars, thumbs, worker, cancelled>>

Doing(where, f) == [at |-> where, job |-> f]

QueueTypeOK ==
  /\ rows \subseteq made /\ made \subseteq File
  /\ hidden \subseteq queue /\ queue \subseteq published /\ published \subseteq made
  /\ thumbs \subseteq Image \ Broken
  /\ worker \in [Worker ->
       [at : {"poll", "stopped"}, job : {NoFile}]
         \cup [at : {"fetch", "render", "notify", "delete"}, job : published]]
  /\ cancelled \in BOOLEAN

(* Files in old were deleted before, and their jobs never sent.             *)
QueueInit(old) ==
  /\ made = old /\ rows = {} /\ queue = {} /\ hidden = {} /\ published = {} /\ thumbs = {}
  /\ worker = [w \in Worker |-> Doing("poll", NoFile)]
  /\ cancelled = FALSE

-----------------------------------------------------------------------------
(* PublishThumbnailJob, with the outcomes of SendMessage.                   *)
PublishThumbnailJob(f) ==
  \/ queue' = queue \cup {f} /\ published' = published \cup {f} /\ UNCHANGED hidden
  \/ UNCHANGED jobVars

(* SQS: nobody deleted the message in time.                                 *)
VisibilityTimeout(f) ==
  /\ f \in hidden
  /\ hidden' = hidden \ {f}
  /\ UNCHANGED <<made, rows, queue, published, thumbs, worker, cancelled>>

DeleteFile(f) ==
  /\ f \in rows
  /\ rows' = rows \ {f}
  /\ UNCHANGED <<made, jobVars, thumbs, worker, cancelled>>

-----------------------------------------------------------------------------
(* run: the context is checked before every poll, and ends one.             *)
WorkerStops(w) ==
  /\ worker[w].at = "poll" /\ cancelled
  /\ worker' = [worker EXCEPT ![w] = Doing("stopped", NoFile)]
  /\ UNCHANGED <<made, rows, jobVars, thumbs, cancelled>>

(* pollOnce; the answer may get lost.                                       *)
ReceiveMessage(w, f) ==
  /\ worker[w].at = "poll" /\ ~cancelled
  /\ f \in queue \ hidden
  /\ hidden' = hidden \cup {f}
  /\ \/ worker' = [worker EXCEPT ![w] = Doing("fetch", f)]
     \/ UNCHANGED worker
  /\ UNCHANGED <<made, rows, queue, published, thumbs, cancelled>>

Goes(w, from, to) ==
  /\ worker[w].at = from
  /\ worker' = [worker EXCEPT ![w].at = to]

(* ProcessMessage: GetByID, with which jobs for other files than images are *)
(* done, and ListFileBlockHashes.  A deleted file has neither row nor       *)
(* blocks, and no image is empty.                                           *)
Fetch(w) ==
  /\ worker[w].job \in rows /\ ~cancelled
  /\ Goes(w, "fetch", IF worker[w].job \in Image THEN "render" ELSE "delete")
  /\ UNCHANGED <<made, rows, jobVars, thumbs, cancelled>>

(* The blocks are read, the image decoded and scaled and the thumbnail      *)
(* stored.  The blocks may still be there when the file is gone.            *)
Render(w) ==
  /\ worker[w].job \notin Broken
  /\ thumbs' = thumbs \cup {worker[w].job}
  /\ Goes(w, "render", "notify")
  /\ UNCHANGED <<made, rows, jobVars, cancelled>>

(* Wrong Fails: a job that cannot be done is deleted, too.                  *)
FailsForGood(w) ==
  /\ worker[w].at \in {"fetch", "render"}
  /\ worker' = [worker EXCEPT ![w].at = "delete"]
  /\ UNCHANGED <<made, rows, jobVars, thumbs, cancelled>>

(* Wrong Fails: the error ends the worker.                                  *)
FailsAndStops(w) ==
  /\ worker[w].at \in {"fetch", "render"}
  /\ worker' = [worker EXCEPT ![w] = Doing("stopped", NoFile)]
  /\ UNCHANGED <<made, rows, jobVars, thumbs, cancelled>>

(* ProcessMessage returns an error: the message is left to reappear.        *)
Fails(w) ==
  /\ worker[w].at \in {"fetch", "render"}
  /\ worker' = [worker EXCEPT ![w] = Doing("poll", NoFile)]
  /\ UNCHANGED <<made, rows, jobVars, thumbs, cancelled>>

(* deleteMessage; an error is logged.                                       *)
DeleteMessage(w) ==
  LET f == worker[w].job IN
  /\ worker[w].at = "delete"
  /\ \/ /\ ~cancelled
        /\ queue' = queue \ {f} /\ hidden' = hidden \ {f} /\ UNCHANGED published
     \/ UNCHANGED jobVars
  /\ worker' = [worker EXCEPT ![w] = Doing("poll", NoFile)]
  /\ UNCHANGED <<made, rows, thumbs, cancelled>>

Work(w) ==
  \/ WorkerStops(w)
  \/ \E f \in File : ReceiveMessage(w, f)
  \/ Fetch(w)
  \/ Render(w)
  \/ Fails(w)
  \/ DeleteMessage(w)

-----------------------------------------------------------------------------
(* A job leaves the queue only when its thumbnail is stored, whatever       *)
(* fails, times out, is delivered twice or is cancelled on the way; jobs    *)
(* for other files than images leave it without one.                        *)
JobsKeptUntilDone == \A f \in published \ queue : f \in Image => f \in thumbs
=============================================================================
