------------------------------ MODULE Thumbnailer ------------------------------
(***************************************************************************)
(* Thumbnailer: the thumbnails one storage has asked the thumbnail service *)
(* for.  A file is known by its path.  What the object keeps is a record,  *)
(* and its methods are functions of it:                                    *)
(*   paths      files with a thumbnail (m_thumbnailPaths)                  *)
(*   requested  files asked for and not answered (m_uriAlreadyRequested)   *)
(*   queue      those not handed to the service yet (m_uriRequestQueue)    *)
(*   fetching   those the service works on (external)                      *)
(*   timer      m_thumbnailTimer is running                                *)
(*   suspended  m_thumbnailerSuspended                                     *)
(* A request takes up to 128 files, more than there are here: all of the   *)
(* queue.  The order of the queue and the delays of the timer are left out.*)
(***************************************************************************)
EXTENDS Integers

\* Before enableThumbnailing()
NewThumbnailer == [paths |-> {}, requested |-> {}, queue |-> {}, fetching |-> {},
                   timer |-> FALSE, enabled |-> FALSE, suspended |-> FALSE]

ScheduleThumbnailing(t) == [t EXCEPT !.timer = t.enabled /\ ~t.suspended /\ t.queue # {}]

EnableThumbnailing(t) ==
    IF t.enabled THEN t ELSE ScheduleThumbnailing([t EXCEPT !.enabled = TRUE])

\* mutant: the timer is left running
SuspendThumbnailingOnly(t) == [t EXCEPT !.suspended = TRUE]

SuspendThumbnailing(t) ==
    IF t.suspended THEN t ELSE ScheduleThumbnailing([t EXCEPT !.suspended = TRUE])

\* mutant: the timer is not started again
ResumeThumbnailingOnly(t) == [t EXCEPT !.suspended = FALSE]

ResumeThumbnailing(t) ==
    IF t.suspended THEN ScheduleThumbnailing([t EXCEPT !.suspended = FALSE]) ELSE t

\* Requests of files F that have no thumbnail; one that was made is not repeated.
RequestThumbnails(t, F) ==
    LET new == F \ (t.paths \cup t.requested)
    IN  IF new = {} THEN t
        ELSE ScheduleThumbnailing([t EXCEPT !.requested = @ \cup new, !.queue = @ \cup new])

\* The timer repeats until it finds the queue empty.
ThumbnailDelayTimeout(t) ==
    IF t.queue = {} THEN [t EXCEPT !.timer = FALSE]
    ELSE [t EXCEPT !.fetching = @ \cup t.queue, !.queue = {}]

Expected(t, f) == f \in t.requested

SlotReady(t, f) ==
    IF Expected(t, f) THEN [t EXCEPT !.fetching = @ \ {f}, !.requested = @ \ {f}, !.paths = @ \cup {f}]
    ELSE [t EXCEPT !.fetching = @ \ {f}]

\* Also when the call fails: the file stays requested, so that it is not tried again.
SlotFailed(t, f) == [t EXCEPT !.fetching = @ \ {f}]
=============================================================================
