----------------------------- MODULE CaptureStream -----------------------------
(***************************************************************************)
(* Stream capture into immutable evidence (capture/stream.py, spool.py,    *)
(* store.py).  The SDK's callback thread fills a bounded queue; the        *)
(* capture loop drains it into batches, stages each one in the local spool *)
(* and delivers the spool to S3; a terminal manifest commits the session.  *)
(* The store may be unavailable, a put may take effect although it times   *)
(* out, the process may crash at any step, and a restart finds the spool.  *)
(*                                                                         *)
(* Messages are numbered by their receive sequence, so the queue and the   *)
(* buffer are intervals: sequences above `drained' are queued, those above *)
(* the last batch are buffered.  Every object has size one.  Only the      *)
(* deployed variant, with a spool, is modelled.                            *)
(***************************************************************************)
EXTENDS Naturals, Sequences, FiniteSets

CONSTANTS
    QueueSize, BatchSize, SpoolSize,
    MaxMessages,   \* bound: messages in one session
    MaxSessions,   \* bound: connections in one behaviour
    MaxCrashes     \* bound: process crashes in one behaviour

ASSUME CaptureConstants ==
    /\ QueueSize \in Nat /\ BatchSize \in 1 .. QueueSize /\ SpoolSize \in Nat \ {0}
    /\ MaxMessages \in Nat /\ MaxSessions \in Nat /\ MaxCrashes \in Nat

VARIABLES
    session,    \* number of the current or last connection
    receiver,   \* _Receiver: received, error, heard (a heartbeat), live (callbacks)
    capture,    \* the capture thread: pc, after, force, drained, batches, kind
    spool,      \* objects on the local disk
    todo,       \* entries the running drain has still to deliver
    store,      \* objects in S3
    lost,       \* sessions in which a callback could not queue its message
    over,       \* the window's deadline or the stop event
    crashes

vars == <<session, receiver, capture, spool, todo, store, lost, over, crashes>>

Clean == "completed"   \* or "shutdown"
Batch(s, first, last) == [session |-> s, first |-> first, last |-> last]
Manifest(s, batches, kind) == [session |-> s, batches |-> batches, kind |-> kind]
IsManifest(o) == "kind" \in DOMAIN o

Off == [pc |-> "off", after |-> "off", force |-> FALSE, drained |-> 0,
        batches |-> <<>>, kind |-> Clean]
Silent == [received |-> 0, error |-> FALSE, heard |-> FALSE, live |-> FALSE]

Init ==
    /\ session = 0 /\ receiver = Silent /\ capture = Off
    /\ spool = {} /\ todo = {} /\ store = {} /\ lost = {}
    /\ over = FALSE /\ crashes = 0

-----------------------------------------------------------------------------
\* The SDK's callback thread.

\* record: a full queue or a failing conversion is remembered as an error.
Receive ==
    /\ receiver.live
    /\ \/ /\ receiver.received < MaxMessages
          /\ receiver.received - capture.drained < QueueSize
          /\ receiver' = [receiver EXCEPT !.received = @ + 1]
          /\ UNCHANGED lost
       \/ /\ receiver' = [receiver EXCEPT !.error = TRUE]
          /\ lost' = lost \cup {session}
    /\ UNCHANGED <<session, capture, spool, todo, store, over, crashes>>

Heartbeat ==
    /\ receiver.live
    /\ receiver' = [receiver EXCEPT !.heard = TRUE]
    /\ UNCHANGED <<session, capture, spool, todo, store, lost, over, crashes>>

-----------------------------------------------------------------------------
\* CaptureSpool.drain: the entries in order, manifests last.

BeginDrain(c, after) ==
    /\ capture' = [c EXCEPT !.pc = "deliver", !.after = after]
    /\ todo' = spool

\* An exception unwinds to the handler around the current part of the session.
Raised ==
    CASE capture.after = "health" -> [capture EXCEPT !.pc = "disconnect", !.kind = "capture_error"]
      [] capture.after = "manifest" -> [capture EXCEPT !.pc = "manifest", !.kind = "capture_error"]
      [] OTHER -> Off
Raise == capture' = Raised /\ todo' = {}

Due(o) == o \in todo /\ (IsManifest(o) => \A p \in todo : IsManifest(p))

Deliver(o) ==
    /\ capture.pc = "deliver" /\ Due(o)
    /\ store' = store \cup {o} /\ spool' = spool \ {o} /\ todo' = todo \ {o}
    /\ UNCHANGED <<session, receiver, capture, lost, over, crashes>>

\* Mutants: an unavailable store skips the entry, or loses it.
DeliverUnavailableSkipping(o) ==
    /\ capture.pc = "deliver" /\ Due(o)
    /\ todo' = todo \ {o}
    /\ UNCHANGED <<session, receiver, capture, spool, store, lost, over, crashes>>
DeliverUnavailableUnlinking(o) ==
    /\ capture.pc = "deliver" /\ Due(o)
    /\ spool' = spool \ {o} /\ todo' = todo \ {o}
    /\ UNCHANGED <<session, receiver, capture, store, lost, over, crashes>>

\* Unavailable, before or after the put took effect: a deferred drain stops
\* here, the terminal one raises.
DeliverUnavailable(o) ==
    /\ capture.pc = "deliver" /\ Due(o)
    /\ store' \in {store, store \cup {o}}
    /\ IF capture.after = "off" THEN Raise
       ELSE todo' = {} /\ UNCHANGED capture
    /\ UNCHANGED <<session, receiver, spool, lost, over, crashes>>

\* A permission error, an immutable conflict or a corrupt entry raises.
DeliverFails(o) ==
    /\ capture.pc = "deliver" /\ Due(o)
    /\ Raise
    /\ UNCHANGED <<session, receiver, spool, store, lost, over, crashes>>

DrainDone ==
    /\ capture.pc = "deliver" /\ todo = {}
    /\ capture' = IF capture.after = "off" THEN Off ELSE [capture EXCEPT !.pc = capture.after]
    /\ UNCHANGED <<session, receiver, spool, todo, store, lost, over, crashes>>

-----------------------------------------------------------------------------
\* capture_stream, inside the reconnect loop of capture_stream_resilient.

Start ==
    /\ capture.pc = "off" /\ ~over /\ session < MaxSessions
    /\ session' = session + 1
    /\ receiver' = Silent
    /\ BeginDrain(Off, "connect")
    /\ UNCHANGED <<spool, store, lost, over, crashes>>

Connect ==
    /\ capture.pc = "connect"
    /\ \/ /\ capture' = [capture EXCEPT !.pc = "collect", !.after = "health"]
          /\ receiver' = [receiver EXCEPT !.live = TRUE]
       \/ capture' = Off /\ UNCHANGED receiver
    /\ UNCHANGED <<session, spool, todo, store, lost, over, crashes>>

LastBatched == IF capture.batches = <<>> THEN 0
               ELSE capture.batches[Len(capture.batches)].last
Buffered == capture.drained - LastBatched

\* drain(), then flush() if a batch is full or the flush interval has passed.
Collect ==
    /\ capture.pc = "collect"
    /\ \E timeout \in BOOLEAN :
          LET c == [capture EXCEPT !.drained = receiver.received, !.force = timeout]
              buffered == receiver.received - LastBatched
          IN  capture' = [c EXCEPT !.pc =
                 IF buffered >= BatchSize \/ (buffered > 0 /\ timeout)
                 THEN "publish" ELSE "health"]
    /\ UNCHANGED <<session, receiver, spool, todo, store, lost, over, crashes>>

\* The SDK, the clock or the observer raises in the loop.
LoopFails ==
    /\ capture.pc = "collect"
    /\ Raise
    /\ UNCHANGED <<session, receiver, spool, store, lost, over, crashes>>

NextBatch ==
    Batch(session, LastBatched + 1,
          LastBatched + IF Buffered < BatchSize THEN Buffered ELSE BatchSize)

\* flush: stage batches while there are any, then deliver the spool.
Publish ==
    /\ capture.pc = "publish"
    /\ \/ /\ Buffered >= BatchSize \/ (capture.force /\ Buffered > 0)
          /\ \/ /\ Cardinality(spool) < SpoolSize
                /\ spool' = spool \cup {NextBatch}
                /\ capture' = [capture EXCEPT !.batches = Append(@, NextBatch)]
                /\ UNCHANGED todo
             \/ Cardinality(spool) >= SpoolSize /\ Raise /\ UNCHANGED spool
       \/ /\ Buffered < BatchSize /\ ~(capture.force /\ Buffered > 0)
          /\ BeginDrain(capture, capture.after)
          /\ UNCHANGED spool
    /\ UNCHANGED <<session, receiver, store, lost, over, crashes>>

Leave(kind) == capture' = [capture EXCEPT !.pc = "disconnect", !.kind = kind]

\* The loop's exits, in order: receiver error, stale heartbeat, end of window.
Health ==
    /\ capture.pc = "health"
    /\ \/ receiver.error /\ Leave("capture_error")
       \/ ~receiver.error /\ Leave("stale")
       \/ /\ ~receiver.error /\ over
          /\ Leave(IF receiver.heard THEN Clean ELSE "stale")
       \/ /\ ~receiver.error /\ ~over
          /\ capture' = [capture EXCEPT !.pc = "collect"]
    /\ UNCHANGED <<session, receiver, spool, todo, store, lost, over, crashes>>

\* Mutant: the last messages are collected while callbacks still run.
DisconnectAfterCollect ==
    /\ capture.pc = "disconnect"
    /\ capture' = [capture EXCEPT !.pc = "publish", !.after = "manifest", !.force = TRUE,
                                  !.drained = receiver.received]
    /\ UNCHANGED <<session, receiver, spool, todo, store, lost, over, crashes>>

\* client.disconnect(), which may raise; then the final drain() and
\* flush(force).  No callback runs once the SDK has disconnected.
Disconnect ==
    /\ capture.pc = "disconnect"
    /\ \E kind \in {capture.kind, "capture_error"} :
          capture' = [capture EXCEPT !.pc = "publish", !.after = "manifest", !.force = TRUE,
                                     !.kind = kind, !.drained = receiver.received]
    /\ receiver' = [receiver EXCEPT !.live = FALSE]
    /\ UNCHANGED <<session, spool, todo, store, lost, over, crashes>>

\* Stage the terminal manifest and deliver the spool, this time insisting.
Commit ==
    /\ capture.pc = "manifest"
    /\ IF Cardinality(spool) < SpoolSize
       THEN /\ spool' = spool \cup {Manifest(session, capture.batches, capture.kind)}
            /\ capture' = [capture EXCEPT !.pc = "deliver", !.after = "off"]
            /\ todo' = spool'
       ELSE capture' = Off /\ todo' = {} /\ UNCHANGED spool
    /\ UNCHANGED <<session, receiver, store, lost, over, crashes>>

-----------------------------------------------------------------------------
\* The environment.

EndWindow ==
    /\ ~over /\ over' = TRUE
    /\ UNCHANGED <<session, receiver, capture, spool, todo, store, lost, crashes>>

\* The next window's process.
NextWindow ==
    /\ over /\ capture.pc = "off" /\ over' = FALSE
    /\ UNCHANGED <<session, receiver, capture, spool, todo, store, lost, crashes>>

\* Only the disk and S3 survive.
Crash ==
    /\ crashes < MaxCrashes /\ capture.pc # "off"
    /\ crashes' = crashes + 1
    /\ capture' = Off /\ receiver' = Silent /\ todo' = {}
    /\ UNCHANGED <<session, spool, store, lost, over>>

Deliveries == \E o \in todo : Deliver(o)
Process ==
    \/ Start \/ Connect \/ Collect \/ LoopFails \/ Publish \/ Health \/ Disconnect \/ Commit
    \/ Deliveries \/ DrainDone
    \/ \E o \in todo : DeliverUnavailable(o) \/ DeliverFails(o)

Next == Receive \/ Heartbeat \/ Process \/ EndWindow \/ NextWindow \/ Crash

Spec == Init /\ [][Next]_vars

-----------------------------------------------------------------------------
Batches == [session : 1 .. MaxSessions, first : 1 .. MaxMessages, last : 1 .. MaxMessages]

TypeOK ==
    /\ session \in 0 .. MaxSessions
    /\ receiver.live => receiver.received \in capture.drained .. capture.drained + QueueSize
    /\ \A o \in spool \cup store : ~IsManifest(o) => o \in Batches
    /\ Cardinality(spool) <= SpoolSize
    /\ todo \subseteq spool
    /\ crashes \in 0 .. MaxCrashes

\* A manifest in S3 finds all its batches there, although the store fails
\* between puts, the process crashes mid-drain and a later one resumes with
\* another session's objects beside them (drain).
ManifestCommitsItsBatches ==
    \A o \in store : IsManifest(o) =>
       \A i \in DOMAIN o.batches : o.batches[i] \in store

\* What was staged is on disk or in S3 for ever (drain, _stage).
StagedSurvives == [][spool \cup store \subseteq spool' \cup store']_vars

\* A clean manifest's batches cover every message the receiver queued, without
\* gap or overlap, whatever failed and was retried in between, and also those
\* that arrived after the loop had decided to leave (flush, the final drain).
CleanIsDrained ==
    \A o \in spool \cup store :
       IsManifest(o) /\ o.session = session /\ o.kind = Clean =>
          LET Bound(i) == IF i = 0 THEN 0 ELSE o.batches[i].last
          IN  /\ \A i \in DOMAIN o.batches : o.batches[i].first = Bound(i - 1) + 1
              /\ receiver.received \in {0, Bound(Len(o.batches))}

\* A reader that finds a manifest finds what it commits: every batch it lists
\* is in the store, and a clean one accounts for every queued message
\* (CaptureSpool.drain's order, capture_stream's final drain and flush).
ManifestsAreComplete == ManifestCommitsItsBatches /\ CleanIsDrained

\* A session that did not end as an error is a complete, healthy capture
\* (StreamCaptureError: "ended without a complete healthy capture").
CleanIsComplete ==
    \A o \in spool \cup store : IsManifest(o) /\ o.kind = Clean => o.session \notin lost
=============================================================================
