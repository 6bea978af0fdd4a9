------------------------- MODULE CaptureStreamProofs -------------------------
(***************************************************************************)
(* What capture commits is whole, for every queue, batch and spool size,   *)
(* every number of sessions, messages and crashes, and whatever the store  *)
(* does.                                                                   *)
(***************************************************************************)
EXTENDS CaptureStream, Integers, TLAPS

Kinds == {Clean, "stale", "capture_error"}
Steps == {"off", "deliver", "connect", "collect", "publish", "health", "disconnect", "manifest"}
AnyBatch == [session : Nat, first : Nat, last : Nat]
AnyManifest == [session : Nat, batches : Seq(AnyBatch), kind : Kinds]
Objects == AnyBatch \cup AnyManifest

Receivers == [received : Nat, error : BOOLEAN, heard : BOOLEAN, live : BOOLEAN]
Captures == [pc : Steps, after : Steps, force : BOOLEAN, drained : Nat,
             batches : Seq(AnyBatch), kind : Kinds]

Types ==
    /\ session \in Nat
    /\ receiver \in Receivers
    /\ capture \in Captures
    /\ spool \subseteq Objects /\ store \subseteq Objects

\* Where the capture thread is: inside the loop, on the way to its manifest,
\* about to stage the manifest, or past it.
Looping == /\ capture.pc \in {"collect", "health", "disconnect", "publish", "deliver"}
           /\ capture.after = "health"
Ending == /\ capture.pc \in {"publish", "deliver", "manifest"}
          /\ capture.after = "manifest"
Connecting == capture.pc \in {"deliver", "connect"} /\ capture.after = "connect"
Finished == capture.pc \in {"deliver", "off"} /\ capture.after = "off"

Control ==
    /\ Looping \/ Ending \/ Connecting \/ Finished
    /\ receiver.live => Looping
    /\ Connecting => receiver.received = 0
    /\ todo # {} => capture.pc = "deliver" /\ todo = spool

LastOf(batches) == IF batches = <<>> THEN 0 ELSE batches[Len(batches)].last
Bound(batches, i) == IF i = 0 THEN 0 ELSE batches[i].last
Chained(batches) == \A i \in DOMAIN batches : batches[i].first = Bound(batches, i - 1) + 1
Staged(batches) == \A i \in DOMAIN batches : batches[i] \in spool \cup store

\* The batches of the running session: staged, consecutive, and no further
\* than what was drained; all of it once a clean session is flushed.
Running ==
    /\ Staged(capture.batches) /\ Chained(capture.batches)
    /\ LastOf(capture.batches) <= capture.drained
    /\ capture.drained <= receiver.received
    /\ Ending => capture.drained = receiver.received
    /\ Ending /\ capture.pc = "publish" => capture.force
    /\ Ending /\ capture.pc # "publish" /\ capture.kind = Clean
          => LastOf(capture.batches) = capture.drained

\* The manifests, staged or stored.
Committed(o) ==
    /\ Staged(o.batches) /\ Chained(o.batches)
    /\ o.session <= session
    /\ o.session = session => Finished
    /\ o.session = session /\ o.kind = Clean => receiver.received \in {0, LastOf(o.batches)}
Manifested == \A o \in spool \cup store : IsManifest(o) => Committed(o)

\* The inductive invariant.
CaptureInv == Types /\ Control /\ Running /\ Manifested /\ ManifestCommitsItsBatches

-----------------------------------------------------------------------------
\* The two kinds of objects, and sequences of batches.

LEMMA BatchIsNoManifest == \A o \in AnyBatch : ~IsManifest(o)
BY DEF AnyBatch, IsManifest

LEMMA ManifestIsOne == \A o \in AnyManifest : IsManifest(o)
BY DEF AnyManifest, IsManifest

LEMMA LastOfType == ASSUME NEW b \in Seq(AnyBatch) PROVE LastOf(b) \in Nat
<1>1. CASE b = <<>>
  BY <1>1 DEF LastOf
<1>2. CASE b # <<>>
  <2>1. b[Len(b)] \in AnyBatch
    BY <1>2
  <2> QED
    BY <1>2, <2>1 DEF LastOf, AnyBatch
<1> QED
  BY <1>1, <1>2

LEMMA AppendBatch ==
    ASSUME NEW b \in Seq(AnyBatch), NEW n \in AnyBatch,
           Chained(b), n.first = LastOf(b) + 1
    PROVE  /\ Append(b, n) \in Seq(AnyBatch)
           /\ Chained(Append(b, n))
           /\ LastOf(Append(b, n)) = n.last
           /\ \A i \in DOMAIN Append(b, n) :
                 (i \in DOMAIN b /\ Append(b, n)[i] = b[i]) \/ Append(b, n)[i] = n
<1> DEFINE a == Append(b, n)
<1>1. /\ a \in Seq(AnyBatch) /\ Len(a) = Len(b) + 1 /\ a # <<>>
      /\ \A i \in 1 .. Len(b) : a[i] = b[i]
      /\ a[Len(b) + 1] = n /\ DOMAIN a = 1 .. (Len(b) + 1) /\ DOMAIN b = 1 .. Len(b)
      /\ Len(b) \in Nat
  OBVIOUS
<1> HIDE DEF a
<1>2. ASSUME NEW i \in DOMAIN a PROVE a[i].first = Bound(a, i - 1) + 1
  <2>1. CASE i \in DOMAIN b
    <3>1. b[i].first = Bound(b, i - 1) + 1
      BY <2>1 DEF Chained
    <3>2. Bound(a, i - 1) = Bound(b, i - 1)
      BY <1>1, <2>1 DEF Bound
    <3> QED
      BY <1>1, <2>1, <3>1, <3>2
  <2>2. CASE i = Len(b) + 1
    <3>1. Bound(a, i - 1) = LastOf(b)
      BY <1>1, <2>2 DEF Bound, LastOf
    <3> QED
      BY <1>1, <2>2, <3>1
  <2> QED
    BY <1>1, <1>2, <2>1, <2>2
<1>3. LastOf(a) = n.last
  BY <1>1 DEF LastOf
<1>4. \A i \in DOMAIN a : (i \in DOMAIN b /\ a[i] = b[i]) \/ a[i] = n
  BY <1>1
<1> QED
  BY <1>1, <1>2, <1>3, <1>4 DEF Chained, a

-----------------------------------------------------------------------------
LEMMA OffType == Off \in Captures
<1>1. <<>> \in Seq(AnyBatch)
  OBVIOUS
<1> QED
  BY <1>1 DEF Off, Captures, Clean, Kinds, Steps

LEMMA OffFields ==
    /\ Off.pc = "off" /\ Off.after = "off" /\ Off.drained = 0 /\ Off.batches = <<>>
BY DEF Off

LEMMA SilentType == Silent \in Receivers
BY DEF Silent, Receivers

LEMMA InitInv == Init => CaptureInv
<1> SUFFICES ASSUME Init PROVE CaptureInv
  OBVIOUS
<1>1. Types
  BY OffType, SilentType DEF Init, Types
<1>2. Control
  BY DEF Init, Control, Off, Silent, Looping, Ending, Connecting, Finished
<1>3. Running
  BY DEF Init, Running, Off, Silent, Ending, Staged, Chained, LastOf
<1>4. Manifested /\ ManifestCommitsItsBatches
  BY DEF Init, Manifested, ManifestCommitsItsBatches
<1> QED
  BY <1>1, <1>2, <1>3, <1>4 DEF CaptureInv

\* The next batch begins after the last one and ends within what was drained.
LEMMA NextBatchFacts ==
    ASSUME CaptureInv, Buffered > 0
    PROVE  /\ NextBatch \in AnyBatch
           /\ NextBatch.first = LastOf(capture.batches) + 1
           /\ NextBatch.last <= capture.drained
<1>1. /\ LastBatched = LastOf(capture.batches) /\ LastBatched \in Nat
      /\ LastBatched <= capture.drained /\ capture.drained \in Nat /\ session \in Nat
  BY LastOfType DEF CaptureInv, Types, Captures, Running, LastBatched, LastOf
<1> QED
  BY <1>1, CaptureConstants DEF NextBatch, Batch, AnyBatch, Buffered

\* Where an exception unwinds to.
LEMMA RaisedFacts ==
    ASSUME capture \in Captures
    PROVE  /\ Raised \in Captures
           /\ \/ /\ capture.after = "health" /\ Raised.pc = "disconnect"
              \/ /\ capture.after = "manifest" /\ Raised.pc = "manifest"
              \/ /\ capture.after \notin {"health", "manifest"} /\ Raised = Off
           /\ Raised # Off => /\ Raised.after = capture.after /\ Raised.kind = "capture_error"
                             /\ Raised.batches = capture.batches
                             /\ Raised.drained = capture.drained
<1>1. CASE capture.after = "health"
  BY <1>1, OffType DEF Raised, Captures, Kinds, Steps
<1>2. CASE capture.after = "manifest"
  BY <1>2, OffType DEF Raised, Captures, Kinds, Steps
<1>3. CASE capture.after \notin {"health", "manifest"}
  BY <1>3, OffType DEF Raised
<1> QED
  BY <1>1, <1>2, <1>3

\* Types.
LEMMA TypesStep == CaptureInv /\ [Next]_vars => Types'
<1> SUFFICES ASSUME CaptureInv, [Next]_vars PROVE Types'
  OBVIOUS
<1>0. Types
  BY DEF CaptureInv
<1> USE <1>0 DEF Types
<1>1. CASE UNCHANGED vars
  BY <1>1 DEF vars
<1>2. CASE Receive
  <2>1. [receiver EXCEPT !.received = receiver.received + 1] \in Receivers
    BY DEF Receivers
  <2>2. [receiver EXCEPT !.error = TRUE] \in Receivers
    BY DEF Receivers
  <2> QED
    BY <1>2, <2>1, <2>2 DEF Receive
<1>3. CASE Heartbeat
  BY <1>3 DEF Heartbeat, Receivers
<1>4. CASE Start
  <2>1. [Off EXCEPT !.pc = "deliver", !.after = "connect"] \in Captures
    BY OffType DEF Captures, Steps
  <2> QED
    BY <1>4, <2>1, SilentType DEF Start, BeginDrain
<1>5. CASE Connect
  BY <1>5, OffType DEF Connect, Captures, Receivers, Steps
<1>6. CASE Collect
  <2>1. receiver.received \in Nat
    BY DEF Receivers
  <2> QED
    BY <1>6, <2>1 DEF Collect, Captures, Steps
<1>7. CASE LoopFails
  BY <1>7, RaisedFacts DEF LoopFails, Raise
<1>8. CASE Publish
  <2>1. ASSUME Buffered > 0 PROVE Append(capture.batches, NextBatch) \in Seq(AnyBatch)
    BY <2>1, NextBatchFacts DEF Captures
  <2>2. ASSUME Buffered > 0 PROVE NextBatch \in Objects
    BY <2>2, NextBatchFacts DEF Objects
  <2>3. Buffered >= BatchSize => Buffered > 0
    <3>1. Buffered \in Int
      BY LastOfType DEF Buffered, LastBatched, LastOf, Captures
    <3> QED
      BY <3>1, CaptureConstants
  <2>4. CASE /\ Buffered > 0
             /\ spool' = spool \cup {NextBatch}
             /\ capture' = [capture EXCEPT !.batches = Append(capture.batches, NextBatch)]
    BY <1>8, <2>1, <2>2, <2>4 DEF Publish, Captures
  <2>5. CASE Raise /\ UNCHANGED spool
    BY <1>8, <2>5, RaisedFacts DEF Publish, Raise
  <2>6. CASE BeginDrain(capture, capture.after) /\ UNCHANGED spool
    BY <1>8, <2>6 DEF Publish, BeginDrain, Captures, Steps
  <2> QED
    BY <1>8, <2>3, <2>4, <2>5, <2>6 DEF Publish
<1>9. CASE Health
  BY <1>9 DEF Health, Leave, Captures, Steps, Kinds, Clean
<1>10. CASE Disconnect
  BY <1>10 DEF Disconnect, Captures, Receivers, Steps, Kinds
<1>11. CASE Commit
  <2>1. Manifest(session, capture.batches, capture.kind) \in Objects
    BY DEF Manifest, Objects, AnyManifest, Captures
  <2> QED
    BY <1>11, <2>1, OffType DEF Commit, Captures, Steps
<1>12. ASSUME NEW o \in todo, Deliver(o) \/ DeliverUnavailable(o) \/ DeliverFails(o)
       PROVE  Types'
  <2>1. o \in Objects
    BY <1>12 DEF CaptureInv, Control
  <2> QED
    BY <1>12, <2>1, RaisedFacts DEF Deliver, DeliverUnavailable, DeliverFails, Raise
<1>13. CASE DrainDone
  BY <1>13, OffType DEF DrainDone, Captures
<1>14. CASE EndWindow \/ NextWindow
  BY <1>14 DEF EndWindow, NextWindow
<1>15. CASE Crash
  BY <1>15, OffType, SilentType DEF Crash
<1> QED
  BY <1>1, <1>2, <1>3, <1>4, <1>5, <1>6, <1>7, <1>8, <1>9, <1>10, <1>11, <1>12, <1>13, <1>14,
     <1>15 DEF Next, Process, Deliveries

-----------------------------------------------------------------------------
\* Control: callbacks run only inside the loop, and a running drain has the
\* whole spool before it.
LEMMA ControlStep == CaptureInv /\ [Next]_vars => Control'
<1> SUFFICES ASSUME CaptureInv, [Next]_vars PROVE Control'
  OBVIOUS
<1>0. capture \in Captures /\ receiver \in Receivers /\ Control
  BY DEF CaptureInv, Types
<1> USE <1>0 DEF Control, Looping, Ending, Connecting, Finished
<1>1. CASE UNCHANGED vars
  BY <1>1 DEF vars
<1>2. CASE Receive
  BY <1>2 DEF Receive, Receivers
<1>3. CASE Heartbeat
  BY <1>3 DEF Heartbeat, Receivers
<1>4. CASE Start
  BY <1>4, OffType DEF Start, BeginDrain, Captures, Silent
<1>5. CASE Connect
  <2>1. CASE capture' = Off /\ UNCHANGED receiver
    BY <1>5, <2>1, OffFields DEF Connect
  <2>2. CASE /\ capture' = [capture EXCEPT !.pc = "collect", !.after = "health"]
             /\ receiver' = [receiver EXCEPT !.live = TRUE]
    BY <1>5, <2>2 DEF Connect, Captures, Receivers
  <2> QED
    BY <1>5, <2>1, <2>2 DEF Connect
<1>6. CASE Collect
  BY <1>6 DEF Collect, Captures
<1>7. CASE LoopFails
  BY <1>7, RaisedFacts, OffFields DEF LoopFails, Raise
<1>8. CASE Publish
  <2>1. CASE /\ capture' = [capture EXCEPT !.batches = Append(capture.batches, NextBatch)]
             /\ UNCHANGED todo
    BY <1>8, <2>1 DEF Publish, Captures
  <2>2. CASE Raise
    BY <1>8, <2>2, RaisedFacts, OffFields DEF Publish, Raise
  <2>3. CASE BeginDrain(capture, capture.after) /\ UNCHANGED spool
    BY <1>8, <2>3 DEF Publish, BeginDrain, Captures
  <2> QED
    BY <1>8, <2>1, <2>2, <2>3 DEF Publish
<1>9. CASE Health
  BY <1>9 DEF Health, Leave, Captures
<1>10. CASE Disconnect
  BY <1>10 DEF Disconnect, Captures, Receivers
<1>11. CASE Commit
  <2>1. CASE capture' = Off /\ todo' = {}
    BY <1>11, <2>1, OffFields DEF Commit
  <2>2. CASE capture' = [capture EXCEPT !.pc = "deliver", !.after = "off"] /\ todo' = spool'
    BY <1>11, <2>2 DEF Commit, Captures
  <2> QED
    BY <1>11, <2>1, <2>2 DEF Commit
<1>12. ASSUME NEW o \in todo, Deliver(o)
       PROVE  Control'
  BY <1>12 DEF Deliver
<1>13. ASSUME NEW o \in todo, DeliverUnavailable(o) \/ DeliverFails(o)
       PROVE  Control'
  <2>1. CASE Raise
    BY <1>13, <2>1, RaisedFacts, OffFields
       DEF DeliverUnavailable, DeliverFails, Raise
  <2>2. CASE todo' = {} /\ UNCHANGED capture
    BY <1>13, <2>2 DEF DeliverUnavailable, DeliverFails
  <2> QED
    BY <1>13, <2>1, <2>2 DEF DeliverUnavailable, DeliverFails
<1>14. CASE DrainDone
  BY <1>14 DEF DrainDone, Captures, Off
<1>15. CASE EndWindow \/ NextWindow
  BY <1>15 DEF EndWindow, NextWindow
<1>16. CASE Crash
  BY <1>16 DEF Crash, Off, Silent
<1> QED
  BY <1>1, <1>2, <1>3, <1>4, <1>5, <1>6, <1>7, <1>8, <1>9, <1>10, <1>11, <1>12, <1>13, <1>14,
     <1>15, <1>16 DEF Next, Process, Deliveries

-----------------------------------------------------------------------------
\* What is staged stays on the disk or goes to the store.
LEMMA NothingLost == [Next]_vars => spool \cup store \subseteq spool' \cup store'
<1> SUFFICES ASSUME [Next]_vars PROVE spool \cup store \subseteq spool' \cup store'
  OBVIOUS
<1>1. CASE spool \subseteq spool' /\ store \subseteq store'
  BY <1>1
<1>2. ASSUME NEW o \in todo, Deliver(o) PROVE spool \cup store \subseteq spool' \cup store'
  BY <1>2 DEF Deliver
<1> QED
  BY <1>1, <1>2 DEF Next, vars, Process, Deliveries, Receive, Heartbeat, Start, Connect, Collect,
     LoopFails, Publish, Health, Disconnect, Commit, DrainDone, DeliverUnavailable, DeliverFails,
     EndWindow, NextWindow, Crash

\* Batches that were staged still are, whichever sequence names them.
LEMMA StillStaged ==
    ASSUME [Next]_vars, NEW b, Staged(b)
    PROVE  \A i \in DOMAIN b : b[i] \in spool' \cup store'
BY NothingLost DEF Staged

\* A process that is off has no batches.
LEMMA OffRuns ==
    ASSUME capture' = Off, receiver'.received \in Nat
    PROVE  Running'
BY OffFields DEF Running, Staged, Chained, LastOf, Ending

\* A step that keeps the batches and what was drained.
LEMMA SameBatchesRun ==
    ASSUME CaptureInv, [Next]_vars,
           capture'.batches = capture.batches, capture'.drained = capture.drained,
           receiver'.received \in Nat, receiver.received <= receiver'.received,
           Ending' => /\ Ending /\ receiver'.received = receiver.received
                      /\ capture'.pc = "publish" => capture'.force
                      /\ capture'.pc # "publish" /\ capture'.kind = Clean
                            => LastOf(capture.batches) = capture.drained
    PROVE  Running'
<1>1. /\ capture.drained \in Nat /\ receiver.received \in Nat
      /\ LastOf(capture.batches) \in Nat
  BY LastOfType DEF CaptureInv, Types, Captures, Receivers
<1>2. Running
  BY DEF CaptureInv
<1>3. Staged(capture.batches)'
  BY <1>2, StillStaged DEF Running, Staged
<1>4. Chained(capture.batches)' /\ LastOf(capture.batches)' = LastOf(capture.batches)
  BY <1>2 DEF Running, Chained, LastOf, Bound
<1> QED
  BY <1>1, <1>2, <1>3, <1>4 DEF Running

\* A step that drains the queue, inside the loop or at its end.
LEMMA DrainedRuns ==
    ASSUME CaptureInv, [Next]_vars,
           capture'.batches = capture.batches, capture'.drained = receiver.received,
           receiver'.received = receiver.received,
           Ending' => capture'.pc = "publish" /\ capture'.force
    PROVE  Running'
<1>1. /\ capture.drained \in Nat /\ receiver.received \in Nat
      /\ LastOf(capture.batches) \in Nat
  BY LastOfType DEF CaptureInv, Types, Captures, Receivers
<1>2. Running
  BY DEF CaptureInv
<1>3. Staged(capture.batches)'
  BY <1>2, StillStaged DEF Running, Staged
<1>4. Chained(capture.batches)' /\ LastOf(capture.batches)' = LastOf(capture.batches)
  BY <1>2 DEF Running, Chained, LastOf, Bound
<1> QED
  BY <1>1, <1>2, <1>3, <1>4 DEF Running

\* An exception leaves the batches for a manifest that is not clean.
LEMMA RaiseRuns ==
    ASSUME CaptureInv, [Next]_vars, Raise, UNCHANGED receiver
    PROVE  Running'
<1>1. capture \in Captures /\ receiver.received \in Nat /\ Control
  BY DEF CaptureInv, Types, Receivers
<1>2. capture' = Raised
  BY DEF Raise
<1>3. CASE Raised = Off
  BY <1>1, <1>2, <1>3, OffRuns
<1>4. CASE Raised # Off
  <2>1. Ending' => Ending /\ capture'.pc # "publish" /\ capture'.kind # Clean
    BY <1>1, <1>2, <1>4, RaisedFacts
       DEF Ending, Control, Looping, Connecting, Finished, Clean
  <2> QED
    BY <1>1, <1>2, <1>4, <2>1, RaisedFacts, SameBatchesRun
<1> QED
  BY <1>3, <1>4

LEMMA PublishRuns ==
    ASSUME CaptureInv, [Next]_vars, Publish
    PROVE  Running'
<1>0. /\ capture \in Captures /\ receiver.received \in Nat /\ Running
      /\ capture.drained \in Nat /\ UNCHANGED receiver /\ capture.batches \in Seq(AnyBatch)
      /\ LastOf(capture.batches) \in Nat
  BY LastOfType DEF CaptureInv, Types, Receivers, Captures, Publish
<1>b. LastBatched = LastOf(capture.batches)
  BY DEF LastBatched, LastOf
<1>1. CASE Raise
  BY <1>0, <1>1, RaiseRuns
<1>2. CASE /\ Buffered >= BatchSize \/ (capture.force /\ Buffered > 0)
           /\ spool' = spool \cup {NextBatch}
           /\ capture' = [capture EXCEPT !.batches = Append(capture.batches, NextBatch)]
  <2>1. Buffered > 0
    BY <1>0, <1>b, <1>2, CaptureConstants DEF Buffered
  <2>2. /\ NextBatch \in AnyBatch /\ NextBatch.first = LastOf(capture.batches) + 1
        /\ NextBatch.last <= capture.drained
    BY <2>1, NextBatchFacts
  <2>3. /\ capture'.batches = Append(capture.batches, NextBatch)
        /\ capture'.pc = capture.pc /\ capture'.after = capture.after
        /\ capture'.force = capture.force /\ capture'.drained = capture.drained
    BY <1>0, <1>2 DEF Captures
  <2>4. Chained(capture'.batches) /\ LastOf(capture'.batches) = NextBatch.last
    BY <1>0, <2>2, <2>3, AppendBatch DEF Running
  <2>5. Staged(capture.batches)'
    <3> SUFFICES ASSUME NEW i \in DOMAIN capture'.batches
                 PROVE  capture'.batches[i] \in spool' \cup store'
      BY DEF Staged
    <3>1. \/ i \in DOMAIN capture.batches /\ capture'.batches[i] = capture.batches[i]
          \/ capture'.batches[i] = NextBatch
      BY <1>0, <2>2, <2>3, AppendBatch DEF Running
    <3> QED
      BY <1>0, <1>2, <3>1, StillStaged DEF Running
  <2>6. Chained(capture.batches)' /\ LastOf(capture.batches)' = NextBatch.last
    BY <2>4 DEF Chained, LastOf, Bound
  <2>7. capture.pc = "publish" /\ (Ending' <=> Ending)
    BY <2>3 DEF Publish, Ending
  <2> QED
    BY <1>0, <2>2, <2>3, <2>5, <2>6, <2>7 DEF Running
<1>3. CASE /\ Buffered < BatchSize /\ ~(capture.force /\ Buffered > 0)
           /\ BeginDrain(capture, capture.after)
  <2>1. /\ capture'.batches = capture.batches /\ capture'.drained = capture.drained
        /\ capture'.pc = "deliver" /\ capture'.after = capture.after /\ capture.pc = "publish"
    BY <1>0, <1>3 DEF BeginDrain, Captures, Publish
  <2>2. Ending' => Ending /\ LastOf(capture.batches) = capture.drained
    BY <1>0, <1>b, <1>3, <2>1 DEF Ending, Running, Buffered
  <2> QED
    BY <1>0, <2>1, <2>2, SameBatchesRun
<1> QED
  BY <1>1, <1>2, <1>3 DEF Publish

LEMMA RunningStep == CaptureInv /\ [Next]_vars => Running'
<1> SUFFICES ASSUME CaptureInv, [Next]_vars PROVE Running'
  OBVIOUS
<1>0. /\ capture \in Captures /\ receiver \in Receivers /\ Control /\ Running
      /\ receiver.received \in Nat
  BY DEF CaptureInv, Types, Receivers
<1>1. CASE UNCHANGED vars
  BY <1>0, <1>1 DEF vars, Running, Staged, Chained, LastOf, Bound, Ending
<1>2. CASE Receive \/ Heartbeat
  <2>1. /\ UNCHANGED capture /\ receiver.live
        /\ receiver'.received \in Nat /\ receiver.received <= receiver'.received
    BY <1>0, <1>2 DEF Receive, Heartbeat, Receivers
  <2>2. ~Ending'
    BY <1>0, <2>1 DEF Control, Looping, Ending
  <2> QED
    BY <2>1, <2>2, SameBatchesRun
<1>3. CASE Start
  <2>1. /\ capture'.batches = <<>> /\ capture'.drained = 0 /\ capture'.after = "connect"
        /\ receiver'.received = 0
    BY <1>3, OffType, OffFields DEF Start, BeginDrain, Captures, Silent
  <2> QED
    BY <2>1 DEF Running, Staged, Chained, LastOf, Ending
<1>4. CASE Connect
  <2>1. CASE capture' = Off /\ UNCHANGED receiver
    BY <1>0, <2>1, OffRuns
  <2>2. CASE /\ capture' = [capture EXCEPT !.pc = "collect", !.after = "health"]
             /\ receiver' = [receiver EXCEPT !.live = TRUE]
    <3>1. /\ capture'.batches = capture.batches /\ capture'.drained = capture.drained
          /\ capture'.after = "health" /\ receiver'.received = receiver.received
      BY <1>0, <2>2 DEF Captures, Receivers
    <3> QED
      BY <1>0, <3>1, SameBatchesRun DEF Ending
  <2> QED
    BY <1>4, <2>1, <2>2 DEF Connect
<1>5. CASE Collect
  <2>1. /\ capture'.batches = capture.batches /\ capture'.drained = receiver.received
        /\ capture'.after = "health" /\ UNCHANGED receiver
    BY <1>0, <1>5 DEF Collect, Captures, Control, Looping, Ending, Connecting, Finished
  <2> QED
    BY <2>1, DrainedRuns DEF Ending
<1>6. CASE LoopFails
  BY <1>6, RaiseRuns DEF LoopFails
<1>7. CASE Publish
  BY <1>7, PublishRuns
<1>8. CASE Health
  <2>1. /\ capture'.batches = capture.batches /\ capture'.drained = capture.drained
        /\ capture'.after = "health" /\ UNCHANGED receiver
    BY <1>0, <1>8 DEF Health, Leave, Captures, Control, Looping, Ending, Connecting, Finished
  <2> QED
    BY <1>0, <2>1, SameBatchesRun DEF Ending
<1>9. CASE Disconnect
  <2>1. /\ capture'.batches = capture.batches /\ capture'.drained = receiver.received
        /\ capture'.pc = "publish" /\ capture'.force
        /\ receiver'.received = receiver.received
    BY <1>0, <1>9 DEF Disconnect, Captures, Receivers
  <2> QED
    BY <2>1, DrainedRuns
<1>10. CASE Commit
  <2>1. CASE capture' = Off
    BY <1>0, <1>10, <2>1, OffRuns DEF Commit
  <2>2. CASE capture' = [capture EXCEPT !.pc = "deliver", !.after = "off"]
    <3>1. /\ capture'.batches = capture.batches /\ capture'.drained = capture.drained
          /\ capture'.after = "off" /\ UNCHANGED receiver
      BY <1>0, <1>10, <2>2 DEF Captures, Commit
    <3> QED
      BY <1>0, <3>1, SameBatchesRun DEF Ending
  <2> QED
    BY <1>10, <2>1, <2>2 DEF Commit
<1>11. ASSUME NEW o \in todo, Deliver(o) \/ DeliverUnavailable(o) \/ DeliverFails(o)
       PROVE  Running'
  <2>1. CASE Raise
    BY <1>11, <2>1, RaiseRuns DEF Deliver, DeliverUnavailable, DeliverFails
  <2>2. CASE UNCHANGED capture
    <3>1. UNCHANGED receiver /\ capture.pc = "deliver"
      BY <1>11 DEF Deliver, DeliverUnavailable, DeliverFails
    <3> QED
      BY <1>0, <2>2, <3>1, SameBatchesRun DEF Ending, Running
  <2> QED
    BY <1>11, <2>1, <2>2 DEF Deliver, DeliverUnavailable, DeliverFails
<1>12. CASE DrainDone
  <2>1. CASE capture' = Off
    BY <1>0, <1>12, <2>1, OffRuns DEF DrainDone
  <2>2. CASE capture' = [capture EXCEPT !.pc = capture.after]
    <3>1. /\ capture'.batches = capture.batches /\ capture'.drained = capture.drained
          /\ capture'.kind = capture.kind /\ capture'.pc = capture'.after
          /\ capture'.after = capture.after /\ capture.pc = "deliver" /\ UNCHANGED receiver
      BY <1>0, <1>12, <2>2 DEF Captures, DrainDone
    <3> QED
      BY <1>0, <3>1, SameBatchesRun DEF Ending, Running
  <2> QED
    BY <1>12, <2>1, <2>2 DEF DrainDone
<1>13. CASE EndWindow \/ NextWindow
  <2>1. UNCHANGED <<capture, receiver, spool, store>>
    BY <1>13 DEF EndWindow, NextWindow
  <2> QED
    BY <1>0, <2>1 DEF Running, Staged, Chained, LastOf, Bound, Ending
<1>14. CASE Crash
  <2>1. capture' = Off /\ receiver'.received \in Nat
    BY <1>14 DEF Crash, Silent
  <2> QED
    BY <2>1, OffRuns
<1> QED
  BY <1>1, <1>2, <1>3, <1>4, <1>5, <1>6, <1>7, <1>8, <1>9, <1>10, <1>11, <1>12, <1>13, <1>14
     DEF Next, Process, Deliveries

-----------------------------------------------------------------------------
\* A session that has staged its manifest stays finished until the next begins.
LEMMA FinishedStep ==
    ASSUME CaptureInv, [Next]_vars, Finished
    PROVE  \/ session' = session + 1
           \/ /\ session' = session /\ Finished'
              /\ receiver'.received \in {receiver.received, 0}
<1>0. capture \in Captures /\ receiver \in Receivers /\ Control
  BY DEF CaptureInv, Types
<1>1. /\ capture.after = "off" /\ capture.pc \in {"deliver", "off"}
      /\ ~receiver.live
  BY <1>0 DEF Finished, Control, Looping
<1>2. CASE Start
  BY <1>2 DEF Start
<1>3. CASE UNCHANGED <<session, capture, receiver>>
  BY <1>1, <1>3 DEF Finished
<1>4. CASE capture' = Off /\ UNCHANGED session /\ receiver' \in {receiver, Silent}
  BY <1>4, OffFields DEF Finished, Silent
<1>5. Start \/ UNCHANGED <<session, capture, receiver>>
       \/ (capture' = Off /\ UNCHANGED session /\ receiver' \in {receiver, Silent})
  <2>1. Raised = Off
    BY <1>0, <1>1, RaisedFacts
  <2>2. CASE UNCHANGED vars
    BY <2>2 DEF vars
  <2>3. CASE Process
    BY <1>1, <2>1, <2>3 DEF Process, Deliveries, Deliver, DeliverUnavailable, DeliverFails, Raise,
       DrainDone, Connect, Collect, LoopFails, Publish, Health, Disconnect, Commit
  <2>4. CASE Receive \/ Heartbeat \/ EndWindow \/ NextWindow \/ Crash
    BY <1>1, <2>4 DEF Receive, Heartbeat, EndWindow, NextWindow, Crash
  <2> QED
    BY <2>2, <2>3, <2>4 DEF Next
<1> QED
  BY <1>2, <1>3, <1>4, <1>5

LEMMA SessionStep == [Next]_vars => session' \in {session, session + 1}
BY DEF Next, vars, Process, Deliveries, Receive, Heartbeat, Start, Connect, Collect,
   LoopFails, Publish, Health, Disconnect, Commit, DrainDone, Deliver, DeliverUnavailable,
   DeliverFails, EndWindow, NextWindow, Crash

\* Manifests come from Commit alone.
LEMMA NewObjects ==
    ASSUME CaptureInv, [Next]_vars, NEW o \in spool' \cup store', IsManifest(o)
    PROVE  \/ o \in spool \cup store
           \/ Commit /\ o = Manifest(session, capture.batches, capture.kind)
                     /\ capture' = [capture EXCEPT !.pc = "deliver", !.after = "off"]
<1>1. CASE Publish
  <2>1. CASE Buffered > 0 /\ spool' = spool \cup {NextBatch}
    BY <1>1, <2>1, NextBatchFacts, BatchIsNoManifest DEF Publish
  <2>2. CASE UNCHANGED spool
    BY <1>1, <2>2 DEF Publish
  <2>3. Buffered >= BatchSize => Buffered > 0
    <3>1. Buffered \in Int
      BY LastOfType DEF Buffered, LastBatched, LastOf, Captures, CaptureInv, Types
    <3> QED
      BY <3>1, CaptureConstants
  <2> QED
    BY <1>1, <2>1, <2>2, <2>3 DEF Publish
<1>2. CASE Commit
  BY <1>2 DEF Commit
<1>3. ASSUME NEW x \in todo, Deliver(x) \/ DeliverUnavailable(x) \/ DeliverFails(x)
      PROVE  o \in spool \cup store
  <2>1. x \in spool
    BY <1>3 DEF CaptureInv, Control
  <2> QED
    BY <1>3, <2>1 DEF Deliver, DeliverUnavailable, DeliverFails
<1>4. CASE UNCHANGED <<spool, store>>
  BY <1>4
<1> QED
  BY <1>1, <1>2, <1>3, <1>4 DEF Next, vars, Process, Deliveries, Receive, Heartbeat, Start, Connect,
     Collect, LoopFails, Health, Disconnect, DrainDone, EndWindow, NextWindow, Crash

LEMMA ManifestedStep == CaptureInv /\ [Next]_vars => Manifested'
<1> SUFFICES ASSUME CaptureInv, [Next]_vars, NEW o \in spool' \cup store', IsManifest(o)
             PROVE  Committed(o)'
  BY DEF Manifested, IsManifest
<1>0. /\ session \in Nat /\ capture \in Captures /\ receiver.received \in Nat
      /\ Control /\ Running
  BY DEF CaptureInv, Types, Receivers
<1>1. CASE o \in spool \cup store
  <2>1. Committed(o)
    BY <1>1 DEF CaptureInv, Manifested
  <2>2. o \in AnyManifest
    BY <1>1, BatchIsNoManifest DEF CaptureInv, Types, Objects
  <2>3. o.session \in Nat
    BY <2>2 DEF AnyManifest
  <2>4. Staged(o.batches)'
    BY <2>1, StillStaged DEF Committed, Staged
  <2>5. Chained(o.batches)' /\ o.session <= session'
    BY <1>0, <2>1, <2>3, SessionStep DEF Committed, Chained, Bound
  <2>6. CASE o.session = session'
    <3>1. o.session = session /\ session' = session /\ Finished
      BY <1>0, <2>1, <2>3, <2>6, SessionStep DEF Committed
    <3>2. Finished' /\ receiver'.received \in {receiver.received, 0}
      BY <1>0, <3>1, FinishedStep
    <3>3. o.kind = Clean => receiver.received \in {0, LastOf(o.batches)}
      BY <2>1, <3>1 DEF Committed
    <3>4. LastOf(o.batches)' = LastOf(o.batches)
      BY DEF LastOf
    <3> QED
      BY <2>4, <2>5, <3>2, <3>3, <3>4 DEF Committed
  <2>7. CASE o.session # session'
    BY <2>4, <2>5, <2>7 DEF Committed
  <2> QED
    BY <2>6, <2>7
<1>2. CASE Commit /\ o = Manifest(session, capture.batches, capture.kind)
                  /\ capture' = [capture EXCEPT !.pc = "deliver", !.after = "off"]
  <2>1. /\ o.session = session /\ o.batches = capture.batches /\ o.kind = capture.kind
    BY <1>2 DEF Manifest
  <2>2. Staged(o.batches)'
    BY <1>0, <2>1, StillStaged DEF Running, Staged
  <2>3. Chained(o.batches)' /\ LastOf(o.batches)' = LastOf(capture.batches)
    BY <1>0, <2>1 DEF Running, Chained, Bound, LastOf
  <2>4. Finished' /\ UNCHANGED <<session, receiver>>
    BY <1>0, <1>2 DEF Commit, Finished, Captures
  <2>5. capture.kind = Clean => LastOf(capture.batches) = receiver.received
    BY <1>0, <1>2 DEF Commit, Control, Looping, Ending, Connecting, Finished, Running
  <2> QED
    BY <1>0, <2>1, <2>2, <2>3, <2>4, <2>5 DEF Committed
<1> QED
  BY <1>1, <1>2, NewObjects

\* A manifest is delivered when only manifests are left in the spool, so its
\* batches are in the store.
LEMMA DeliveredAfterBatches ==
    ASSUME CaptureInv, NEW o \in todo, Due(o), IsManifest(o)
    PROVE  \A i \in DOMAIN o.batches : o.batches[i] \in store
<1>1. todo = spool /\ o \in spool
  BY DEF CaptureInv, Control
<1>2. Staged(o.batches) /\ o \in AnyManifest
  BY <1>1, BatchIsNoManifest DEF CaptureInv, Manifested, Committed, Types, Objects
<1>3. ASSUME NEW i \in DOMAIN o.batches PROVE o.batches[i] \in store
  <2>1. o.batches[i] \in AnyBatch
    BY <1>2, <1>3 DEF AnyManifest
  <2>2. o.batches[i] \notin spool
    BY <1>1, <2>1, BatchIsNoManifest DEF Due
  <2> QED
    BY <1>2, <1>3, <2>2 DEF Staged
<1> QED
  BY <1>3

LEMMA CommitsStep == CaptureInv /\ [Next]_vars => ManifestCommitsItsBatches'
<1> SUFFICES ASSUME CaptureInv, [Next]_vars, NEW o \in store', IsManifest(o),
                    NEW i \in DOMAIN o.batches
             PROVE  o.batches[i] \in store'
  BY DEF ManifestCommitsItsBatches, IsManifest
<1>1. store \subseteq store' /\ (o \in store \/ (o \in todo /\ Due(o)))
  BY DEF Next, vars, Process, Deliveries, Receive, Heartbeat, Start, Connect, Collect,
     LoopFails, Publish, Health, Disconnect, Commit, DrainDone, Deliver, DeliverUnavailable,
     DeliverFails, EndWindow, NextWindow, Crash
<1> QED
  BY <1>1, DeliveredAfterBatches DEF CaptureInv, ManifestCommitsItsBatches

LEMMA StepInv == CaptureInv /\ [Next]_vars => CaptureInv'
BY TypesStep, ControlStep, RunningStep, ManifestedStep, CommitsStep DEF CaptureInv

LEMMA Invariant == Spec => []CaptureInv
BY InitInv, StepInv, PTL DEF Spec

\* Every manifest in the store finds its batches there, and a clean one accounts
\* for every message the receiver queued, for every size and bound: the spool's
\* order and the final drain and flush of capture_stream are enough, whatever
\* fails, however often the process crashes.
THEOREM Complete == Spec => []ManifestsAreComplete
<1>1. ASSUME CaptureInv PROVE CleanIsDrained
  <2> SUFFICES ASSUME NEW o \in spool \cup store,
                      IsManifest(o), o.session = session, o.kind = Clean
               PROVE  /\ \A i \in DOMAIN o.batches :
                            o.batches[i].first = (IF i - 1 = 0 THEN 0 ELSE o.batches[i - 1].last) + 1
                      /\ receiver.received
                            \in {0, IF Len(o.batches) = 0 THEN 0 ELSE o.batches[Len(o.batches)].last}
    BY DEF CleanIsDrained
  <2>1. Committed(o) /\ o.batches \in Seq(AnyBatch)
    BY <1>1, BatchIsNoManifest DEF CaptureInv, Manifested, Types, Objects, AnyManifest
  <2>2. Len(o.batches) = 0 <=> o.batches = <<>>
    BY <2>1
  <2> QED
    BY <2>1, <2>2 DEF Committed, Chained, Bound, LastOf
<1>2. CaptureInv => ManifestsAreComplete
  BY <1>1 DEF CaptureInv, ManifestsAreComplete
<1> QED
  BY <1>2, Invariant, PTL

\* What was staged is never lost (CaptureSpool.stage and drain: an entry leaves
\* the disk only after the store has it).
THEOREM Survival == Spec => StagedSurvives
BY NothingLost, PTL DEF Spec, StagedSurvives
=============================================================================
