--------------------------- MODULE DeliveryProofs ---------------------------
(***************************************************************************)
(* No alert is delivered twice and no recorded status lies, for any number *)
(* of selections and notifiers, any timing and any lease.                  *)
(*                                                                         *)
(* The invariant follows one attempt: a busy notifier owns the latest      *)
(* attempt of its record, alone; a request on the wire belongs to that     *)
(* attempt and nothing was delivered before it; and what a notifier is     *)
(* about to record agrees with the chat.                                   *)
(***************************************************************************)
EXTENDS RealtimeWorker, TLAPS

Row == [status : Final \cup {"ABSENT", "PENDING", "SENDING"},
        attempts : Nat, available : Nat, until : Nat]
Process ==
    {Resting} \cup [pc : {"claimed"}, request : Requests]
    \cup [pc : {"checked", "sending"}, request : Requests, window : Nat]
    \cup [pc : {"finish"}, request : Requests, status : Final \cup {"PENDING"},
          delay : Nat, limited : BOOLEAN]

-----------------------------------------------------------------------------
\* Type correctness.

Leases(row) == row.status = "SENDING" <=> row.until # 0

\* TypeOK, record by record and process by process.
TypeParts ==
    /\ now \in Nat
    /\ rows = [s \in Selections |-> rows[s]]
    /\ \A s \in Selections : rows[s] \in Row /\ Leases(rows[s])
    /\ control \in [cooldown : Nat, invalidated : Nat]
    /\ notifier = [n \in Notifiers |-> notifier[n]]
    /\ \A n \in Notifiers : notifier[n] \in Process
    /\ wire \subseteq Requests
    /\ delivered \in [Selections -> Nat]

LEMMA Join == TypeParts => TypeOK
<1> SUFFICES ASSUME TypeParts PROVE TypeOK
  OBVIOUS
<1>1. rows \in [Selections -> Row] /\ notifier \in [Notifiers -> Process]
  BY DEF TypeParts
<1> QED
  BY <1>1 DEF TypeParts, TypeOK, Row, Process, Leases

LEMMA InitType == Init => TypeParts
<1> SUFFICES ASSUME Init PROVE TypeParts
  OBVIOUS
<1>1. NoRow \in Row /\ Leases(NoRow)
  BY DEF NoRow, Row, Leases
<1>2. Resting \in Process
  BY DEF Process
<1> QED
  BY <1>1, <1>2 DEF Init, TypeParts

LEMMA FreshRow ==
    ASSUME NEW s, now \in Nat
    PROVE  LET row == [NoRow EXCEPT !.status = FirstStatus(s), !.available = now]
           IN  /\ row \in Row /\ Leases(row)
               /\ row.status \in {"EXPIRED", "FAILED", "PENDING"}
BY DEF NoRow, Row, FirstStatus, Leases, Final

LEMMA EnqueueType ==
    ASSUME TypeParts, NEW s \in Selections, Enqueue(s) PROVE TypeParts'
<1> DEFINE row == [NoRow EXCEPT !.status = FirstStatus(s), !.available = now]
<1>1. row \in Row /\ Leases(row)
  BY FreshRow DEF TypeParts
<1>2. rows' = [rows EXCEPT ![s] = row]
  BY DEF Enqueue
<1> HIDE DEF row
<1>3. \A t \in Selections : rows'[t] \in Row /\ Leases(rows'[t])
  BY <1>1, <1>2 DEF TypeParts
<1>4. rows' = [t \in Selections |-> rows'[t]]
  BY <1>2 DEF TypeParts
<1> QED
  BY <1>3, <1>4 DEF Enqueue, TypeParts

LEMMA InvalidateType ==
    ASSUME TypeParts, NEW at \in Disconnects, Invalidate(at) PROVE TypeParts'
<1>1. \A s \in Selections : rows'[s] \in Row /\ Leases(rows'[s])
  BY DEF Invalidate, TypeParts, Row, Leases, Final
<1>2. rows' = [s \in Selections |-> rows'[s]]
  BY DEF Invalidate
<1>3. control' \in [cooldown : Nat, invalidated : Nat]
  BY DeliveryConstants DEF Invalidate, TypeParts
<1> QED
  BY <1>1, <1>2, <1>3 DEF Invalidate, TypeParts

LEMMA SweptType ==
    ASSUME TypeParts, NEW s \in Selections
    PROVE  /\ Swept(s) \in Row /\ Leases(Swept(s))
           /\ Swept(s).attempts = rows[s].attempts
BY DEF Swept, TypeParts, Row, Leases, Final

LEMMA ClaimNoneType ==
    ASSUME TypeParts, NEW n \in Notifiers, ClaimNone(n) PROVE TypeParts'
BY SweptType DEF ClaimNone, TypeParts

\* Steps that give one process a new state.
LEMMA OneProcess ==
    ASSUME TypeParts, NEW n \in Notifiers, NEW v \in Process,
           notifier' = [notifier EXCEPT ![n] = v]
    PROVE  /\ notifier' = [m \in Notifiers |-> notifier'[m]]
           /\ \A m \in Notifiers : notifier'[m] \in Process
           /\ notifier'[n] = v
           /\ \A m \in Notifiers : m # n => notifier'[m] = notifier[m]
BY DEF TypeParts

LEMMA RequestType ==
    ASSUME TypeParts, NEW n \in Notifiers, notifier[n].pc # "idle"
    PROVE  /\ notifier[n].request \in Requests
           /\ notifier[n].pc \in {"claimed", "checked", "sending", "finish"}
BY DEF TypeParts, Process, Resting

LEMMA FinishType ==
    ASSUME TypeParts, NEW n \in Notifiers, notifier[n].pc = "finish"
    PROVE  /\ notifier[n].status \in Final \cup {"PENDING"}
           /\ notifier[n].delay \in Nat
BY DEF TypeParts, Process, Resting

\* The row that claim writes.
Taken(row, attempts, until) ==
    [row EXCEPT !.status = "SENDING", !.until = until, !.attempts = attempts]

LEMMA TakenRow ==
    ASSUME NEW row \in Row, NEW attempts \in Nat, NEW until \in Nat, until # 0
    PROVE  /\ Taken(row, attempts, until) \in Row
           /\ Leases(Taken(row, attempts, until))
           /\ Taken(row, attempts, until).status = "SENDING"
           /\ Taken(row, attempts, until).attempts = attempts
BY DEF Row, Leases, Taken

LEMMA ClaimType ==
    ASSUME TypeParts, NEW n \in Notifiers, NEW s \in Selections,
           rows' = [t \in Selections |->
              IF t = s THEN [rows[s] EXCEPT !.status = "SENDING", !.until = now + Lease,
                                            !.attempts = rows[s].attempts + 1]
              ELSE Swept(t)],
           notifier' = [notifier EXCEPT
              ![n] = [pc |-> "claimed", request |-> Request(s, rows[s].attempts + 1)]],
           UNCHANGED <<now, control, wire, delivered>>
    PROVE  TypeParts'
<1> DEFINE row == Taken(rows[s], rows[s].attempts + 1, now + Lease)
<1>0. rows[s] \in Row /\ now + Lease \in Nat /\ now + Lease # 0
  BY DeliveryConstants DEF TypeParts
<1>a. rows[s].attempts + 1 \in Nat
  BY <1>0 DEF Row
<1>1. row \in Row /\ Leases(row)
  BY <1>0, <1>a, TakenRow
<1>2. rows' = [t \in Selections |-> IF t = s THEN row ELSE Swept(t)]
  BY DEF Taken
<1> HIDE DEF row
<1>3. \A t \in Selections : rows'[t] \in Row /\ Leases(rows'[t])
  BY <1>1, <1>2, SweptType
<1>4. rows' = [t \in Selections |-> rows'[t]]
  BY <1>2
<1>5. [pc |-> "claimed", request |-> Request(s, rows[s].attempts + 1)] \in Process
  BY DEF Process, Requests, Request, TypeParts, Row
<1> QED
  BY <1>3, <1>4, <1>5, OneProcess DEF TypeParts

LEMMA FinishingType ==
    ASSUME NEW r \in Requests, NEW status \in Final \cup {"PENDING"}, NEW delay \in Nat,
           NEW limited \in BOOLEAN
    PROVE  Finishing(r, status, delay, limited) \in Process
BY DEF Finishing, Process

LEMMA WillFinishType ==
    ASSUME TypeParts, NEW n \in Notifiers, notifier[n].pc # "idle",
           NEW status \in Final \cup {"PENDING"}, NEW delay \in Nat, NEW limited \in BOOLEAN,
           WillFinish(n, status, delay, limited)
    PROVE  /\ notifier' = [m \in Notifiers |-> notifier'[m]]
           /\ \A m \in Notifiers : notifier'[m] \in Process
           /\ notifier'[n] = Finishing(notifier[n].request, status, delay, limited)
           /\ \A m \in Notifiers : m # n => notifier'[m] = notifier[m]
<1>1. notifier' = [notifier EXCEPT
          ![n] = Finishing(notifier[n].request, status, delay, limited)]
  BY DEF WillFinish
<1> QED
  BY <1>1, RequestType, FinishingType, OneProcess

LEMMA InFlightType ==
    ASSUME TypeParts, NEW pc \in {"checked", "sending"}, NEW r \in Requests, NEW window \in Nat
    PROVE  /\ InFlight(pc, r, window) \in Process
           /\ InFlight(pc, r, window).pc = pc
           /\ InFlight(pc, r, window).request = r
           /\ InFlight(pc, r, window).window = window
BY DEF InFlight, Process

LEMMA DispatchType ==
    ASSUME TypeParts, NEW n \in Notifiers, Dispatch(n) PROVE TypeParts'
<1> DEFINE r == notifier[n].request
<1>0. notifier[n].pc # "idle" /\ r \in Requests
  BY RequestType DEF Dispatch
<1>1. CASE WillFinish(n, "FAILED", 0, FALSE)
  BY <1>0, <1>1, WillFinishType DEF Dispatch, TypeParts, Final
<1>2. CASE WillFinish(n, "EXPIRED", 0, FALSE)
  BY <1>0, <1>2, WillFinishType DEF Dispatch, TypeParts, Final
<1>3. CASE notifier' = [notifier EXCEPT ![n] = InFlight("checked", r, now + Timeout)]
  <2>1. now + Timeout \in Nat
    BY DeliveryConstants DEF TypeParts
  <2>2. InFlight("checked", r, now + Timeout) \in Process
    BY <1>0, <2>1, InFlightType
  <2> QED
    BY <1>0, <1>3, <2>2, OneProcess DEF Dispatch, TypeParts
<1> QED
  BY <1>1, <1>2, <1>3 DEF Dispatch

\* The window a notifier reserved.
LEMMA WindowType ==
    ASSUME TypeParts, NEW n \in Notifiers, notifier[n].pc \in {"checked", "sending"}
    PROVE  notifier[n].window \in Nat
BY DEF TypeParts, Process, Resting

LEMMA SendType ==
    ASSUME TypeParts, NEW n \in Notifiers, Send(n) PROVE TypeParts'
<1> DEFINE r == notifier[n].request
<1>0. notifier[n].pc = "checked" /\ r \in Requests /\ notifier[n].window \in Nat
  BY RequestType, WindowType DEF Send
<1>1. InFlight("sending", r, notifier[n].window) \in Process
  BY <1>0, InFlightType
<1> QED
  BY <1>0, <1>1, OneProcess DEF Send, TypeParts

\* What Telegram's answer does to the process that waits for it.
Answered(r, status) ==
    \/ UNCHANGED notifier
    \/ \E n \in Notifiers : Awaits(n, r) /\ \E delay \in Nat, limited \in BOOLEAN :
          WillFinish(n, status, delay, limited)

LEMMA AnsweredType ==
    ASSUME TypeParts, NEW r, NEW status \in Final \cup {"PENDING"}, Answered(r, status)
    PROVE  /\ notifier' = [m \in Notifiers |-> notifier'[m]]
           /\ \A m \in Notifiers : notifier'[m] \in Process
<1>1. CASE UNCHANGED notifier
  BY <1>1 DEF TypeParts
<1>2. CASE ~UNCHANGED notifier
  <2>1. PICK n \in Notifiers, delay \in Nat, limited \in BOOLEAN :
           Awaits(n, r) /\ WillFinish(n, status, delay, limited)
    BY <1>2 DEF Answered
  <2> QED
    BY <2>1, WillFinishType DEF Awaits
<1> QED
  BY <1>1, <1>2

\* The three answers, as far as types and the invariant see them.
LEMMA AnswerCases ==
    ASSUME NEW r, Telegram(r)
    PROVE  /\ wire' = wire \ {r}
           /\ UNCHANGED <<now, rows, control>>
           /\ \/ /\ delivered' = [delivered EXCEPT ![r.selection] = @ + 1]
                 /\ Answered(r, "SENT")
              \/ /\ UNCHANGED delivered
                 /\ \E status \in {"FAILED", "PENDING"} : Answered(r, status)
<1>1. CASE Accept(r)
  BY <1>1 DEF Accept, Answered
<1>2. CASE Reject(r)
  BY <1>2 DEF Reject, Answered
<1>3. CASE \E d \in RetryAfters : RateLimit(r, d)
  <2>1. PICK d \in RetryAfters : RateLimit(r, d)
    BY <1>3
  <2>2. CASE UNCHANGED notifier
    BY <2>1, <2>2 DEF RateLimit, Answered
  <2>3. CASE ~UNCHANGED notifier
    <3>1. PICK n \in Notifiers :
             /\ Awaits(n, r)
             /\ WillFinish(n, IF r.token >= MaxAttempts[n] THEN "FAILED" ELSE "PENDING",
                           d, TRUE)
      BY <2>1, <2>3 DEF RateLimit
    <3>2. d \in Nat
      BY DeliveryConstants
    <3>3. PICK status \in {"FAILED", "PENDING"} : WillFinish(n, status, d, TRUE)
      BY <3>1
    <3>4. Answered(r, status)
      BY <3>1, <3>2, <3>3 DEF Answered
    <3> QED
      BY <2>1, <3>4 DEF RateLimit
  <2> QED
    BY <2>2, <2>3
<1> QED
  BY <1>1, <1>2, <1>3 DEF Telegram

LEMMA TelegramType ==
    ASSUME TypeParts, NEW r \in wire, Telegram(r) PROVE TypeParts'
<1>1. PICK status \in {"SENT", "FAILED", "PENDING"} : Answered(r, status)
  BY AnswerCases
<1>2. /\ notifier' = [m \in Notifiers |-> notifier'[m]]
      /\ \A m \in Notifiers : notifier'[m] \in Process
  BY <1>1, AnsweredType DEF Final
<1>3. delivered' \in [Selections -> Nat]
  BY AnswerCases DEF TypeParts, Requests
<1> QED
  BY <1>2, <1>3, AnswerCases DEF TypeParts

LEMMA GiveUpType ==
    ASSUME TypeParts, NEW n \in Notifiers, GiveUp(n) PROVE TypeParts'
<1>1. "UNKNOWN" \in Final \cup {"PENDING"} /\ notifier[n].pc # "idle"
  BY DEF Final, GiveUp
<1> QED
  BY <1>1, WillFinishType DEF GiveUp, TypeParts

LEMMA AbandonType ==
    ASSUME TypeParts, NEW n \in Notifiers, Abandon(n) PROVE TypeParts'
<1>1. Resting \in Process
  BY DEF Process
<1> QED
  BY <1>1, OneProcess DEF Abandon, TypeParts

\* The row that finish writes.
LEMMA FinishedRow ==
    ASSUME TypeParts, NEW n \in Notifiers, notifier[n].pc = "finish"
    PROVE  LET f == notifier[n]
               s == f.request.selection
               row == [rows[s] EXCEPT !.status = FinalStatus(f), !.until = 0,
                                      !.available = now + f.delay]
           IN  /\ s \in Selections /\ row \in Row /\ Leases(row)
               /\ row.status = FinalStatus(f) /\ row.attempts = rows[s].attempts
<1> DEFINE f == notifier[n]
           s == f.request.selection
<1>1. s \in Selections
  BY RequestType DEF Requests
<1>2. FinalStatus(f) \in Final \cup {"PENDING"}
  BY FinishType DEF FinalStatus, Final
<1>3. now + f.delay \in Nat
  BY FinishType DEF TypeParts
<1>4. rows[s] \in Row
  BY <1>1 DEF TypeParts
<1> QED
  BY <1>1, <1>2, <1>3, <1>4 DEF Row, Leases, Final

LEMMA FinishTypeParts ==
    ASSUME TypeParts, NEW n \in Notifiers, Finish(n) PROVE TypeParts'
<1> DEFINE f == notifier[n]
           s == f.request.selection
           row == [rows[s] EXCEPT !.status = FinalStatus(f), !.until = 0,
                                  !.available = now + f.delay]
<1>0. f.pc = "finish"
  BY DEF Finish
<1>1. s \in Selections /\ row \in Row /\ Leases(row)
  BY <1>0, FinishedRow
<1>2. Resting \in Process
  BY DEF Process
<1>3. CASE Leased(f.request)
  <2>1. rows' = [rows EXCEPT ![s] = row]
    BY <1>3 DEF Finish
  <2>2. control' = Cooled(f)
    BY <1>3 DEF Finish
  <2>3. control' \in [cooldown : Nat, invalidated : Nat]
    BY <1>0, <2>2, FinishType DEF Cooled, TypeParts
  <2> HIDE DEF row
  <2>4. \A t \in Selections : rows'[t] \in Row /\ Leases(rows'[t])
    BY <1>1, <2>1 DEF TypeParts
  <2>5. rows' = [t \in Selections |-> rows'[t]]
    BY <2>1 DEF TypeParts
  <2> QED
    BY <1>2, <2>3, <2>4, <2>5, OneProcess DEF Finish, TypeParts
<1>4. CASE ~Leased(f.request)
  BY <1>2, <1>4, OneProcess DEF Finish, TypeParts
<1> QED
  BY <1>3, <1>4

LEMMA TypeStep == TypeParts /\ [Next]_vars => TypeParts'
<1> SUFFICES ASSUME TypeParts, [Next]_vars PROVE TypeParts'
  OBVIOUS
<1>1. ASSUME NEW s \in Selections, Enqueue(s) PROVE TypeParts'
  BY <1>1, EnqueueType
<1>2. ASSUME NEW at \in Disconnects, Invalidate(at) PROVE TypeParts'
  BY <1>2, InvalidateType
<1>3. ASSUME NEW n \in Notifiers, Work(n) \/ Abandon(n) PROVE TypeParts'
  <2>1. CASE Claim(n)
    BY <2>1, ClaimType DEF Claim
  <2> QED
    BY <1>3, <2>1, ClaimNoneType, DispatchType, SendType, GiveUpType, FinishTypeParts, AbandonType
    DEF Work
<1>4. ASSUME NEW r \in wire, Telegram(r) PROVE TypeParts'
  BY <1>4, TelegramType
<1>5. CASE Tick
  BY <1>5 DEF Tick, TypeParts
<1>6. CASE UNCHANGED vars
  BY <1>6 DEF vars, TypeParts
<1> QED
  BY <1>1, <1>2, <1>3, <1>4, <1>5, <1>6 DEF Next

\* Every reachable state is well typed, and a record has a lease exactly while
\* it is SENDING, as the table's CHECK demands of every statement of the
\* repository (claim, _finish, invalidate).
THEOREM TypeCorrect == Spec => []TypeOK
BY InitType, TypeStep, Join, PTL DEF Spec

-----------------------------------------------------------------------------
\* The inductive invariant.

InDoubt == {"SENDING", "UNKNOWN"}

Busy(n) == notifier[n].pc # "idle"
Target(n) == notifier[n].request.selection

\* A busy notifier owns the latest attempt of a record that is in doubt.
Attached(n) ==
    Busy(n) => /\ notifier[n].pc \in {"claimed", "checked", "sending", "finish"}
               /\ notifier[n].request \in Requests
               /\ rows[Target(n)].status \in InDoubt
               /\ rows[Target(n)].attempts = notifier[n].request.token

Alone(n, m) == n # m /\ Busy(n) /\ Busy(m) => Target(n) # Target(m)

\* Nothing was sent for an attempt before its notifier sends.
Unsent(n) ==
    notifier[n].pc \in {"claimed", "checked"} =>
       delivered[Target(n)] = 0 /\ notifier[n].request \notin wire

\* What a notifier is about to record agrees with the chat.
Outcome(n) ==
    notifier[n].pc = "finish" =>
       /\ notifier[n].status \in Final \cup {"PENDING"}
       /\ notifier[n].status = "SENT" => delivered[Target(n)] = 1
       /\ notifier[n].status \in {"PENDING", "FAILED", "EXPIRED"} => delivered[Target(n)] = 0
       /\ notifier[n].status # "UNKNOWN" => notifier[n].request \notin wire

\* A request on the wire is its record's latest attempt and the first that can
\* be delivered.
OnWire(r) ==
    /\ rows[r.selection].status \in InDoubt
    /\ rows[r.selection].attempts = r.token
    /\ delivered[r.selection] = 0

Recorded(s) ==
    /\ delivered[s] \in {0, 1}
    /\ delivered[s] = 1 => rows[s].status \in InDoubt \cup {"SENT"}
    /\ rows[s].status = "SENT" => delivered[s] = 1

DeliveryInv ==
    /\ TypeParts
    /\ \A n \in Notifiers : Attached(n)
    /\ \A n, m \in Notifiers : Alone(n, m)
    /\ \A n \in Notifiers : Unsent(n)
    /\ \A n \in Notifiers : Outcome(n)
    /\ \A r \in wire : OnWire(r)
    /\ \A s \in Selections : Recorded(s)

\* A record's change that no notifier or request in flight can notice.
Harmless(s) ==
    \/ /\ rows'[s].status = rows[s].status
       /\ rows'[s].attempts = rows[s].attempts
    \/ /\ rows[s].status = "SENDING" /\ rows'[s].status = "UNKNOWN"
       /\ rows'[s].attempts = rows[s].attempts
    \/ /\ rows[s].status \notin InDoubt \cup {"SENT"}
       /\ rows'[s].status \notin InDoubt \cup {"SENT"}

LEMMA InitInv == Init => DeliveryInv
<1> SUFFICES ASSUME Init PROVE DeliveryInv
  OBVIOUS
<1>2. TypeParts
  BY InitType
<1>3. \A n \in Notifiers : notifier[n].pc = "idle"
  BY DEF Init, Resting
<1>4. \A n \in Notifiers : Attached(n) /\ Unsent(n) /\ Outcome(n)
  BY <1>3 DEF Attached, Busy, Unsent, Outcome
<1>5. \A n, m \in Notifiers : Alone(n, m)
  BY <1>3 DEF Alone, Busy
<1>6. \A s \in Selections : Recorded(s)
  <2> TAKE s \in Selections
  <2>1. delivered[s] = 0 /\ rows[s].status = "ABSENT"
    BY DEF Init, NoRow
  <2> QED
    BY <2>1 DEF Recorded
<1> QED
  BY <1>2, <1>4, <1>5, <1>6 DEF DeliveryInv, Init

\* The writes of the capture process, the sweep and the clock.
LEMMA HarmlessInv ==
    ASSUME DeliveryInv, TypeParts',
           \A s \in Selections : Harmless(s),
           UNCHANGED <<notifier, wire, delivered>>
    PROVE  DeliveryInv'
<1>2. \A n \in Notifiers : Attached(n)'
  <2> SUFFICES ASSUME NEW n \in Notifiers, Busy(n) PROVE Attached(n)'
    BY DEF Attached, Busy
  <2>1. Attached(n)
    BY DEF DeliveryInv
  <2>2. Target(n) \in Selections
    BY <2>1 DEF Attached, Target, Requests
  <2>3. Harmless(Target(n))
    BY <2>2
  <2> QED
    BY <2>1, <2>3 DEF Attached, Busy, Target, Harmless, InDoubt
<1>3. \A n, m \in Notifiers : Alone(n, m)'
  BY DEF DeliveryInv, Alone, Busy, Target
<1>4. \A n \in Notifiers : Unsent(n)' /\ Outcome(n)'
  BY DEF DeliveryInv, Unsent, Outcome, Target
<1>5. \A r \in wire' : OnWire(r)'
  <2> SUFFICES ASSUME NEW r \in wire PROVE OnWire(r)'
    OBVIOUS
  <2>1. OnWire(r) /\ r.selection \in Selections
    BY DEF DeliveryInv, TypeParts, Requests
  <2> QED
    BY <2>1 DEF OnWire, Harmless, InDoubt
<1>6. \A s \in Selections : Recorded(s)'
  <2> SUFFICES ASSUME NEW s \in Selections PROVE Recorded(s)'
    OBVIOUS
  <2>1. Recorded(s)
    BY DEF DeliveryInv
  <2> QED
    BY <2>1 DEF Recorded, Harmless, InDoubt
<1> QED
  BY <1>2, <1>3, <1>4, <1>5, <1>6 DEF DeliveryInv

LEMMA EnqueueInv ==
    ASSUME DeliveryInv, TypeParts', NEW s \in Selections, Enqueue(s) PROVE DeliveryInv'
<1> DEFINE row == [NoRow EXCEPT !.status = FirstStatus(s), !.available = now]
<1>1. rows[s].status = "ABSENT"
  BY DEF Enqueue, SameClock, NoRow
<1>2. row.status \in {"EXPIRED", "FAILED", "PENDING"}
  BY FreshRow DEF DeliveryInv, TypeParts
<1>3. rows' = [rows EXCEPT ![s] = row]
  BY DEF Enqueue
<1> HIDE DEF row
<1>4. \A t \in Selections : rows'[t] = IF t = s THEN row ELSE rows[t]
  BY <1>3 DEF DeliveryInv, TypeParts
<1>5. \A t \in Selections : Harmless(t)
  BY <1>1, <1>2, <1>4 DEF Harmless, InDoubt
<1> QED
  BY <1>5, HarmlessInv DEF Enqueue

LEMMA InvalidateInv ==
    ASSUME DeliveryInv, TypeParts', NEW at \in Disconnects, Invalidate(at)
    PROVE  DeliveryInv'
<1>1. \A s \in Selections : rows[s] \in Row
  BY DEF DeliveryInv, TypeParts
<1>2. \A s \in Selections : Harmless(s)
  BY <1>1 DEF Invalidate, Harmless, InDoubt, Row
<1> QED
  BY <1>2, HarmlessInv DEF Invalidate

\* The sweep turns a lost lease into UNKNOWN, never back into PENDING.
LEMMA SweptHarmless ==
    ASSUME DeliveryInv, NEW s \in Selections, rows'[s] = Swept(s)
    PROVE  Harmless(s)
<1>1. rows[s] \in Row
  BY DEF DeliveryInv, TypeParts
<1> QED
  BY <1>1 DEF Harmless, Swept, InDoubt, Row

LEMMA ClaimNoneInv ==
    ASSUME DeliveryInv, TypeParts', NEW n \in Notifiers, ClaimNone(n)
    PROVE  DeliveryInv'
<1>1. \A s \in Selections : rows'[s] = Swept(s)
  BY DEF ClaimNone
<1> QED
  BY <1>1, SweptHarmless, HarmlessInv DEF ClaimNone

\* The claimed record was PENDING, so nothing of it is in flight or delivered;
\* the other records are only swept.
LEMMA ClaimInv ==
    ASSUME DeliveryInv, TypeParts', NEW n \in Notifiers, Claim(n)
    PROVE  DeliveryInv'
<1>1. PICK s \in Selections :
         /\ Eligible(s)
         /\ rows' = [t \in Selections |->
              IF t = s THEN [rows[s] EXCEPT !.status = "SENDING", !.until = now + Lease,
                                            !.attempts = rows[s].attempts + 1]
              ELSE Swept(t)]
         /\ notifier' = [notifier EXCEPT
              ![n] = [pc |-> "claimed", request |-> Request(s, rows[s].attempts + 1)]]
  BY DEF Claim, Oldest
<1> DEFINE r == Request(s, rows[s].attempts + 1)
<1>2. rows[s] \in Row /\ rows[s].attempts + 1 \in Nat
      /\ now + Lease \in Nat /\ now + Lease # 0
  BY DeliveryConstants DEF DeliveryInv, TypeParts, Row
<1>3. rows[s].status = "PENDING"
  BY <1>1, <1>2 DEF Eligible, Swept, Row
<1>4. rows'[s].status = "SENDING" /\ rows'[s].attempts = rows[s].attempts + 1
  <2>1. rows'[s] = Taken(rows[s], rows[s].attempts + 1, now + Lease)
    BY <1>1 DEF Taken
  <2>2. PICK row \in Row, attempts \in Nat, until \in Nat :
           row = rows[s] /\ attempts = rows[s].attempts + 1 /\ until = now + Lease
    BY <1>2
  <2>3. rows'[s] = Taken(row, attempts, until) /\ until # 0
    BY <1>2, <2>1, <2>2
  <2>4. /\ Taken(row, attempts, until).status = "SENDING"
        /\ Taken(row, attempts, until).attempts = attempts
    BY DEF Taken, Row
  <2>5. rows'[s].status = "SENDING" /\ rows'[s].attempts = attempts
    BY <2>3, <2>4
  <2> QED
    BY <2>2, <2>5
<1>5. \A t \in Selections : t # s => Harmless(t)
  BY <1>1, SweptHarmless
<1>6. r \in Requests /\ r.selection = s /\ r.token = rows[s].attempts + 1
  BY <1>2 DEF Request, Requests
<1>7. /\ notifier'[n].pc = "claimed" /\ notifier'[n].request = r
      /\ \A m \in Notifiers : m # n => notifier'[m] = notifier[m]
  BY <1>1 DEF DeliveryInv, TypeParts
<1> HIDE DEF r
<1>8. \A m \in Notifiers : Busy(m) => Target(m) \in Selections \ {s}
  <2> SUFFICES ASSUME NEW m \in Notifiers, Busy(m) PROVE Target(m) \in Selections \ {s}
    OBVIOUS
  <2>1. Attached(m)
    BY DEF DeliveryInv
  <2> QED
    BY <1>3, <2>1 DEF Attached, Target, Requests, InDoubt
<1>9. \A q \in wire : q.selection \in Selections \ {s} /\ OnWire(q)
  BY <1>3 DEF DeliveryInv, OnWire, InDoubt, TypeParts, Requests
<1>10. delivered[s] = 0
  BY <1>3 DEF DeliveryInv, Recorded, InDoubt
<1>11. UNCHANGED <<wire, delivered>>
  BY DEF Claim
<1>12. \A m \in Notifiers : Attached(m)'
  <2> SUFFICES ASSUME NEW m \in Notifiers PROVE Attached(m)'
    OBVIOUS
  <2>1. CASE m = n
    BY <1>4, <1>6, <1>7, <2>1 DEF Attached, Busy, Target, InDoubt
  <2>2. CASE m # n /\ Busy(m)
    <3>1. Attached(m) /\ Harmless(Target(m)) /\ notifier'[m] = notifier[m]
      BY <1>5, <1>7, <1>8, <2>2 DEF DeliveryInv
    <3> QED
      BY <2>2, <3>1 DEF Attached, Busy, Target, Harmless, InDoubt
  <2>3. CASE m # n /\ ~Busy(m)
    BY <1>7, <2>3 DEF Attached, Busy
  <2> QED
    BY <2>1, <2>2, <2>3
<1>13. \A m, k \in Notifiers : Alone(m, k)'
  <2> SUFFICES ASSUME NEW m \in Notifiers, NEW k \in Notifiers PROVE Alone(m, k)'
    OBVIOUS
  <2>1. Alone(m, k) /\ Target(n)' = s
    BY <1>6, <1>7 DEF DeliveryInv, Target
  <2>2. \A j \in Notifiers : j # n => Busy(j)' = Busy(j) /\ Target(j)' = Target(j)
    BY <1>7 DEF Busy, Target
  <2> QED
    BY <1>8, <2>1, <2>2 DEF Alone
<1>14. \A m \in Notifiers : Unsent(m)'
  <2> SUFFICES ASSUME NEW m \in Notifiers PROVE Unsent(m)'
    OBVIOUS
  <2>1. CASE m = n
    BY <1>6, <1>7, <1>9, <1>10, <1>11, <2>1 DEF Unsent, Target
  <2>2. CASE m # n
    BY <1>7, <1>11, <2>2 DEF DeliveryInv, Unsent, Target
  <2> QED
    BY <2>1, <2>2
<1>15. \A m \in Notifiers : Outcome(m)'
  BY <1>7, <1>11 DEF DeliveryInv, Outcome, Target
<1>16. \A q \in wire' : OnWire(q)'
  BY <1>5, <1>9, <1>11 DEF OnWire, Harmless, InDoubt
<1>17. \A t \in Selections : Recorded(t)'
  <2> SUFFICES ASSUME NEW t \in Selections PROVE Recorded(t)'
    OBVIOUS
  <2>1. Recorded(t)
    BY DEF DeliveryInv
  <2>2. CASE t = s
    BY <1>4, <1>10, <1>11, <2>2 DEF Recorded, InDoubt
  <2>3. CASE t # s
    BY <1>5, <1>11, <2>1, <2>3 DEF Recorded, Harmless, InDoubt
  <2> QED
    BY <2>2, <2>3
<1> QED
  BY <1>12, <1>13, <1>14, <1>15, <1>16, <1>17 DEF DeliveryInv

-----------------------------------------------------------------------------
\* A request on the wire for a busy notifier's record is that notifier's own.
LEMMA OwnRequest ==
    ASSUME DeliveryInv, NEW n \in Notifiers, Busy(n), NEW q \in wire,
           q.selection = Target(n)
    PROVE  q = notifier[n].request
<1>1. Attached(n) /\ OnWire(q) /\ q \in Requests
  BY DEF DeliveryInv, TypeParts
<1> QED
  BY <1>1 DEF Attached, OnWire, Target, Requests

LEMMA TargetType ==
    ASSUME DeliveryInv, NEW n \in Notifiers, Busy(n)
    PROVE  Target(n) \in Selections /\ notifier[n].request \in Requests
BY DEF DeliveryInv, Attached, Target, Requests

\* A process that forgets its claim disturbs nobody.
LEMMA RestInv ==
    ASSUME DeliveryInv, TypeParts', NEW n \in Notifiers,
           notifier' = [notifier EXCEPT ![n] = Resting],
           UNCHANGED <<rows, wire, delivered>>
    PROVE  DeliveryInv'
<1>1. /\ notifier'[n].pc = "idle"
      /\ \A m \in Notifiers : m # n => notifier'[m] = notifier[m]
  BY DEF DeliveryInv, TypeParts, Resting
<1>2. \A m \in Notifiers : Attached(m)' /\ Unsent(m)' /\ Outcome(m)'
  <2> SUFFICES ASSUME NEW m \in Notifiers PROVE Attached(m)' /\ Unsent(m)' /\ Outcome(m)'
    OBVIOUS
  <2>1. CASE m = n
    BY <1>1, <2>1 DEF Attached, Unsent, Outcome, Busy
  <2>2. CASE m # n
    <3>1. Attached(m) /\ Unsent(m) /\ Outcome(m) /\ notifier'[m] = notifier[m]
      BY <1>1, <2>2 DEF DeliveryInv
    <3> QED
      BY <3>1 DEF Attached, Unsent, Outcome, Busy, Target
  <2> QED
    BY <2>1, <2>2
<1>3. \A m, k \in Notifiers : Alone(m, k)'
  BY <1>1 DEF DeliveryInv, Alone, Busy, Target
<1>4. \A q \in wire' : OnWire(q)'
  BY DEF DeliveryInv, OnWire
<1>5. \A s \in Selections : Recorded(s)'
  BY DEF DeliveryInv, Recorded
<1> QED
  BY <1>2, <1>3, <1>4, <1>5 DEF DeliveryInv

\* A busy process goes on with the same request.
GoesOn(n) ==
    /\ Busy(n) /\ Busy(n)'
    /\ notifier'[n].pc \in {"checked", "sending", "finish"}
    /\ notifier'[n].request = notifier[n].request
    /\ \A m \in Notifiers : m # n => notifier'[m] = notifier[m]

LEMMA GoesOnInv ==
    ASSUME DeliveryInv, NEW n \in Notifiers, GoesOn(n), UNCHANGED rows
    PROVE  /\ \A m \in Notifiers : Attached(m)'
           /\ \A m, k \in Notifiers : Alone(m, k)'
           /\ \A m \in Notifiers : m # n /\ Busy(m) => Target(m) # Target(n)
<1>1. \A m \in Notifiers : Attached(m)'
  <2> SUFFICES ASSUME NEW m \in Notifiers PROVE Attached(m)'
    OBVIOUS
  <2>1. Attached(m)
    BY DEF DeliveryInv
  <2> QED
    BY <2>1 DEF GoesOn, Attached, Busy, Target
<1>2. \A m \in Notifiers : Busy(m)' = Busy(m) /\ (Busy(m) => Target(m)' = Target(m))
  BY DEF GoesOn, Busy, Target
<1>3. \A m, k \in Notifiers : Alone(m, k)'
  BY <1>2 DEF DeliveryInv, Alone
<1>4. \A m \in Notifiers : m # n /\ Busy(m) => Target(m) # Target(n)
  BY DEF DeliveryInv, Alone, GoesOn
<1> QED
  BY <1>1, <1>3, <1>4

LEMMA WillFinishGoesOn ==
    ASSUME TypeParts, NEW n \in Notifiers, Busy(n),
           NEW status \in Final \cup {"PENDING"}, NEW delay \in Nat, NEW limited \in BOOLEAN,
           WillFinish(n, status, delay, limited)
    PROVE  /\ GoesOn(n) /\ notifier'[n].pc = "finish"
           /\ notifier'[n].status = status
<1>1. /\ notifier'[n] = Finishing(notifier[n].request, status, delay, limited)
      /\ \A m \in Notifiers : m # n => notifier'[m] = notifier[m]
  BY WillFinishType DEF Busy
<1>2. /\ notifier'[n].pc = "finish" /\ notifier'[n].status = status
      /\ notifier'[n].request = notifier[n].request
  BY <1>1 DEF Finishing
<1> QED
  BY <1>1, <1>2 DEF GoesOn, Busy

\* A process ends its attempt without an answer to any request.
LEMMA UnansweredInv ==
    ASSUME DeliveryInv, TypeParts', NEW n \in Notifiers, Busy(n),
           NEW status \in Final \cup {"PENDING"},
           WillFinish(n, status, 0, FALSE),
           status = "UNKNOWN" \/ (status \in {"FAILED", "EXPIRED"} /\ notifier[n].pc = "claimed"),
           UNCHANGED <<rows, wire, delivered>>
    PROVE  DeliveryInv'
<1>1. GoesOn(n) /\ notifier'[n].pc = "finish" /\ notifier'[n].status = status
  BY WillFinishGoesOn DEF DeliveryInv
<1>2. \A m \in Notifiers : Unsent(m)' /\ Outcome(m)'
  <2> SUFFICES ASSUME NEW m \in Notifiers PROVE Unsent(m)' /\ Outcome(m)'
    OBVIOUS
  <2>1. Unsent(m) /\ Outcome(m)
    BY DEF DeliveryInv
  <2>2. CASE m = n
    BY <1>1, <2>1, <2>2 DEF GoesOn, Unsent, Outcome, Target
  <2>3. CASE m # n
    BY <1>1, <2>1, <2>3 DEF GoesOn, Unsent, Outcome, Target
  <2> QED
    BY <2>2, <2>3
<1>3. \A q \in wire' : OnWire(q)'
  BY DEF DeliveryInv, OnWire
<1>4. \A s \in Selections : Recorded(s)'
  BY DEF DeliveryInv, Recorded
<1> QED
  BY <1>1, <1>2, <1>3, <1>4, GoesOnInv DEF DeliveryInv

LEMMA DispatchInv ==
    ASSUME DeliveryInv, TypeParts', NEW n \in Notifiers, Dispatch(n)
    PROVE  DeliveryInv'
<1> PICK r : r = notifier[n].request
  OBVIOUS
<1>0. notifier[n].pc = "claimed" /\ Busy(n) /\ UNCHANGED <<rows, wire, delivered>>
  BY DEF Dispatch, Busy
<1>1. CASE WillFinish(n, "FAILED", 0, FALSE)
  BY <1>0, <1>1, UnansweredInv DEF Final
<1>2. CASE WillFinish(n, "EXPIRED", 0, FALSE)
  BY <1>0, <1>2, UnansweredInv DEF Final
<1>3. CASE notifier' = [notifier EXCEPT ![n] = InFlight("checked", r, now + Timeout)]
  <2>1. /\ notifier'[n].pc = "checked" /\ notifier'[n].request = r
        /\ \A m \in Notifiers : m # n => notifier'[m] = notifier[m]
    BY <1>3 DEF DeliveryInv, TypeParts, InFlight
  <2>2. GoesOn(n)
    BY <1>0, <2>1 DEF GoesOn, Busy
  <2>3. \A m \in Notifiers : Unsent(m)' /\ Outcome(m)'
    <3> SUFFICES ASSUME NEW m \in Notifiers PROVE Unsent(m)' /\ Outcome(m)'
      OBVIOUS
    <3>1. Unsent(m) /\ Outcome(m)
      BY DEF DeliveryInv
    <3>2. CASE m = n
      BY <1>0, <2>1, <3>1, <3>2 DEF Unsent, Outcome, Target
    <3>3. CASE m # n
      BY <1>0, <2>1, <3>1, <3>3 DEF Unsent, Outcome, Target
    <3> QED
      BY <3>2, <3>3
  <2>4. \A q \in wire' : OnWire(q)'
    BY <1>0 DEF DeliveryInv, OnWire
  <2>5. \A s \in Selections : Recorded(s)'
    BY <1>0 DEF DeliveryInv, Recorded
  <2> QED
    BY <1>0, <2>2, <2>3, <2>4, <2>5, GoesOnInv DEF DeliveryInv
<1> QED
  BY <1>1, <1>2, <1>3 DEF Dispatch

\* The first request for the attempt, whatever became of its lease meanwhile.
LEMMA SendInv ==
    ASSUME DeliveryInv, TypeParts', NEW n \in Notifiers, Send(n)
    PROVE  DeliveryInv'
<1> PICK r : r = notifier[n].request
  OBVIOUS
<1>0. /\ notifier[n].pc = "checked" /\ Busy(n) /\ UNCHANGED <<rows, delivered>>
      /\ notifier' = [notifier EXCEPT ![n] = InFlight("sending", r, notifier[n].window)]
      /\ wire' = wire \cup {r}
  BY DEF Send, Busy
<1>1. /\ notifier'[n].pc = "sending" /\ notifier'[n].request = r
      /\ \A m \in Notifiers : m # n => notifier'[m] = notifier[m]
  BY <1>0 DEF DeliveryInv, TypeParts, InFlight
<1>2. GoesOn(n)
  BY <1>0, <1>1 DEF GoesOn, Busy
<1>3. Attached(n) /\ Unsent(n)
  BY DEF DeliveryInv
<1>4. \A m \in Notifiers : Unsent(m)' /\ Outcome(m)'
  <2> SUFFICES ASSUME NEW m \in Notifiers PROVE Unsent(m)' /\ Outcome(m)'
    OBVIOUS
  <2>1. Unsent(m) /\ Outcome(m)
    BY DEF DeliveryInv
  <2>2. CASE m = n
    BY <1>1, <2>2 DEF Unsent, Outcome
  <2>3. CASE m # n
    <3>1. notifier'[m] = notifier[m]
      BY <1>1, <2>3
    <3>2. Busy(m) => notifier[m].request # r
      BY <1>0, <1>2, <2>3, GoesOnInv DEF Target
    <3> QED
      BY <1>0, <2>1, <3>1, <3>2 DEF Unsent, Outcome, Target, Busy
  <2> QED
    BY <2>2, <2>3
<1>5. OnWire(r)'
  BY <1>0, <1>3 DEF OnWire, Attached, Unsent, Target
<1>6. \A q \in wire' : OnWire(q)'
  <2> SUFFICES ASSUME NEW q \in wire' PROVE OnWire(q)'
    OBVIOUS
  <2>1. CASE q = r
    BY <1>5, <2>1
  <2>2. CASE q \in wire
    BY <1>0, <2>2 DEF DeliveryInv, OnWire
  <2> QED
    BY <1>0, <2>1, <2>2
<1>7. \A s \in Selections : Recorded(s)'
  BY <1>0 DEF DeliveryInv, Recorded
<1> QED
  BY <1>0, <1>2, <1>4, <1>6, <1>7, GoesOnInv DEF DeliveryInv

LEMMA GiveUpInv ==
    ASSUME DeliveryInv, TypeParts', NEW n \in Notifiers, GiveUp(n) PROVE DeliveryInv'
<1>1. "UNKNOWN" \in Final \cup {"PENDING"} /\ Busy(n)
  BY DEF Final, GiveUp, Busy
<1> QED
  BY <1>1, UnansweredInv DEF GiveUp

\* The process that waits for the answer, if there is one, records what it says.
LEMMA AnsweredGoesOn ==
    ASSUME DeliveryInv, NEW r, NEW status \in Final \cup {"PENDING"}, Answered(r, status)
    PROVE  \/ UNCHANGED notifier
           \/ \E n \in Notifiers :
                 /\ notifier[n].request = r /\ GoesOn(n)
                 /\ notifier'[n].pc = "finish" /\ notifier'[n].status = status
<1>1. CASE UNCHANGED notifier
  BY <1>1
<1>2. CASE ~UNCHANGED notifier
  <2>1. PICK n \in Notifiers, delay \in Nat, limited \in BOOLEAN :
           Awaits(n, r) /\ WillFinish(n, status, delay, limited)
    BY <1>2 DEF Answered
  <2>2. Busy(n) /\ notifier[n].request = r
    BY <2>1 DEF Awaits, Busy
  <2> QED
    BY <2>1, <2>2, WillFinishGoesOn DEF DeliveryInv
<1> QED
  BY <1>1, <1>2

\* An answer takes the request off the wire; if it is the acceptance, the
\* selection is delivered for the first time.
LEMMA TelegramInv ==
    ASSUME DeliveryInv, TypeParts', NEW r \in wire, Telegram(r) PROVE DeliveryInv'
<1>0. r \in Requests /\ r.selection \in Selections /\ OnWire(r)
  BY DEF DeliveryInv, TypeParts, Requests
<1>1. wire' = wire \ {r} /\ UNCHANGED rows
  BY AnswerCases
<1>2. PICK status \in {"SENT", "FAILED", "PENDING"} :
         /\ Answered(r, status)
         /\ \A s \in Selections \ {r.selection} : delivered'[s] = delivered[s]
         /\ status = "SENT" => delivered'[r.selection] = 1
         /\ status # "SENT" => delivered'[r.selection] = 0
  <2>1. CASE /\ delivered' = [delivered EXCEPT ![r.selection] = @ + 1]
             /\ Answered(r, "SENT")
    BY <1>0, <2>1 DEF DeliveryInv, TypeParts, OnWire
  <2>2. CASE UNCHANGED delivered /\ \E st \in {"FAILED", "PENDING"} : Answered(r, st)
    BY <1>0, <2>2 DEF OnWire
  <2> QED
    BY <2>1, <2>2, AnswerCases
<1>3. \/ UNCHANGED notifier
      \/ \E n \in Notifiers :
            /\ notifier[n].request = r /\ GoesOn(n)
            /\ notifier'[n].pc = "finish" /\ notifier'[n].status = status
  BY <1>2, AnsweredGoesOn DEF Final
<1>4. ASSUME NEW m \in Notifiers, Busy(m), Target(m) = r.selection
      PROVE  /\ notifier[m].request = r /\ notifier[m].pc \notin {"claimed", "checked"}
             /\ notifier[m].pc = "finish" => notifier[m].status = "UNKNOWN"
  <2>1. notifier[m].request = r
    BY <1>4, OwnRequest
  <2> QED
    BY <2>1 DEF DeliveryInv, Unsent, Outcome
<1>5. \A q \in wire' : q.selection \in Selections \ {r.selection}
  <2> SUFFICES ASSUME NEW q \in wire' PROVE q.selection \in Selections \ {r.selection}
    OBVIOUS
  <2>1. q \in Requests /\ OnWire(q) /\ q # r
    BY <1>1 DEF DeliveryInv, TypeParts
  <2> QED
    BY <1>0, <2>1 DEF OnWire, Requests
<1>6. \A q \in wire' : OnWire(q)'
  BY <1>1, <1>2, <1>5 DEF DeliveryInv, OnWire
<1>7. \A s \in Selections : Recorded(s)'
  <2> SUFFICES ASSUME NEW s \in Selections PROVE Recorded(s)'
    OBVIOUS
  <2>1. CASE s = r.selection
    BY <1>0, <1>1, <1>2, <2>1 DEF Recorded, OnWire, InDoubt
  <2>2. CASE s # r.selection
    BY <1>1, <1>2, <2>2 DEF DeliveryInv, Recorded
  <2> QED
    BY <2>1, <2>2
\* Processes that the answer does not wake.
<1>8. ASSUME NEW m \in Notifiers, notifier'[m] = notifier[m]
      PROVE  Unsent(m)' /\ Outcome(m)'
  <2>1. CASE Busy(m) /\ Target(m) = r.selection
    BY <1>4, <1>8, <2>1 DEF Unsent, Outcome, Final
  <2>2. CASE Busy(m) /\ Target(m) # r.selection
    <3>1. Unsent(m) /\ Outcome(m) /\ delivered'[Target(m)] = delivered[Target(m)]
      BY <1>2, <2>2, TargetType DEF DeliveryInv
    <3> QED
      BY <1>1, <1>8, <3>1 DEF Unsent, Outcome, Target
  <2>3. CASE ~Busy(m)
    BY <1>8, <2>3 DEF Busy, Unsent, Outcome
  <2> QED
    BY <2>1, <2>2, <2>3
<1>9. CASE UNCHANGED notifier
  <2>1. \A m \in Notifiers : Attached(m)'
    BY <1>1, <1>9 DEF DeliveryInv, Attached, Busy, Target
  <2>2. \A m, k \in Notifiers : Alone(m, k)'
    BY <1>9 DEF DeliveryInv, Alone, Busy, Target
  <2> QED
    BY <1>6, <1>7, <1>8, <1>9, <2>1, <2>2 DEF DeliveryInv
<1>10. CASE ~UNCHANGED notifier
  <2>1. PICK n \in Notifiers :
           /\ notifier[n].request = r /\ GoesOn(n)
           /\ notifier'[n].pc = "finish" /\ notifier'[n].status = status
    BY <1>3, <1>10
  <2>2. Target(n)' = r.selection /\ notifier'[n].request = r
    BY <2>1 DEF Target, GoesOn
  <2>3. Unsent(n)' /\ Outcome(n)'
    BY <1>1, <1>2, <2>1, <2>2 DEF Unsent, Outcome, Final
  <2>4. \A m \in Notifiers : Unsent(m)' /\ Outcome(m)'
    BY <1>8, <2>1, <2>3 DEF GoesOn
  <2> QED
    BY <1>1, <1>6, <1>7, <2>1, <2>4, GoesOnInv DEF DeliveryInv
<1> QED
  BY <1>9, <1>10

\* What finish records is what it holds, except that a retry may expire.
LEMMA FinalStatusCases ==
    ASSUME NEW f
    PROVE  \/ FinalStatus(f) = f.status
           \/ f.status = "PENDING" /\ FinalStatus(f) = "EXPIRED"
BY DEF FinalStatus

LEMMA FinishInv ==
    ASSUME DeliveryInv, TypeParts', NEW n \in Notifiers, Finish(n) PROVE DeliveryInv'
<1> PICK f : f = notifier[n]
  OBVIOUS
<1> PICK s : s = f.request.selection
  OBVIOUS
<1>0. /\ f.pc = "finish" /\ Busy(n) /\ s = Target(n)
      /\ notifier' = [notifier EXCEPT ![n] = Resting]
      /\ UNCHANGED <<wire, delivered>>
  BY DEF Finish, Busy, Target
<1>1. CASE ~Leased(f.request)
  BY <1>0, <1>1, RestInv DEF Finish
<1>2. CASE Leased(f.request)
  <2>1. /\ s \in Selections
        /\ rows'[s].status = FinalStatus(f) /\ rows'[s].attempts = rows[s].attempts
        /\ \A t \in Selections \ {s} : rows'[t] = rows[t]
    <3> DEFINE row == [rows[s] EXCEPT !.status = FinalStatus(f), !.until = 0,
                                      !.available = now + f.delay]
    <3>1. s \in Selections /\ row.status = FinalStatus(f) /\ row.attempts = rows[s].attempts
      BY <1>0, FinishedRow DEF DeliveryInv
    <3>2. rows' = [rows EXCEPT ![s] = row]
      BY <1>2 DEF Finish
    <3> HIDE DEF row
    <3> QED
      BY <3>1, <3>2 DEF DeliveryInv, TypeParts
  <2>2. /\ notifier'[n].pc = "idle"
        /\ \A m \in Notifiers : m # n => notifier'[m] = notifier[m]
    BY <1>0 DEF DeliveryInv, TypeParts, Resting
  <2>3. Outcome(n)
    BY DEF DeliveryInv
  <2>4. \A m \in Notifiers \ {n} : Busy(m) => Target(m) \in Selections \ {s}
    BY <1>0, TargetType DEF DeliveryInv, Alone
  <2>5. \A m \in Notifiers : Attached(m)' /\ Unsent(m)' /\ Outcome(m)'
    <3> SUFFICES ASSUME NEW m \in Notifiers
                 PROVE  Attached(m)' /\ Unsent(m)' /\ Outcome(m)'
      OBVIOUS
    <3>0. Attached(m) /\ Unsent(m) /\ Outcome(m)
      BY DEF DeliveryInv
    <3>1. CASE m = n
      BY <2>2, <3>1 DEF Attached, Unsent, Outcome, Busy
    <3>2. CASE m # n /\ ~Busy(m)
      BY <2>2, <3>2 DEF Attached, Unsent, Outcome, Busy
    <3>3. CASE m # n /\ Busy(m)
      <4>1. notifier'[m] = notifier[m] /\ rows'[Target(m)] = rows[Target(m)]
        BY <2>1, <2>2, <2>4, <3>3
      <4> QED
        BY <1>0, <3>0, <4>1 DEF Attached, Unsent, Outcome, Busy, Target
    <3> QED
      BY <3>1, <3>2, <3>3
  <2>6. \A m, k \in Notifiers : Alone(m, k)'
    BY <2>2 DEF DeliveryInv, Alone, Busy, Target
  <2>7. \A q \in wire' : OnWire(q)'
    <3> SUFFICES ASSUME NEW q \in wire PROVE OnWire(q)'
      BY <1>0
    <3>1. OnWire(q) /\ q.selection \in Selections
      BY DEF DeliveryInv, TypeParts, Requests
    <3>2. CASE q.selection # s
      BY <1>0, <2>1, <3>1, <3>2 DEF OnWire
    <3>3. CASE q.selection = s
      <4>1. q = f.request
        BY <1>0, <3>3, OwnRequest
      <4>2. f.status = "UNKNOWN"
        BY <1>0, <2>3, <4>1 DEF Outcome
      <4> QED
        BY <1>0, <2>1, <3>1, <3>3, <4>2, FinalStatusCases DEF OnWire, InDoubt
    <3> QED
      BY <3>2, <3>3
  <2>8. \A t \in Selections : Recorded(t)'
    <3> SUFFICES ASSUME NEW t \in Selections PROVE Recorded(t)'
      OBVIOUS
    <3>0. Recorded(t)
      BY DEF DeliveryInv
    <3>1. CASE t # s
      BY <1>0, <2>1, <3>0, <3>1 DEF Recorded
    <3>2. CASE t = s
      <4>1. /\ f.status \in Final \cup {"PENDING"}
            /\ f.status = "SENT" => delivered[s] = 1
            /\ f.status \in {"PENDING", "FAILED", "EXPIRED"} => delivered[s] = 0
        BY <1>0, <2>3 DEF Outcome
      <4> QED
        BY <1>0, <2>1, <3>0, <3>2, <4>1, FinalStatusCases DEF Recorded, InDoubt, Final
    <3> QED
      BY <3>1, <3>2
  <2> QED
    BY <2>5, <2>6, <2>7, <2>8 DEF DeliveryInv
<1> QED
  BY <1>1, <1>2

LEMMA AbandonInv ==
    ASSUME DeliveryInv, TypeParts', NEW n \in Notifiers, Abandon(n) PROVE DeliveryInv'
BY RestInv DEF Abandon

LEMMA StutterInv ==
    ASSUME DeliveryInv, TypeParts', UNCHANGED <<rows, notifier, wire, delivered>>
    PROVE  DeliveryInv'
BY HarmlessInv DEF Harmless

LEMMA DeliveryStep == DeliveryInv /\ [Next]_vars => DeliveryInv'
<1> SUFFICES ASSUME DeliveryInv, [Next]_vars PROVE DeliveryInv'
  OBVIOUS
<1>0. TypeParts'
  BY TypeStep DEF DeliveryInv
<1>1. ASSUME NEW s \in Selections, Enqueue(s) PROVE DeliveryInv'
  BY <1>0, <1>1, EnqueueInv
<1>2. ASSUME NEW at \in Disconnects, Invalidate(at) PROVE DeliveryInv'
  BY <1>0, <1>2, InvalidateInv
<1>3. ASSUME NEW n \in Notifiers, Work(n) \/ Abandon(n) PROVE DeliveryInv'
  BY <1>0, <1>3, ClaimNoneInv, ClaimInv, DispatchInv, SendInv, GiveUpInv, FinishInv, AbandonInv
  DEF Work
<1>4. ASSUME NEW r \in wire, Telegram(r) PROVE DeliveryInv'
  BY <1>0, <1>4, TelegramInv
<1>5. CASE Tick
  BY <1>0, <1>5, StutterInv DEF Tick
<1>6. CASE UNCHANGED vars
  BY <1>0, <1>6, StutterInv DEF vars
<1> QED
  BY <1>1, <1>2, <1>3, <1>4, <1>5, <1>6 DEF Next

-----------------------------------------------------------------------------
\* No alert reaches the chat twice, for any number of notifiers, selections
\* and retries, whatever dies, sleeps past its lease or arrives late (claim,
\* may_send, dispatch_one, _finish).
THEOREM Once == Spec => []AtMostOnce
<1>1. DeliveryInv => AtMostOnce
  <2> SUFFICES ASSUME DeliveryInv, NEW s \in Selections PROVE delivered[s] <= 1
    BY DEF AtMostOnce
  <2>1. delivered[s] = 0 \/ delivered[s] = 1
    BY DEF DeliveryInv, Recorded
  <2> QED
    BY <2>1
<1> QED
  BY <1>1, InitInv, DeliveryStep, PTL DEF Spec

\* No recorded status ever contradicts the chat: FAILED, EXPIRED and PENDING
\* mean it was not and will not be delivered by an attempt so far, SENT that it
\* was (dispatch_one's classification of errors, _finish, the sweep of claim).
THEOREM Honest == Spec => []HonestStatus
<1>1. DeliveryInv => HonestStatus
  <2> SUFFICES ASSUME DeliveryInv PROVE HonestStatus
    OBVIOUS
  <2>1. \A s \in Selections : Recorded(s) /\ delivered[s] \in Nat
    BY DEF DeliveryInv, TypeParts
  <2>2. \A r \in wire : OnWire(r)
    BY DEF DeliveryInv
  <2> QED
    BY <2>1, <2>2 DEF HonestStatus, Recorded, OnWire, InDoubt
<1> QED
  BY <1>1, InitInv, DeliveryStep, PTL DEF Spec

-----------------------------------------------------------------------------
\* Record by record, what a step may do: a record in a final status stays as it
\* is, and only an unfenced record is scheduled.
Settled(s) == rows[s].status \in Final => rows'[s] = rows[s]
Admitted(s) == rows'[s].status = "PENDING" =>
    \/ rows[s].status = "PENDING" /\ UNCHANGED control.invalidated
    \/ ~Fenced(s)'

LEMMA SweptSettled ==
    ASSUME TypeParts, NEW s \in Selections, rows'[s] = Swept(s), UNCHANGED control
    PROVE  Settled(s) /\ Admitted(s)
<1>1. rows[s] \in Row
  BY DEF TypeParts
<1> QED
  BY <1>1 DEF Settled, Admitted, Swept, Row, Final

LEMMA RecordStep ==
    ASSUME TypeParts, [Next]_vars, NEW s \in Selections
    PROVE  Settled(s) /\ Admitted(s)
<1>1. ASSUME NEW t \in Selections, Enqueue(t) PROVE Settled(s) /\ Admitted(s)
  <2> DEFINE row == [NoRow EXCEPT !.status = FirstStatus(t), !.available = now]
  <2>1. row.status = FirstStatus(t)
    BY DEF NoRow
  <2>2. rows' = [rows EXCEPT ![t] = row] /\ UNCHANGED <<now, control>>
    BY <1>1 DEF Enqueue
  <2>3. rows[t].status = "ABSENT"
    BY <1>1 DEF Enqueue, SameClock, NoRow
  <2> HIDE DEF row
  <2>4. rows'[s] = IF s = t THEN row ELSE rows[s]
    BY <2>2 DEF TypeParts
  <2> QED
    BY <2>1, <2>2, <2>3, <2>4 DEF Settled, Admitted, FirstStatus, Fenced, Final
<1>2. ASSUME NEW at \in Disconnects, Invalidate(at) PROVE Settled(s) /\ Admitted(s)
  <2> DEFINE through == IF at > control.invalidated THEN at ELSE control.invalidated
  <2>1. rows[s] \in Row
    BY DEF TypeParts
  <2>2. rows'[s] = IF rows[s].status = "PENDING" /\ DecisionAt[s] <= through
                   THEN [rows[s] EXCEPT !.status = "EXPIRED"] ELSE rows[s]
    BY <1>2 DEF Invalidate
  <2>3. control'.invalidated = through
    BY <1>2 DEF Invalidate, TypeParts
  <2> HIDE DEF through
  <2> QED
    BY <2>1, <2>2, <2>3 DEF Settled, Admitted, Fenced, Row, Final
<1>3. ASSUME NEW n \in Notifiers, Work(n) \/ Abandon(n) PROVE Settled(s) /\ Admitted(s)
  <2>1. CASE ClaimNone(n)
    BY <2>1, SweptSettled DEF ClaimNone
  <2>2. CASE Claim(n)
    <3>1. PICK t \in Selections :
             /\ Eligible(t)
             /\ rows' = [u \in Selections |->
                  IF u = t THEN [rows[t] EXCEPT !.status = "SENDING", !.until = now + Lease,
                                                !.attempts = rows[t].attempts + 1]
                  ELSE Swept(u)]
      BY <2>2 DEF Claim, Oldest
    <3>2. rows[t] \in Row
      BY DEF TypeParts
    <3>3. rows[t].status = "PENDING"
      BY <3>1, <3>2 DEF Eligible, Swept, Row
    <3>4. CASE s = t
      <4>1. rows'[s] = Taken(rows[s], rows[s].attempts + 1, now + Lease)
        BY <3>1, <3>4 DEF Taken
      <4>2. PICK attempts, until : rows'[s] = Taken(rows[s], attempts, until)
        BY <4>1
      <4>3. rows'[s].status = "SENDING"
        BY <3>2, <3>4, <4>2 DEF Taken, Row
      <4> QED
        BY <3>3, <3>4, <4>3 DEF Settled, Admitted, Final
    <3>5. CASE s # t
      BY <2>2, <3>1, <3>5, SweptSettled DEF Claim
    <3> QED
      BY <3>4, <3>5
  <2>3. CASE Dispatch(n) \/ Send(n) \/ GiveUp(n) \/ Abandon(n)
    BY <2>3 DEF Dispatch, Send, GiveUp, Abandon, Settled, Admitted
  <2>4. CASE Finish(n)
    <3> PICK f : f = notifier[n]
      OBVIOUS
    <3> PICK t : t = f.request.selection
      OBVIOUS
    <3>1. CASE ~Leased(f.request)
      BY <2>4, <3>1 DEF Finish, Settled, Admitted
    <3>2. CASE Leased(f.request)
      <4> DEFINE row == [rows[t] EXCEPT !.status = FinalStatus(f), !.until = 0,
                                        !.available = now + f.delay]
      <4>1. t \in Selections /\ row.status = FinalStatus(f)
        BY <2>4, FinishedRow DEF Finish
      <4>2. rows' = [rows EXCEPT ![t] = row] /\ control' = Cooled(f)
        BY <2>4, <3>2 DEF Finish
      <4>3. control'.invalidated = control.invalidated
        BY <4>2 DEF Cooled, TypeParts
      <4>4. rows[t].status = "SENDING"
        BY <3>2 DEF Leased, Holds
      <4> HIDE DEF row
      <4>5. rows'[s] = IF s = t THEN row ELSE rows[s]
        BY <4>1, <4>2 DEF TypeParts
      <4>6. FinalStatus(f) = "PENDING" => ~Fenced(t)
        BY DEF FinalStatus
      <4> QED
        BY <4>1, <4>3, <4>4, <4>5, <4>6 DEF Settled, Admitted, Fenced, Final
    <3> QED
      BY <3>1, <3>2
  <2> QED
    BY <1>3, <2>1, <2>2, <2>3, <2>4 DEF Work
<1>4. ASSUME NEW r \in wire, Telegram(r) PROVE Settled(s) /\ Admitted(s)
  BY <1>4, AnswerCases DEF Settled, Admitted
<1>5. CASE Tick
  BY <1>5 DEF Tick, Settled, Admitted
<1>6. CASE UNCHANGED vars
  BY <1>6 DEF vars, Settled, Admitted
<1> QED
  BY <1>1, <1>2, <1>3, <1>4, <1>5, <1>6 DEF Next

\* A record in a final status is never touched again: no repeated write, late
\* finish or sweep revives it (enqueue, _finish, claim).
THEOREM Finality == Spec => FinalForever
<1>1. TypeParts /\ [Next]_vars
         => [\A s \in Selections : rows[s].status \in Final => rows'[s] = rows[s]]_vars
  BY RecordStep DEF Settled
<1> QED
  BY <1>1, InitType, TypeStep, PTL DEF Spec, FinalForever

\* Nothing decided up to a committed disconnect is scheduled, whoever writes
\* the record and whenever (enqueue, invalidate, _finish).
THEOREM FencedOut == Spec => []NothingFencedPending
<1>1. Init => NothingFencedPending
  BY DEF Init, NothingFencedPending, NoRow
<1>2. TypeParts /\ NothingFencedPending /\ [Next]_vars => NothingFencedPending'
  BY RecordStep DEF NothingFencedPending, Admitted, Fenced
<1> QED
  BY <1>1, <1>2, InitType, TypeStep, PTL DEF Spec

-----------------------------------------------------------------------------
\* Leases in time.  A lease is lost to the clock or to its own holder's finish,
\* and a new one is given only when no other is left.

LEMMA SweptSending ==
    ASSUME TypeParts, NEW s \in Selections
    PROVE  /\ Swept(s).status = "SENDING" => Swept(s) = rows[s]
           /\ rows[s].status = "SENDING" => Swept(s) = rows[s] \/ rows[s].until <= now
           /\ Swept(s).available = rows[s].available
<1>1. rows[s] \in Row
  BY DEF TypeParts
<1> QED
  BY <1>1 DEF Swept, Row

Kept(s) == rows'[s].status = "SENDING" => rows'[s] = rows[s]
Lost(s) == \/ rows[s].until <= now
           \/ \E n \in Notifiers : notifier[n].pc = "finish" /\ Target(n) = s
Released(s) == rows[s].status = "SENDING" => rows'[s] = rows[s] \/ Lost(s)

LEMMA LeaseStep ==
    ASSUME TypeParts, [Next]_vars
    PROVE  /\ \A s \in Selections : Released(s)
           /\ \/ \A s \in Selections : Kept(s)
              \/ \E s \in Selections : \A t \in Selections :
                    t # s => rows'[t].status # "SENDING"
<1>1. ASSUME NEW s \in Selections, Enqueue(s)
      PROVE  \A t \in Selections : Released(t) /\ Kept(t)
  <2> DEFINE row == [NoRow EXCEPT !.status = FirstStatus(s), !.available = now]
  <2>1. rows[s].status = "ABSENT"
    BY <1>1 DEF Enqueue, SameClock, NoRow
  <2>2. row.status \in {"EXPIRED", "FAILED", "PENDING"}
    BY FreshRow DEF TypeParts
  <2>3. rows' = [rows EXCEPT ![s] = row]
    BY <1>1 DEF Enqueue
  <2> HIDE DEF row
  <2>4. \A t \in Selections : rows'[t] = IF t = s THEN row ELSE rows[t]
    BY <2>3 DEF TypeParts
  <2> QED
    BY <2>1, <2>2, <2>4 DEF Released, Kept
<1>2. ASSUME NEW at \in Disconnects, Invalidate(at)
      PROVE  \A t \in Selections : Released(t) /\ Kept(t)
  <2>1. \A t \in Selections : rows[t] \in Row
    BY DEF TypeParts
  <2> QED
    BY <1>2, <2>1 DEF Invalidate, Released, Kept, Row
<1>3. ASSUME NEW n \in Notifiers, ClaimNone(n)
      PROVE  \A t \in Selections : Released(t) /\ Kept(t)
  BY <1>3, SweptSending DEF ClaimNone, Released, Kept, Lost
<1>4. ASSUME NEW n \in Notifiers, Claim(n)
      PROVE  /\ \A t \in Selections : Released(t)
             /\ \E s \in Selections : \A t \in Selections :
                   t # s => rows'[t].status # "SENDING"
  <2>1. PICK s \in Selections :
           /\ Eligible(s)
           /\ rows' = [u \in Selections |->
                IF u = s THEN [rows[s] EXCEPT !.status = "SENDING", !.until = now + Lease,
                                              !.attempts = rows[s].attempts + 1]
                ELSE Swept(u)]
    BY <1>4 DEF Claim, Oldest
  <2>2. \A t \in Selections : t # s => rows'[t] = Swept(t)
    BY <2>1
  <2>3. \A t \in Selections : Swept(t).status # "SENDING"
    BY <2>1 DEF Eligible
  <2>4. rows[s] \in Row /\ Swept(s).status = "PENDING"
    BY <2>1 DEF Eligible, TypeParts
  <2>5. rows[s].status = "SENDING" => rows[s].until <= now
    BY <2>4, SweptSending
  <2>6. \A t \in Selections : Released(t)
    BY <2>2, <2>5, SweptSending DEF Released, Lost
  <2> QED
    BY <2>2, <2>3, <2>6
<1>5. ASSUME NEW n \in Notifiers, Dispatch(n) \/ Send(n) \/ GiveUp(n) \/ Abandon(n)
      PROVE  \A t \in Selections : Released(t) /\ Kept(t)
  BY <1>5 DEF Dispatch, Send, GiveUp, Abandon, Released, Kept
<1>6. ASSUME NEW n \in Notifiers, Finish(n)
      PROVE  \A t \in Selections : Released(t) /\ Kept(t)
  <2> PICK f : f = notifier[n]
    OBVIOUS
  <2> PICK s : s = f.request.selection
    OBVIOUS
  <2>0. f.pc = "finish"
    BY <1>6 DEF Finish
  <2>1. CASE ~Leased(f.request)
    BY <1>6, <2>1 DEF Finish, Released, Kept
  <2>2. CASE Leased(f.request)
    <3> DEFINE row == [rows[s] EXCEPT !.status = FinalStatus(f), !.until = 0,
                                      !.available = now + f.delay]
    <3>1. s \in Selections /\ row.status = FinalStatus(f)
      BY <2>0, FinishedRow
    <3>2. rows' = [rows EXCEPT ![s] = row]
      BY <1>6, <2>2 DEF Finish
    <3>3. FinalStatus(f) # "SENDING"
      BY <2>0, FinishType DEF FinalStatus, Final
    <3> HIDE DEF row
    <3>4. \A t \in Selections : rows'[t] = IF t = s THEN row ELSE rows[t]
      BY <3>1, <3>2 DEF TypeParts
    <3>5. Target(n) = s
      BY DEF Target
    <3> QED
      BY <2>0, <3>1, <3>3, <3>4, <3>5 DEF Released, Kept, Lost
  <2> QED
    BY <2>1, <2>2
<1>7. ASSUME NEW r \in wire, Telegram(r)
      PROVE  \A t \in Selections : Released(t) /\ Kept(t)
  BY <1>7, AnswerCases DEF Released, Kept
<1>8. CASE Tick \/ UNCHANGED vars
  BY <1>8 DEF Tick, vars, Released, Kept
<1> QED
  BY <1>1, <1>2, <1>3, <1>4, <1>5, <1>6, <1>7, <1>8 DEF Next, Work

\* Finishing, answering and resting neither reserve a window nor start a send:
\* the check reserves it, and the send that starts keeps it.
InHand(n) == notifier[n].pc \in {"checked", "sending"}
Reserves(n) ==
    /\ MaySend(notifier[n].request)
    /\ notifier'[n] = InFlight("checked", notifier[n].request, now + Timeout)
    /\ notifier[n].pc = "claimed"
    /\ UNCHANGED <<now, rows, control>>
Starts(n) ==
    /\ notifier[n].pc = "checked"
    /\ notifier'[n] = InFlight("sending", notifier[n].request, notifier[n].window)
    /\ UNCHANGED <<now, rows, control>>

LEMMA WindowStep ==
    ASSUME TypeParts, [Next]_vars, NEW n \in Notifiers, InHand(n)'
    PROVE  notifier'[n] = notifier[n] \/ Reserves(n) \/ Starts(n)
<1>1. ASSUME NEW m \in Notifiers, NEW v, notifier' = [notifier EXCEPT ![m] = v],
             v.pc \notin {"checked", "sending"}
      PROVE  notifier'[n] = notifier[n]
  BY <1>1 DEF TypeParts, InHand
<1>2. ASSUME NEW m \in Notifiers, NEW status, NEW delay, NEW limited,
             WillFinish(m, status, delay, limited)
      PROVE  notifier'[n] = notifier[n]
  BY <1>1, <1>2 DEF WillFinish, Finishing
<1>3. ASSUME NEW m \in Notifiers, Claim(m)
      PROVE  notifier'[n] = notifier[n]
  BY <1>1, <1>3 DEF Claim
<1>4. ASSUME NEW m \in Notifiers, Finish(m) \/ Abandon(m)
      PROVE  notifier'[n] = notifier[n]
  <2>1. Resting.pc \notin {"checked", "sending"}
    BY DEF Resting
  <2> QED
    BY <1>1, <1>4, <2>1 DEF Finish, Abandon
<1>5. ASSUME NEW m \in Notifiers, GiveUp(m)
      PROVE  notifier'[n] = notifier[n]
  BY <1>2, <1>5 DEF GiveUp
<1>6. ASSUME NEW m \in Notifiers, Dispatch(m)
      PROVE  notifier'[n] = notifier[n] \/ Reserves(n)
  <2>1. CASE \E status : WillFinish(m, status, 0, FALSE)
    BY <1>2, <2>1
  <2>2. CASE /\ MaySend(notifier[m].request)
             /\ notifier' = [notifier EXCEPT ![m] =
                    InFlight("checked", notifier[m].request, now + Timeout)]
    BY <1>6, <2>2 DEF Dispatch, Reserves, TypeParts
  <2> QED
    BY <1>6, <2>1, <2>2 DEF Dispatch
<1>7. ASSUME NEW m \in Notifiers, Send(m)
      PROVE  notifier'[n] = notifier[n] \/ Starts(n)
  BY <1>7 DEF Send, Starts, TypeParts
<1>8. ASSUME NEW r \in wire, Telegram(r)
      PROVE  notifier'[n] = notifier[n]
  <2>1. \/ UNCHANGED notifier
        \/ \E m \in Notifiers : \E status : \E delay : \E limited :
              WillFinish(m, status, delay, limited)
    BY <1>8, AnswerCases DEF Answered
  <2> QED
    BY <1>2, <2>1
<1>9. CASE UNCHANGED notifier
  BY <1>9
<1> QED
  BY <1>3, <1>4, <1>5, <1>6, <1>7, <1>8, <1>9
     DEF Next, Work, vars, Enqueue, Invalidate, ClaimNone, Tick

LEMMA ClockStep == [Next]_vars => now' \in {now, now + 1}
BY AnswerCases DEF Next, Work, vars, Enqueue, Invalidate, ClaimNone, Claim, Dispatch, Send,
   GiveUp, Finish, Abandon, Tick

\* One record is being sent, and within the window that was reserved for it the
\* notifier has its lease and its alert's lifetime beyond that window, and no
\* cooldown has been committed.
OneSending ==
    \A s, t \in Selections :
       rows[s].status = "SENDING" /\ rows[t].status = "SENDING" => s = t
Timed(n) ==
    InHand(n) /\ now <= notifier[n].window =>
       /\ Holds(notifier[n].request)
       /\ rows[Target(n)].until > notifier[n].window
       /\ ExpiresAt(Target(n)) > notifier[n].window
Quiet(n) == InHand(n) /\ now <= notifier[n].window => control.cooldown <= now
LeaseInv == OneSending /\ \A n \in Notifiers : Timed(n) /\ Quiet(n)

LEMMA InHandType ==
    ASSUME TypeParts, NEW n \in Notifiers, InHand(n)
    PROVE  /\ notifier[n].window \in Nat
           /\ Target(n) \in Selections
           /\ rows[Target(n)].until \in Nat
           /\ ExpiresAt(Target(n)) \in Nat
<1>1. notifier[n].window \in Nat
  BY WindowType DEF InHand
<1>2. Target(n) \in Selections
  BY RequestType DEF Target, Requests, InHand
<1> QED
  BY <1>1, <1>2, DeliveryConstants DEF TypeParts, Row, ExpiresAt

LEMMA OneSendingStep ==
    ASSUME DeliveryInv, OneSending, [Next]_vars PROVE OneSending'
BY LeaseStep DEF DeliveryInv, OneSending, Kept

\* What was in hand before the step and in its window, was so before.
LEMMA InHandBefore ==
    ASSUME TypeParts, [Next]_vars, NEW n \in Notifiers, InHand(n)',
           now' <= notifier'[n].window, ~Reserves(n)
    PROVE  /\ InHand(n) /\ now <= notifier[n].window
           /\ notifier'[n].request = notifier[n].request
           /\ notifier'[n].window = notifier[n].window
<1>1. /\ InHand(n) /\ notifier'[n].request = notifier[n].request
      /\ notifier'[n].window = notifier[n].window
  <2>1. CASE notifier'[n] = notifier[n]
    BY <2>1 DEF InHand
  <2>2. CASE Starts(n)
    BY <2>2 DEF Starts, InFlight, InHand
  <2> QED
    BY <2>1, <2>2, WindowStep
<1>2. now \in Nat /\ notifier[n].window \in Nat
  BY <1>1, InHandType DEF TypeParts
<1> QED
  BY <1>1, <1>2, ClockStep

LEMMA TimedStep ==
    ASSUME DeliveryInv, LeaseInv, [Next]_vars, NEW n \in Notifiers PROVE Timed(n)'
<1> SUFFICES ASSUME InHand(n)', now' <= notifier'[n].window
             PROVE  LET r == notifier'[n].request
                        row == rows'[r.selection]
                    IN  /\ row.status = "SENDING" /\ row.attempts = r.token
                        /\ row.until > notifier'[n].window
                        /\ ExpiresAt(r.selection) > notifier'[n].window
  BY DEF Timed, Holds, ExpiresAt, Target
<1>0. TypeParts /\ now \in Nat
  BY DEF DeliveryInv, TypeParts
<1>1. CASE Reserves(n)
  <2>1. /\ notifier'[n].request = notifier[n].request
        /\ notifier'[n].window = now + Timeout
    BY <1>1 DEF Reserves, InFlight
  <2> QED
    BY <1>1, <2>1 DEF Reserves, MaySend, Holds, Target
<1>2. CASE ~Reserves(n)
  <2> PICK s : s = Target(n)
    OBVIOUS
  <2>0. /\ InHand(n) /\ now <= notifier[n].window
        /\ notifier'[n].request = notifier[n].request
        /\ notifier'[n].window = notifier[n].window
    BY <1>0, <1>2, InHandBefore
  <2>1. /\ notifier[n].window \in Nat /\ rows[s].until \in Nat /\ s \in Selections
    BY <1>0, <2>0, InHandType
  <2>3. /\ Holds(notifier[n].request) /\ rows[s].until > notifier[n].window
        /\ ExpiresAt(s) > notifier[n].window
    BY <2>0 DEF LeaseInv, Timed
  <2>4. ~Lost(s)
    <3>1. ~(rows[s].until <= now)
      BY <1>0, <2>0, <2>1, <2>3
    <3>2. ASSUME NEW m \in Notifiers, notifier[m].pc = "finish", Target(m) = s PROVE FALSE
      BY <2>0, <3>2 DEF DeliveryInv, Alone, Busy, InHand
    <3> QED
      BY <3>1, <3>2 DEF Lost
  <2>5. rows'[s] = rows[s]
    BY <1>0, <2>1, <2>3, <2>4, LeaseStep DEF Released, Holds, Target
  <2> QED
    BY <2>0, <2>3, <2>5 DEF Holds, Target
<1> QED
  BY <1>1, <1>2

\* The cooldown is committed only by a finish that holds its lease.
LEMMA CooldownStep ==
    ASSUME TypeParts, [Next]_vars
    PROVE  \/ control'.cooldown = control.cooldown
           \/ \E m \in Notifiers : notifier[m].pc = "finish" /\ Holds(notifier[m].request)
<1>0. control \in [cooldown : Nat, invalidated : Nat]
  BY DEF TypeParts
<1>1. ASSUME NEW at \in Disconnects, Invalidate(at) PROVE control'.cooldown = control.cooldown
  BY <1>0, <1>1 DEF Invalidate
<1>2. ASSUME NEW m \in Notifiers, Finish(m)
      PROVE  \/ control'.cooldown = control.cooldown
             \/ notifier[m].pc = "finish" /\ Holds(notifier[m].request)
  BY <1>2 DEF Finish, Leased
<1>3. ASSUME NEW r \in wire, Telegram(r) PROVE control'.cooldown = control.cooldown
  BY <1>3, AnswerCases
<1> QED
  BY <1>1, <1>2, <1>3 DEF Next, Work, vars, Enqueue, ClaimNone, Claim, Dispatch, Send, GiveUp,
     Abandon, Tick

\* While a notifier is within its window nobody else holds a lease, so nobody
\* can commit a cooldown.
LEMMA QuietWindowStep ==
    ASSUME DeliveryInv, LeaseInv, [Next]_vars, NEW n \in Notifiers PROVE Quiet(n)'
<1> SUFFICES ASSUME InHand(n)', now' <= notifier'[n].window
             PROVE  control'.cooldown <= now'
  BY DEF Quiet
<1>0. /\ TypeParts /\ now \in Nat /\ control.cooldown \in Nat
      /\ now' \in {now, now + 1}
  BY ClockStep DEF DeliveryInv, TypeParts
<1>1. CASE Reserves(n)
  BY <1>1 DEF Reserves, MaySend
<1>2. CASE ~Reserves(n)
  <2>0. InHand(n) /\ now <= notifier[n].window
    BY <1>0, <1>2, InHandBefore
  <2>1. control.cooldown <= now /\ Holds(notifier[n].request) /\ Target(n) \in Selections
    BY <1>0, <2>0, InHandType DEF LeaseInv, Quiet, Timed
  <2>2. ASSUME NEW m \in Notifiers, notifier[m].pc = "finish", Holds(notifier[m].request)
        PROVE  FALSE
    <3>1. Busy(m) /\ Busy(n) /\ m # n
      BY <2>0, <2>2 DEF Busy, InHand
    <3>2. Target(m) \in Selections
      BY <3>1, RequestType DEF Busy, DeliveryInv, Target, Requests
    <3>3. Target(m) = Target(n)
      BY <2>1, <2>2, <3>2 DEF LeaseInv, OneSending, Holds, Target
    <3> QED
      BY <3>1, <3>3 DEF DeliveryInv, Alone
  <2>3. control'.cooldown = control.cooldown
    BY <1>0, <2>2, CooldownStep
  <2> QED
    BY <1>0, <2>1, <2>3
<1> QED
  BY <1>1, <1>2

LEMMA LeaseInvariant == Spec => [](DeliveryInv /\ LeaseInv)
<1>1. Init => LeaseInv
  <2> SUFFICES ASSUME Init PROVE LeaseInv
    OBVIOUS
  <2>1. \A n \in Notifiers : notifier[n].pc = "idle"
    BY DEF Init, Resting
  <2>2. \A s \in Selections : rows[s].status = "ABSENT"
    BY DEF Init, NoRow
  <2> QED
    BY <2>1, <2>2 DEF LeaseInv, OneSending, Timed, Quiet, InHand
<1>2. DeliveryInv /\ LeaseInv /\ [Next]_vars => LeaseInv'
  BY OneSendingStep, TimedStep, QuietWindowStep DEF LeaseInv
<1> QED
  BY <1>1, <1>2, InitInv, DeliveryStep, PTL DEF Spec

\* Within the window it reserved, from the check to the end of its send, a
\* notifier holds its own lease, is before its alert's deadline and is the only
\* such notifier, for any number of notifiers and any lease longer than the
\* timeout (may_send reserves the whole timeout; claim gives out one lease at a
\* time).
THEOREM Leasing == Spec => []SendsHoldTheirLease
<1>1. ASSUME DeliveryInv, LeaseInv PROVE SendsHoldTheirLease
  <2>1. ASSUME NEW n \in Notifiers, InTime(n)
        PROVE  /\ Leased(notifier[n].request)
               /\ now < ExpiresAt(Target(n))
               /\ Target(n) \in Selections /\ Busy(n)
    <3>1. InHand(n) /\ now <= notifier[n].window
      BY <2>1 DEF InTime, InHand
    <3>2. Timed(n) /\ TypeParts /\ now \in Nat
      BY <1>1 DEF LeaseInv, DeliveryInv, TypeParts
    <3> QED
      BY <3>1, <3>2, InHandType DEF Timed, Leased, Busy, InHand, Target
  <2>2. ASSUME NEW n \in Notifiers, NEW m \in Notifiers, InTime(n), InTime(m) PROVE n = m
    <3>1. Target(n) = Target(m)
      BY <1>1, <2>1, <2>2 DEF LeaseInv, OneSending, Leased, Holds, Target
    <3> QED
      BY <1>1, <2>1, <2>2, <3>1 DEF DeliveryInv, Alone
  <2> QED
    BY <2>1, <2>2 DEF SendsHoldTheirLease, Target
<1>2. DeliveryInv /\ LeaseInv => SendsHoldTheirLease
  BY <1>1
<1> QED
  BY <1>2, LeaseInvariant, PTL

-----------------------------------------------------------------------------
\* Rate limits.  A record is scheduled beyond the clock only together with the
\* shared cooldown, and a notifier delays a record only for a rate limit.

Scheduled(s) == rows[s].available <= now \/ rows[s].available <= control.cooldown
DelayIsLimit(n) ==
    notifier[n].pc = "finish" => notifier[n].limited = TRUE \/ notifier[n].delay = 0
RateInv ==
    /\ \A s \in Selections : Scheduled(s)
    /\ \A n \in Notifiers : DelayIsLimit(n)

\* The clock and the cooldown only grow, so a record that keeps its schedule
\* keeps to them.
LEMMA StillScheduled ==
    ASSUME TypeParts, TypeParts', RateInv, NEW s \in Selections,
           now <= now', control.cooldown <= control'.cooldown,
           rows'[s].available \in {rows[s].available, now}
    PROVE  Scheduled(s)'
<1>1. /\ rows[s].available \in Nat /\ rows'[s].available \in Nat
      /\ now \in Nat /\ now' \in Nat /\ control.cooldown \in Nat /\ control'.cooldown \in Nat
  BY DEF TypeParts, Row
<1> QED
  BY <1>1 DEF RateInv, Scheduled

LEMMA ScheduledStep ==
    ASSUME TypeParts, TypeParts', RateInv, [Next]_vars, NEW s \in Selections
    PROVE  Scheduled(s)'
<1>0. now \in Nat /\ control \in [cooldown : Nat, invalidated : Nat] /\ rows[s] \in Row
  BY DEF TypeParts
<1>1. ASSUME NEW t \in Selections, Enqueue(t) PROVE Scheduled(s)'
  <2> DEFINE row == [NoRow EXCEPT !.status = FirstStatus(t), !.available = now]
  <2>1. row.available = now
    BY DEF NoRow
  <2>2. rows' = [rows EXCEPT ![t] = row] /\ UNCHANGED <<now, control>>
    BY <1>1 DEF Enqueue
  <2> HIDE DEF row
  <2>3. rows'[s] = IF s = t THEN row ELSE rows[s]
    BY <2>2 DEF TypeParts
  <2> QED
    BY <1>0, <2>1, <2>2, <2>3, StillScheduled
<1>2. ASSUME NEW at \in Disconnects, Invalidate(at) PROVE Scheduled(s)'
  <2>1. rows'[s].available = rows[s].available
    BY <1>0, <1>2 DEF Invalidate, Row
  <2>2. now' = now /\ control'.cooldown = control.cooldown
    BY <1>0, <1>2 DEF Invalidate
  <2> QED
    BY <1>0, <2>1, <2>2, StillScheduled
<1>3. ASSUME NEW n \in Notifiers, ClaimNone(n) \/ Claim(n) PROVE Scheduled(s)'
  <2>1. UNCHANGED <<now, control>>
    BY <1>3 DEF ClaimNone, Claim
  <2>2. CASE rows'[s] = Swept(s)
    BY <1>0, <2>1, <2>2, SweptSending, StillScheduled
  <2>3. CASE rows'[s] = [rows[s] EXCEPT !.status = "SENDING", !.until = now + Lease,
                                        !.attempts = rows[s].attempts + 1]
    <3>1. rows'[s].available = rows[s].available
      BY <1>0, <2>3 DEF Row
    <3> QED
      BY <1>0, <2>1, <3>1, StillScheduled
  <2> QED
    BY <1>3, <2>2, <2>3 DEF ClaimNone, Claim
<1>4. ASSUME NEW n \in Notifiers, Finish(n) PROVE Scheduled(s)'
  <2> PICK f : f = notifier[n]
    OBVIOUS
  <2> PICK t : t = f.request.selection
    OBVIOUS
  <2>0. f.pc = "finish" /\ now' = now /\ f.delay \in Nat
    BY <1>4, FinishType DEF Finish
  <2>1. CASE ~Leased(f.request)
    BY <1>0, <1>4, <2>0, <2>1, StillScheduled DEF Finish
  <2>2. CASE Leased(f.request)
    <3> DEFINE row == [rows[t] EXCEPT !.status = FinalStatus(f), !.until = 0,
                                      !.available = now + f.delay]
    <3>1. t \in Selections /\ rows[t] \in Row
      BY <2>0, FinishedRow DEF TypeParts
    <3>2. row.available = now + f.delay
      BY <3>1 DEF Row
    <3>3. rows' = [rows EXCEPT ![t] = row] /\ control' = Cooled(f)
      BY <1>4, <2>2 DEF Finish
    <3> HIDE DEF row
    <3>4. rows'[s] = IF s = t THEN row ELSE rows[s]
      BY <3>1, <3>3 DEF TypeParts
    <3>5. /\ control.cooldown <= control'.cooldown
          /\ f.limited = TRUE => now + f.delay <= control'.cooldown
      BY <1>0, <2>0, <3>3 DEF Cooled
    <3>6. CASE s # t
      BY <1>0, <2>0, <3>4, <3>5, <3>6, StillScheduled
    <3>7. CASE s = t
      <4>1. f.limited = TRUE \/ f.delay = 0
        BY <2>0 DEF RateInv, DelayIsLimit
      <4> QED
        BY <1>0, <2>0, <3>2, <3>4, <3>5, <3>7, <4>1 DEF Scheduled
    <3> QED
      BY <3>6, <3>7
  <2> QED
    BY <2>1, <2>2
<1>5. CASE UNCHANGED <<rows, control>> /\ now' \in {now, now + 1}
  BY <1>0, <1>5, StillScheduled
<1>6. ASSUME NEW r \in wire, Telegram(r) PROVE Scheduled(s)'
  BY <1>5, <1>6, AnswerCases
<1> QED
  BY <1>1, <1>2, <1>3, <1>4, <1>5, <1>6
     DEF Next, Work, vars, Dispatch, Send, GiveUp, Abandon, Tick

LEMMA DelayStep ==
    ASSUME TypeParts, RateInv, [Next]_vars, NEW n \in Notifiers PROVE DelayIsLimit(n)'
<1>0. DelayIsLimit(n)
  BY DEF RateInv
<1>1. ASSUME NEW m \in Notifiers, NEW v, notifier' = [notifier EXCEPT ![m] = v],
             v.pc = "finish" => v.limited = TRUE \/ v.delay = 0
      PROVE  DelayIsLimit(n)'
  BY <1>0, <1>1 DEF TypeParts, DelayIsLimit
<1>2. ASSUME NEW m \in Notifiers, NEW status, NEW delay, NEW limited,
             WillFinish(m, status, delay, limited), limited = TRUE \/ delay = 0
      PROVE  DelayIsLimit(n)'
  BY <1>1, <1>2 DEF WillFinish, Finishing
<1>3. ASSUME NEW m \in Notifiers, Claim(m) PROVE DelayIsLimit(n)'
  BY <1>1, <1>3 DEF Claim
<1>4. ASSUME NEW m \in Notifiers, Finish(m) \/ Abandon(m) PROVE DelayIsLimit(n)'
  <2>1. Resting.pc # "finish"
    BY DEF Resting
  <2> QED
    BY <1>1, <1>4, <2>1 DEF Finish, Abandon
<1>5. ASSUME NEW m \in Notifiers, GiveUp(m) PROVE DelayIsLimit(n)'
  BY <1>2, <1>5 DEF GiveUp
<1>6. ASSUME NEW m \in Notifiers, Dispatch(m) PROVE DelayIsLimit(n)'
  <2>1. CASE \E status : WillFinish(m, status, 0, FALSE)
    BY <1>2, <2>1
  <2>2. CASE notifier' = [notifier EXCEPT ![m] =
                 InFlight("checked", notifier[m].request, now + Timeout)]
    BY <1>1, <2>2 DEF InFlight
  <2> QED
    BY <1>6, <2>1, <2>2 DEF Dispatch
<1>7. ASSUME NEW r \in wire, Telegram(r) PROVE DelayIsLimit(n)'
  <2>1. CASE UNCHANGED notifier
    BY <1>0, <2>1 DEF DelayIsLimit
  <2>2. CASE \E m \in Notifiers : \E status : WillFinish(m, status, 0, FALSE)
    BY <1>2, <2>2
  <2>3. CASE \E m \in Notifiers : \E status : \E delay : WillFinish(m, status, delay, TRUE)
    BY <1>2, <2>3
  <2> QED
    BY <1>7, <2>1, <2>2, <2>3 DEF Telegram, Accept, Reject, RateLimit
<1>8. CASE UNCHANGED notifier
  BY <1>0, <1>8 DEF DelayIsLimit
<1>9. ASSUME NEW m \in Notifiers, Send(m) PROVE DelayIsLimit(n)'
  BY <1>1, <1>9 DEF Send, InFlight
<1> QED
  BY <1>3, <1>4, <1>5, <1>6, <1>7, <1>8, <1>9
     DEF Next, Work, vars, Enqueue, Invalidate, ClaimNone, Tick

\* Until the delay Telegram asked for on any record is over, no notifier starts
\* to send within the window it reserved, for any number of notifiers and
\* whatever is claimed or checked already: finish commits the cooldown with the
\* record and only under a lease, may_send reads it and reserves a window
\* inside the lease, and claim gives out no second lease meanwhile.
THEOREM Silence == Spec => RateLimitSilencesAll
<1>1. Init => RateInv
  <2> SUFFICES ASSUME Init PROVE RateInv
    OBVIOUS
  <2>1. \A n \in Notifiers : notifier[n].pc = "idle"
    BY DEF Init, Resting
  <2>2. \A s \in Selections : rows[s].available = 0
    BY DEF Init, NoRow
  <2>3. now = 1
    BY DEF Init
  <2> QED
    BY <2>1, <2>2, <2>3 DEF RateInv, Scheduled, DelayIsLimit
<1>2. TypeParts /\ RateInv /\ [Next]_vars => RateInv'
  BY TypeStep, ScheduledStep, DelayStep DEF RateInv
<1>3. ASSUME TypeParts, RateInv, LeaseInv, NEW n \in Notifiers, InTime(n), NEW s \in Selections
      PROVE  rows[s].available <= now
  <2>1. control.cooldown <= now
    BY <1>3 DEF LeaseInv, Quiet, InTime, InHand
  <2>2. rows[s].available \in Nat /\ now \in Nat /\ control.cooldown \in Nat
    BY <1>3 DEF TypeParts, Row
  <2> QED
    BY <1>3, <2>1, <2>2 DEF RateInv, Scheduled
<1>4. TypeParts /\ RateInv /\ DeliveryInv /\ LeaseInv /\ [Next]_vars =>
         [\A n \in Notifiers :
             InTime(n) /\ notifier[n].pc = "checked" /\ notifier'[n].pc = "sending"
                => \A s \in Selections : rows[s].available <= now]_vars
  BY <1>3
<1> QED
  BY <1>1, <1>2, <1>4, InitType, TypeStep, LeaseInvariant, PTL DEF Spec, RateLimitSilencesAll

-----------------------------------------------------------------------------
(***************************************************************************)
(* The handoff keeps its two promises for every set of selections, every   *)
(* queue size and retry budget, however the two threads interleave and     *)
(* whichever database calls fail or lose their answers.                    *)
(*                                                                         *)
(* The invariant has one part per promise.  Durable: what the thread is    *)
(* about to record has reached the database.  Ordered: the selection being *)
(* delivered is the last one admitted for its symbol, and no row of that   *)
(* symbol is later.                                                        *)
(***************************************************************************)

Pcs == {"sync", "invalidate", "record", "loop", "get", "admit", "check", "recheck", "sink",
        "delivered", "done"}
Threads == [pc : Pcs, caller : {"run", "deliver"}, at : Nat, synchronized : BOOLEAN,
            selection : Selections \cup {NoSelection}, attempts : Nat]

Types ==
    /\ now \in Nat
    /\ rows \in [Selections -> Row]
    /\ control \in [cooldown : Nat, invalidated : Nat]
    /\ queue \in Seq(Selections)
    /\ last \in [SymbolSet -> Selections \cup {NoSelection}]
    /\ notBefore \in Nat /\ persisted \in Nat
    /\ thread \in Threads

Durable ==
    /\ PersistedIsDurable
    /\ thread.pc = "record" => thread.at <= control.invalidated

\* The thread is inside _deliver, or in the synchronisation it called.
Delivering ==
    \/ thread.pc \in {"check", "recheck", "sink", "delivered"}
    \/ thread.pc \in {"sync", "invalidate", "record"} /\ thread.caller = "deliver"

Ordered ==
    /\ thread.pc = "admit" => thread.selection # NoSelection
    /\ Delivering => /\ thread.selection # NoSelection
                     /\ last[Symbol[thread.selection]] = thread.selection
                     /\ Symbol[thread.selection] \notin failed
    /\ \A t \in Selections : rows[t] # NoRow =>
          /\ last[Symbol[t]] # NoSelection
          /\ DecisionAt[t] <= DecisionAt[last[Symbol[t]]]

\* The inductive invariant.
WorkerInv == Types /\ Durable /\ Ordered

-----------------------------------------------------------------------------
LEMMA WorkerInitInv == WorkerInit => WorkerInv
<1> SUFFICES ASSUME WorkerInit PROVE WorkerInv
  OBVIOUS
<1>1. NoRow \in Row
  BY DEF NoRow, Row
<1>2. <<>> \in Seq(Selections)
  OBVIOUS
<1>3. thread \in Threads
  BY DEF WorkerInit, Threads, Pcs
<1>4. Types
  BY <1>1, <1>2, <1>3 DEF WorkerInit, Init, Types
<1>5. Durable /\ Ordered
  BY DEF WorkerInit, Init, Durable, Ordered, PersistedIsDurable, Delivering
<1> QED
  BY <1>4, <1>5 DEF WorkerInv

-----------------------------------------------------------------------------
\* What the database calls do to the outbox.

\* A row that is written is one that was absent.
LEMMA EnqueueFacts ==
    ASSUME Types, NEW s \in Selections, Enqueue(s)
    PROVE  /\ rows' \in [Selections -> Row] /\ UNCHANGED <<now, control>>
           /\ \A t \in Selections : t # s => rows'[t] = rows[t]
<1>1. [NoRow EXCEPT !.status = FirstStatus(s), !.available = now] \in Row
  BY DEF Types, NoRow, Row, FirstStatus, Final
<1> QED
  BY <1>1 DEF Enqueue, Types

LEMMA InvalidateFacts ==
    ASSUME Types, NEW at \in Nat, Invalidate(at)
    PROVE  /\ rows' \in [Selections -> Row] /\ now' = now
           /\ control' \in [cooldown : Nat, invalidated : Nat]
           /\ control.invalidated <= control'.invalidated /\ at <= control'.invalidated
           /\ \A t \in Selections : rows'[t] # NoRow <=> rows[t] # NoRow
<1>1. ASSUME NEW t \in Selections
      PROVE  rows'[t] \in Row /\ (rows'[t] # NoRow <=> rows[t] # NoRow)
  <2>1. rows[t] \in Row
    BY DEF Types
  <2>2. CASE rows'[t] = rows[t]
    BY <2>1, <2>2
  <2>3. CASE rows[t].status = "PENDING" /\ rows'[t] = [rows[t] EXCEPT !.status = "EXPIRED"]
    BY <2>1, <2>3 DEF Row, Final, NoRow
  <2> QED
    BY <2>2, <2>3 DEF Invalidate
<1>2. rows' = [t \in Selections |-> rows'[t]]
  BY DEF Invalidate
<1>3. rows' \in [Selections -> Row]
  BY <1>1, <1>2
<1> QED
  BY <1>1, <1>3 DEF Invalidate, Types

\* enqueue's transaction, whether it inserts or finds the row.
LEMMA WriteFacts ==
    ASSUME Types, NEW s \in Selections, Write(s) \/ UNCHANGED outbox
    PROVE  /\ rows' \in [Selections -> Row] /\ UNCHANGED <<now, control>>
           /\ \A t \in Selections : t # s => rows'[t] = rows[t]
           /\ rows[s] = NoRow /\ rows'[s] # NoRow
                 => \A t \in Selections : SameClock(s, t) => rows[t] = NoRow
<1>1. CASE Enqueue(s)
  BY <1>1, EnqueueFacts DEF Enqueue
<1>2. CASE UNCHANGED outbox
  BY <1>2 DEF outbox, Types
<1> QED
  BY <1>1, <1>2 DEF Write

-----------------------------------------------------------------------------
\* What the thread's moves do to its state.

LEMMA ResumeFacts ==
    ASSUME thread \in Threads, Resume
    PROVE  thread' \in Threads /\ thread'.pc = "sync" /\ thread'.caller = "run"
BY DEF Resume, Threads, Pcs

LEMMA GotoFacts ==
    ASSUME thread \in Threads, NEW pc \in Pcs, Goto(pc)
    PROVE  /\ thread' \in Threads /\ thread'.pc = pc
           /\ thread'.at = thread.at /\ thread'.caller = thread.caller
           /\ thread'.selection = thread.selection
BY DEF Goto, Threads

LEMMA SyncReturnFacts ==
    ASSUME thread \in Threads, NEW ok \in BOOLEAN, SyncReturn(ok)
    PROVE  /\ thread' \in Threads
           /\ thread'.selection = thread.selection
           /\ thread'.pc \in {"loop", "check", "recheck"}
           /\ thread'.pc # "loop" => thread.caller = "deliver"
<1>1. CASE thread.caller = "run"
  BY <1>1 DEF SyncReturn, Threads, Pcs
<1>2. CASE thread.caller # "run"
  <2>1. Goto("recheck") \/ Goto("check")
    BY <1>2 DEF SyncReturn
  <2> QED
    BY <1>2, <2>1 DEF Goto, Threads, Pcs
<1> QED
  BY <1>1, <1>2

\* Where one step of the thread leads: it goes on with its selection, goes back
\* to the loop, or admits the selection it took.
Advances ==
    /\ thread'.selection = thread.selection
    /\ Delivering' => Delivering
    /\ thread'.pc = "admit" => thread.pc = "admit"
Drops == ~Delivering' /\ thread'.pc # "admit"

\* A step that admits nothing and writes no new row keeps the order.
LEMMA OrderedKept ==
    ASSUME WorkerInv, UNCHANGED last,
           Drops \/ (Advances /\ UNCHANGED failed),
           \A t \in Selections : rows'[t] # NoRow => rows[t] # NoRow
    PROVE  Ordered'
BY DEF WorkerInv, Ordered, Drops, Advances

-----------------------------------------------------------------------------
LEMMA OfferStep ==
    ASSUME WorkerInv, NEW s \in Selections, Offer(s) PROVE WorkerInv'
<1>0. Append(queue, s) \in Seq(Selections)
  BY DEF WorkerInv, Types
<1>1. Types'
  BY <1>0 DEF WorkerInv, Types, Offer, outbox
<1>2. Durable'
  BY DEF WorkerInv, Durable, PersistedIsDurable, Offer, outbox
<1>3. Ordered'
  BY OrderedKept DEF Offer, outbox, Advances, Delivering
<1> QED
  BY <1>1, <1>2, <1>3 DEF WorkerInv

LEMMA ProducerStep ==
    ASSUME WorkerInv, (\E at \in Disconnects : Disconnected(at)) \/ Close \/ Discard
    PROVE  WorkerInv'
<1>0. UNCHANGED <<now, rows, control, failed, last, persisted, thread>>
  BY DEF Disconnected, Close, Discard, outbox
<1>a. <<>> \in Seq(Selections)
  OBVIOUS
<1>b. queue' \in Seq(Selections)
  BY <1>a DEF WorkerInv, Types, Disconnected, Close, Discard
<1>c. notBefore' \in Nat
  BY DeliveryConstants DEF WorkerInv, Types, Disconnected, Close, Discard, shared
<1>1. queue' \in Seq(Selections) /\ notBefore' \in Nat
  BY <1>b, <1>c
<1>2. Types'
  BY <1>0, <1>1 DEF WorkerInv, Types
<1>3. Durable'
  BY <1>0 DEF WorkerInv, Durable, PersistedIsDurable
<1>4. Ordered'
  BY <1>0, OrderedKept DEF Advances, Delivering
<1> QED
  BY <1>2, <1>3, <1>4 DEF WorkerInv

\* The synchronisation with the database.
LEMMA SyncStep ==
    ASSUME WorkerInv, SyncRead \/ InvalidateCall \/ InvalidateTransient \/ InvalidateFails \/ Record
    PROVE  WorkerInv'
<1>0. Types /\ thread \in Threads /\ thread.at \in Nat
  BY DEF WorkerInv, Types, Threads
<1>1. CASE SyncRead
  <2>1. thread' \in Threads /\ (thread'.pc = "record" => FALSE) /\ Advances
    <3>1. CASE SyncReturn(TRUE)
      BY <1>0, <1>1, <3>1, SyncReturnFacts DEF SyncRead, Advances, Delivering
    <3>2. CASE thread' = [thread EXCEPT !.pc = "invalidate", !.at = notBefore]
      BY <1>0, <1>1, <3>2 DEF SyncRead, Types, Threads, Pcs, Advances, Delivering
    <3> QED
      BY <1>1, <3>1, <3>2 DEF SyncRead
  <2>2. UNCHANGED <<now, rows, control, queue, failed, last, notBefore, persisted>>
    BY <1>1 DEF SyncRead, outbox, shared
  <2>3. Types'
    BY <1>0, <2>1, <2>2 DEF Types
  <2>4. Durable'
    BY <2>1, <2>2 DEF WorkerInv, Durable, PersistedIsDurable
  <2>5. Ordered'
    BY <2>1, <2>2, OrderedKept
  <2> QED
    BY <2>3, <2>4, <2>5 DEF WorkerInv
<1>2. CASE InvalidateCall
  <2>1. thread' \in Threads /\ thread'.at = thread.at /\ Advances
    BY <1>0, <1>2, GotoFacts DEF InvalidateCall, Pcs, Advances, Delivering
  <2>2. UNCHANGED <<queue, failed, last, notBefore, persisted>>
    BY <1>2 DEF InvalidateCall, shared
  <2>3. Invalidate(thread.at)
    BY <1>2 DEF InvalidateCall
  <2>4. Types'
    BY <1>0, <2>1, <2>2, <2>3, InvalidateFacts DEF Types
  <2>5. Durable'
    BY <1>0, <2>1, <2>2, <2>3, InvalidateFacts DEF WorkerInv, Durable, PersistedIsDurable, Types
  <2>6. Ordered'
    BY <1>0, <2>1, <2>2, <2>3, InvalidateFacts, OrderedKept
  <2> QED
    BY <2>4, <2>5, <2>6 DEF WorkerInv
<1>3. CASE InvalidateTransient \/ InvalidateFails
  <2>1. thread' \in Threads /\ thread'.pc # "record" /\ Advances
    BY <1>0, <1>3, SyncReturnFacts
       DEF InvalidateTransient, InvalidateFails, Advances, Delivering
  <2>2. UNCHANGED <<queue, failed, last, notBefore, persisted>>
    BY <1>3 DEF InvalidateTransient, InvalidateFails
  <2>3. CASE Invalidate(thread.at)
    <3>1. Types'
      BY <1>0, <2>1, <2>2, <2>3, InvalidateFacts DEF Types
    <3>2. Durable'
      BY <1>0, <2>1, <2>2, <2>3, InvalidateFacts DEF WorkerInv, Durable, PersistedIsDurable, Types
    <3>3. Ordered'
      BY <1>0, <2>1, <2>2, <2>3, InvalidateFacts, OrderedKept
    <3> QED
      BY <3>1, <3>2, <3>3 DEF WorkerInv
  <2>4. CASE UNCHANGED outbox
    <3>1. UNCHANGED <<now, rows, control>>
      BY <2>4 DEF outbox
    <3>2. Types'
      BY <1>0, <2>1, <2>2, <3>1 DEF Types
    <3>3. Durable'
      BY <2>1, <2>2, <3>1 DEF WorkerInv, Durable, PersistedIsDurable
    <3>4. Ordered'
      BY <2>1, <2>2, <3>1, OrderedKept
    <3> QED
      BY <3>2, <3>3, <3>4 DEF WorkerInv
  <2> QED
    BY <1>3, <2>3, <2>4 DEF InvalidateTransient, InvalidateFails
<1>4. CASE Record
  <2>1. thread' \in Threads /\ thread'.pc # "record" /\ Advances
    BY <1>0, <1>4, SyncReturnFacts DEF Record, Advances, Delivering
  <2>2. /\ UNCHANGED <<now, rows, control, queue, failed, last, notBefore>>
        /\ persisted' = thread.at /\ thread.pc = "record"
    BY <1>4 DEF Record, outbox
  <2>3. Types'
    BY <1>0, <2>1, <2>2 DEF Types
  <2>4. Durable'
    BY <2>1, <2>2 DEF WorkerInv, Durable, PersistedIsDurable
  <2>5. Ordered'
    BY <2>1, <2>2, OrderedKept
  <2> QED
    BY <2>3, <2>4, <2>5 DEF WorkerInv
<1> QED
  BY <1>1, <1>2, <1>3, <1>4

\* The steps that touch neither the database nor what was admitted.
LEMMA LocalStep ==
    ASSUME WorkerInv, Loop \/ Check \/ Recheck \/ Delivered PROVE WorkerInv'
<1>0. Types /\ thread \in Threads
  BY DEF WorkerInv, Types
<1>1. /\ UNCHANGED <<now, rows, control, queue, failed, last, notBefore, persisted>>
      /\ thread.pc \notin {"record", "invalidate"}
  BY DEF Loop, Check, Recheck, Delivered, outbox, shared
<1>2. thread' \in Threads /\ thread'.pc # "record" /\ (Drops \/ Advances)
  <2>1. CASE Resume
    BY <1>0, <2>1, ResumeFacts DEF Drops, Delivering
  <2>2. CASE Goto("done") \/ Goto("get")
    BY <1>0, <2>2, GotoFacts DEF Pcs, Drops, Delivering
  <2>3. CASE Goto("sink") /\ Recheck
    BY <1>0, <2>3, GotoFacts DEF Pcs, Recheck, Advances, Delivering
  <2>4. CASE thread' = [thread EXCEPT !.pc = "sync", !.caller = "deliver"] /\ Check
    BY <1>0, <2>4 DEF Threads, Pcs, Check, Advances, Delivering
  <2> QED
    BY <2>1, <2>2, <2>3, <2>4 DEF Loop, Check, Recheck, Delivered
<1>3. Types'
  BY <1>0, <1>1, <1>2 DEF Types
<1>4. Durable'
  BY <1>1, <1>2 DEF WorkerInv, Durable, PersistedIsDurable
<1>5. Ordered'
  BY <1>1, <1>2, OrderedKept
<1> QED
  BY <1>3, <1>4, <1>5 DEF WorkerInv

LEMMA GetStep == ASSUME WorkerInv, Get PROVE WorkerInv'
<1>0. Types /\ thread \in Threads /\ 0 \notin Selections
  BY WorkerConstants DEF WorkerInv, Types
<1>1. UNCHANGED <<now, rows, control, failed, last, notBefore, persisted>>
  BY DEF Get, outbox
<1>2. CASE Resume /\ UNCHANGED queue
  <2>1. thread' \in Threads /\ thread'.pc # "record" /\ Drops
    BY <1>0, <1>2, ResumeFacts DEF Drops, Delivering
  <2>2. Types' /\ Durable'
    BY <1>0, <1>1, <1>2, <2>1 DEF WorkerInv, Types, Durable, PersistedIsDurable
  <2> QED
    BY <1>1, <2>1, <2>2, OrderedKept DEF WorkerInv
<1>3. CASE /\ queue # <<>>
           /\ thread' = [thread EXCEPT !.pc = "admit", !.selection = Head(queue)]
           /\ queue' = Tail(queue)
  <2>1. Head(queue) \in Selections /\ Tail(queue) \in Seq(Selections)
    BY <1>0, <1>3 DEF Types
  <2>2. thread' \in Threads /\ thread'.pc = "admit" /\ thread'.selection \in Selections
    BY <1>0, <1>3, <2>1 DEF Threads, Pcs
  <2>3. Types' /\ Durable'
    BY <1>0, <1>1, <1>3, <2>1, <2>2 DEF WorkerInv, Types, Durable, PersistedIsDurable
  <2>4. Ordered'
    BY <1>0, <1>1, <2>2 DEF WorkerInv, Ordered, Delivering, NoSelection
  <2> QED
    BY <2>3, <2>4 DEF WorkerInv
<1> QED
  BY <1>2, <1>3 DEF Get

\* Admitting a later decision moves the symbol's last selection forward.
LEMMA AdmitStep == ASSUME WorkerInv, Admit PROVE WorkerInv'
<1>0. Types /\ thread \in Threads /\ 0 \notin Selections
  BY WorkerConstants DEF WorkerInv, Types
<1>1. UNCHANGED <<now, rows, control, queue, notBefore, persisted>>
  BY DEF Admit, outbox
<1>2. CASE Resume /\ UNCHANGED last
  <2>1. thread' \in Threads /\ thread'.pc # "record" /\ Drops
    BY <1>0, <1>2, ResumeFacts DEF Drops, Delivering
  <2>2. Types' /\ Durable'
    BY <1>0, <1>1, <1>2, <2>1 DEF WorkerInv, Types, Durable, PersistedIsDurable
  <2> QED
    BY <1>1, <1>2, <2>1, <2>2, OrderedKept DEF WorkerInv
<1> DEFINE s == thread.selection
<1>3. CASE /\ Symbol[s] \notin failed
           /\ last[Symbol[s]] # NoSelection => DecisionAt[s] > DecisionAt[last[Symbol[s]]]
           /\ last' = [last EXCEPT ![Symbol[s]] = s]
           /\ Goto("check") /\ UNCHANGED failed
  <2>1. s \in Selections /\ Symbol[s] \in SymbolSet
    BY <1>0 DEF Admit, WorkerInv, Ordered, Threads, SymbolSet
  <2>2. thread' \in Threads /\ thread'.pc = "check" /\ thread'.selection = s
    BY <1>0, <1>3, GotoFacts DEF Pcs
  <2>3. /\ last' \in [SymbolSet -> Selections \cup {NoSelection}]
        /\ last'[Symbol[s]] = s
        /\ \A y \in SymbolSet : y # Symbol[s] => last'[y] = last[y]
    BY <1>0, <1>3, <2>1 DEF Types
  <2>4. Types'
    BY <1>0, <1>1, <2>2, <2>3 DEF Types
  <2>5. Durable'
    BY <1>1, <2>2 DEF WorkerInv, Durable, PersistedIsDurable
  <2>6. ASSUME NEW t \in Selections, rows[t] # NoRow
        PROVE  last'[Symbol[t]] # NoSelection /\ DecisionAt[t] <= DecisionAt[last'[Symbol[t]]]
    <3>1. /\ last[Symbol[t]] # NoSelection /\ DecisionAt[t] <= DecisionAt[last[Symbol[t]]]
          /\ Symbol[t] \in SymbolSet
      BY <2>6 DEF WorkerInv, Ordered, SymbolSet
    <3>2. last[Symbol[t]] \in Selections
      BY <1>0, <3>1 DEF Types
    <3>3. DecisionAt[t] \in Nat /\ DecisionAt[s] \in Nat /\ DecisionAt[last[Symbol[t]]] \in Nat
      BY <2>1, <3>2, DeliveryConstants
    <3>4. CASE Symbol[t] = Symbol[s]
      BY <1>0, <1>3, <2>1, <2>3, <3>1, <3>3, <3>4 DEF NoSelection
    <3>5. CASE Symbol[t] # Symbol[s]
      BY <2>3, <3>1, <3>5
    <3> QED
      BY <3>4, <3>5
  <2>7. Ordered'
    BY <1>0, <1>1, <1>3, <2>1, <2>2, <2>3, <2>6 DEF Ordered, Delivering, NoSelection
  <2> QED
    BY <2>4, <2>5, <2>7 DEF WorkerInv
<1> QED
  BY <1>2, <1>3 DEF Admit

\* A row is written for the selection being delivered, which is the last of its
\* symbol.
LEMMA SinkStep ==
    ASSUME WorkerInv, SinkCall \/ SinkTransient \/ SinkFails PROVE WorkerInv'
<1>0. Types /\ thread \in Threads /\ 0 \notin Selections
  BY WorkerConstants DEF WorkerInv, Types
<1> DEFINE s == thread.selection
<1>1. /\ s \in Selections /\ last[Symbol[s]] = s /\ Symbol[s] \notin failed
      /\ thread.pc = "sink" /\ Delivering
  BY <1>0 DEF SinkCall, SinkTransient, SinkFails, WorkerInv, Ordered, Delivering, Threads
<1>2. UNCHANGED <<queue, last, notBefore, persisted>> /\ (Write(s) \/ UNCHANGED outbox)
  BY DEF SinkCall, SinkTransient, SinkFails, shared
<1>3. thread' \in Threads /\ thread'.pc # "record" /\ (Drops \/ (Advances /\ UNCHANGED failed))
  <2>1. CASE Resume
    BY <1>0, <2>1, ResumeFacts DEF Drops, Delivering
  <2>2. CASE Goto("delivered") /\ UNCHANGED failed
    BY <1>0, <1>1, <2>2, GotoFacts DEF Pcs, Advances
  <2>3. CASE /\ thread' = [thread EXCEPT !.pc = "check", !.attempts = @ + 1]
             /\ UNCHANGED failed
    <3>0. thread.attempts + 1 \in Nat
      BY <1>0 DEF Threads
    <3>1. thread' \in Threads /\ thread'.pc = "check" /\ thread'.selection = s
      BY <1>0, <2>3, <3>0 DEF Threads, Pcs
    <3> QED
      BY <1>1, <2>3, <3>1 DEF Advances
  <2> QED
    BY <2>1, <2>2, <2>3 DEF SinkCall, SinkTransient, SinkFails, shared
<1>4. /\ rows' \in [Selections -> Row] /\ UNCHANGED <<now, control>>
      /\ \A t \in Selections : t # s => rows'[t] = rows[t]
  BY <1>0, <1>1, <1>2, WriteFacts
<1>5. Types'
  BY <1>0, <1>2, <1>3, <1>4 DEF Types
<1>6. Durable'
  BY <1>2, <1>3, <1>4 DEF WorkerInv, Durable, PersistedIsDurable
<1>7. ASSUME NEW t \in Selections, rows'[t] # NoRow
      PROVE  last'[Symbol[t]] # NoSelection /\ DecisionAt[t] <= DecisionAt[last'[Symbol[t]]]
  <2>1. CASE t = s
    <3>1. DecisionAt[s] \in Nat
      BY <1>1, DeliveryConstants
    <3> QED
      BY <1>0, <1>1, <1>2, <2>1, <3>1 DEF NoSelection
  <2>2. CASE t # s
    BY <1>2, <1>4, <1>7, <2>2 DEF WorkerInv, Ordered
  <2> QED
    BY <2>1, <2>2
<1>8. Ordered'
  BY <1>2, <1>3, <1>7 DEF WorkerInv, Ordered, Drops, Advances
<1> QED
  BY <1>5, <1>6, <1>8 DEF WorkerInv

LEMMA QuietStep == ASSUME WorkerInv, WorkerTick \/ UNCHANGED allVars PROVE WorkerInv'
<1>1. /\ UNCHANGED <<rows, control, queue, failed, last, notBefore, persisted, thread>>
      /\ now' \in Nat
  BY DEF WorkerTick, Tick, shared, allVars, outbox, WorkerInv, Types
<1>2. Types' /\ Durable'
  BY <1>1 DEF WorkerInv, Types, Durable, PersistedIsDurable
<1>3. Ordered'
  BY <1>1, OrderedKept DEF Advances, Delivering
<1> QED
  BY <1>2, <1>3 DEF WorkerInv

LEMMA StepInv == WorkerInv /\ [WorkerNext]_allVars => WorkerInv'
BY OfferStep, ProducerStep, SyncStep, LocalStep, GetStep, AdmitStep, SinkStep, QuietStep
   DEF WorkerNext, Run, Database

LEMMA Invariant == WorkerSpec => []WorkerInv
BY WorkerInitInv, StepInv, PTL DEF WorkerSpec

\* The watermark the worker thread believes persisted never runs ahead of the
\* database's, for any disconnects and any failures of the calls: it records
\* what it sent, not what was reported meanwhile (_sync_invalidation).
THEOREM WatermarkDurable == WorkerSpec => []PersistedIsDurable
BY Invariant, PTL DEF WorkerInv, Durable

\* Rows of a symbol are written in strictly increasing decision order and none
\* once the symbol is disabled, for every queue, budget and set of selections
\* (_run's admission, _deliver's retries, enqueue's unique decision clock).
THEOREM OrderlyWrites == WorkerSpec => WritesInOrder
<1>1. ASSUME WorkerInv, WorkerNext,
             NEW s \in Selections, rows[s] = NoRow, rows'[s] # NoRow
      PROVE  /\ Symbol[s] \notin failed
             /\ \A t \in Selections : Symbol[t] = Symbol[s] /\ rows[t] # NoRow
                   => DecisionAt[t] < DecisionAt[s]
  <2>0. Types
    BY <1>1 DEF WorkerInv
  <2>1. CASE SinkCall \/ SinkTransient \/ SinkFails
    <3>1. /\ thread.selection \in Selections
          /\ last[Symbol[thread.selection]] = thread.selection
          /\ Symbol[thread.selection] \notin failed
          /\ Write(thread.selection) \/ UNCHANGED outbox
      BY <1>1, <2>0, <2>1, WorkerConstants
         DEF SinkCall, SinkTransient, SinkFails, WorkerInv, Ordered, Delivering, Types, Threads
    <3>2. s = thread.selection
      BY <1>1, <2>0, <3>1, WriteFacts
    <3>3. \A t \in Selections : SameClock(s, t) => rows[t] = NoRow
      BY <1>1, <2>0, <3>1, <3>2, WriteFacts
    <3>4. ASSUME NEW t \in Selections, Symbol[t] = Symbol[s], rows[t] # NoRow
          PROVE  DecisionAt[t] < DecisionAt[s]
      <4>1. DecisionAt[t] <= DecisionAt[s]
        BY <1>1, <3>1, <3>2, <3>4 DEF WorkerInv, Ordered
      <4>2. DecisionAt[t] # DecisionAt[s]
        BY <3>3, <3>4 DEF SameClock
      <4>3. DecisionAt[t] \in Nat /\ DecisionAt[s] \in Nat
        BY DeliveryConstants
      <4> QED
        BY <4>1, <4>2, <4>3
    <3> QED
      BY <3>1, <3>2, <3>4
  <2>2. CASE InvalidateCall \/ InvalidateTransient \/ InvalidateFails
    <3>1. thread.at \in Nat
      BY <2>0 DEF Types, Threads
    <3>2. Invalidate(thread.at) \/ UNCHANGED rows
      BY <2>2 DEF InvalidateCall, InvalidateTransient, InvalidateFails, outbox
    <3> QED
      BY <1>1, <2>0, <3>1, <3>2, InvalidateFacts
  <2>3. CASE UNCHANGED rows
    BY <1>1, <2>3
  <2> QED
    BY <1>1, <2>1, <2>2, <2>3 DEF WorkerNext, Run, Database, Offer, Disconnected, Close, Discard,
       SyncRead, Record, Loop, Get, Admit, Check, Recheck, Delivered, WorkerTick, Tick, outbox
<1>2. WorkerInv /\ [WorkerNext]_allVars =>
         [\A s \in Selections : rows[s] = NoRow /\ rows'[s] # NoRow =>
             /\ Symbol[s] \notin failed
             /\ \A t \in Selections : Symbol[t] = Symbol[s] /\ rows[t] # NoRow
                   => DecisionAt[t] < DecisionAt[s]]_allVars
  BY <1>1
<1> QED
  BY <1>2, Invariant, PTL DEF WorkerSpec, WritesInOrder
=============================================================================
