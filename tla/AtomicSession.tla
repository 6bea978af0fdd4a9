---------------------------- MODULE AtomicSession ----------------------------
(***************************************************************************)
(* What the paper repository promises its callers: one session per trade   *)
(* date, changed by one whole command at a time.  A command that raises,   *)
(* is blocked or changes nothing leaves the session alone.                 *)
(***************************************************************************)
CONSTANTS
    EmptySession,       \* revision zero
    Commands(_),        \* commands callers may issue in a session
    Admissible(_, _),   \* a well-formed command within the model's bounds
    Transition(_, _)    \* the session a command leads to; ok if it did not raise

VARIABLE session

Init == session = EmptySession

Execute(c) ==
    /\ Admissible(session, c)
    /\ \E next \in {Transition(session, c)} : next.ok /\ session' = next

Next == \E c \in Commands(session) : Execute(c)

Spec == Init /\ [][Next]_session
=============================================================================
