----------------------------- MODULE RemoteCall -----------------------------
(***************************************************************************)
(* What a calling thread is promised of its calls of the server: each is   *)
(* executed at most once, in whatever order, and also after the caller has *)
(* given it up; an answer ends the call it belongs to, and comes only      *)
(* after that call has been executed.                                      *)
(***************************************************************************)
EXTENDS Naturals

VARIABLES
    calls,      \* calls made; the last may be under way
    waiting,    \* it is
    executed,   \* calls the server has executed
    answered    \* the last call that was answered, or 0

callVars == <<calls, waiting, executed, answered>>

CallInit ==
    /\ calls = 0
    /\ waiting = FALSE
    /\ executed = {}
    /\ answered = 0

Ask ==
    /\ ~waiting
    /\ calls' = calls + 1
    /\ waiting' = TRUE
    /\ UNCHANGED <<executed, answered>>

Execute(n) ==
    /\ n \in (1 .. calls) \ executed
    /\ executed' = executed \cup {n}
    /\ UNCHANGED <<calls, waiting, answered>>

TakeAnswer ==
    /\ waiting
    /\ calls \in executed
    /\ answered' = calls
    /\ waiting' = FALSE
    /\ UNCHANGED <<calls, executed>>

GiveUp ==
    /\ waiting
    /\ waiting' = FALSE
    /\ UNCHANGED <<calls, executed, answered>>

CallNext ==
    \/ Ask
    \/ TakeAnswer
    \/ GiveUp
    \/ \E n \in 1 .. calls : Execute(n)

CallSpec == CallInit /\ [][CallNext]_callVars
=============================================================================
