-------------------------- MODULE SessionContract --------------------------
(***************************************************************************)
(* What the recycling of LSession objects promises to the threads that     *)
(* work on them: a thread joins only a session that carries a connection,  *)
(* and an object is handed to the next connection, or back to the pool,    *)
(* only when nobody works on it any more.                                  *)
(***************************************************************************)
CONSTANTS
    Session,        \* the objects that are recycled
    Threads         \* the threads that work on them

VARIABLES
    phase,          \* of each session: "pooled", "live" or "closing"
    users           \* the pairs <<thread, session>> at work

vars == <<phase, users>>

Unused(s) == \A t \in Threads : <<t, s>> \notin users

Init ==
    /\ phase = [s \in Session |-> "pooled"]
    /\ users = {}

Become(s, from, to) ==
    /\ phase[s] = from
    /\ phase' = [phase EXCEPT ![s] = to]
    /\ UNCHANGED users

\* A connection gets an object nobody works on.
Open(s) == Unused(s) /\ Become(s, "pooled", "live")

\* The connection could not be announced: nobody has seen the object yet.
Abort(s) == Unused(s) /\ Become(s, "live", "pooled")

\* The connection ends while threads may still be at work.
Retire(s) == Become(s, "live", "closing")

\* All of them are through.
Recycle(s) == Unused(s) /\ Become(s, "closing", "pooled")

Join(t, s) ==
    /\ phase[s] = "live"
    /\ \A r \in Session : <<t, r>> \notin users
    /\ users' = users \cup {<<t, s>>}
    /\ UNCHANGED phase

Part(t, s) ==
    /\ <<t, s>> \in users
    /\ users' = users \ {<<t, s>>}
    /\ UNCHANGED phase

Next == \E s \in Session :
            \/ Open(s) \/ Abort(s) \/ Retire(s) \/ Recycle(s)
            \/ \E t \in Threads : Join(t, s) \/ Part(t, s)

Spec == Init /\ [][Next]_vars
=============================================================================
