----------------------------- MODULE SessionView -----------------------------
(***************************************************************************)
(* What the main thread is promised of the sessions, whichever of the two  *)
(* network libraries it runs on: LNetWorkServices with its threads         *)
(* (Dispatch) or LSelectServer (SelectServer).  Both hand it packets that  *)
(* say that a session is there, what it received, and that it is gone      *)
(* (src/NetWork/LServerBaseNetWork.cpp:165-176,                            *)
(* src/MultiClientUseSelectModel/SelectServerMainLogicThread.cpp).         *)
(***************************************************************************)
EXTENDS Naturals, Sequences

CONSTANTS
    Sessions,
    StopsAtEnd,     \* no frame comes once the session is gone
    MayLose         \* the library may give a session's news up

VARIABLES
    heard,          \* what the main thread knows: "none", "up", "gone", or nothing sure: "lost"
    given           \* the frames it was given

vars == <<heard, given>>

Init == heard = [s \in Sessions |-> "none"] /\ given = [s \in Sessions |-> <<>>]

\* A session is announced once, and before anything else of it.
Begin(s) ==
    /\ heard[s] = "none" /\ heard' = [heard EXCEPT ![s] = "up"]
    /\ UNCHANGED given

\* Its frames come in the order its peer sent them, each once and none left out.
Frame(s) ==
    /\ heard[s] = "up" \/ (heard[s] = "gone" /\ ~StopsAtEnd)
    /\ given' = [given EXCEPT ![s] = Append(@, Len(@) + 1)]
    /\ UNCHANGED heard

\* The end is told after all this, and the session does not come back.
End(s) ==
    /\ heard[s] = "up" /\ heard' = [heard EXCEPT ![s] = "gone"]
    /\ UNCHANGED given

\* Nothing is promised any more of the sessions in S.
Lose(S) ==
    /\ MayLose
    /\ heard' = [s \in Sessions |-> IF s \in S THEN "lost" ELSE heard[s]]
    /\ given' = [s \in Sessions |-> IF s \in S THEN <<>> ELSE given[s]]

Next ==
    \/ \E S \in SUBSET Sessions : Lose(S)
    \/ \E s \in Sessions : Begin(s) \/ Frame(s) \/ End(s)

Spec == Init /\ [][Next]_vars
=============================================================================
