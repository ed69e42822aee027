--------------------------- MODULE MCConversation ---------------------------
(* A thread's parts in one state graph: the event log, the agent's session   *)
(* and the send service.  A behaviour exercises the part its focus names; the *)
(* others stay where they begin.                                              *)
EXTENDS AgentSession, EventLog, MessageSend, TLC

CONSTANT Foci           \* the parts a run exercises

VARIABLE focus

vars == <<focus, logVars, sessionVars, sendVars>>

Init ==
    /\ focus \in Foci
    /\ LogInit /\ SessionInit /\ SendInit

Next ==
    /\ UNCHANGED focus
    /\ \/ focus = "log" /\ LogNext /\ UNCHANGED <<sessionVars, sendVars>>
       \/ focus = "session" /\ SessionNext /\ UNCHANGED <<logVars, sendVars>>
       \/ focus = "send" /\ SendNext /\ UNCHANGED <<logVars, sessionVars>>

Spec == Init /\ [][Next]_vars

\* What the model checker may exchange for one another.
Symmetry ==
    Permutations(Requests) \cup Permutations(Contents)

-----------------------------------------------------------------------------
(* The properties are the modules' own. *)
=============================================================================
