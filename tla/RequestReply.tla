---------------------------- MODULE RequestReply ----------------------------
(***************************************************************************)
(* What the request and response programs of utils/ promise on one         *)
(* connection: requests are answered once and in order, the client has at  *)
(* most Window of them outstanding, and as long as the client keeps the    *)
(* connection open every request is answered and every answer reaches it.  *)
(***************************************************************************)
EXTENDS Naturals

CONSTANT Window    \* a natural number

VARIABLES
    issued,     \* requests the client has sent completely
    answered,   \* responses the server has sent
    delivered,  \* responses the client has taken
    open        \* the client has not closed the connection

vars == <<issued, answered, delivered, open>>

Init ==
    /\ issued = 0
    /\ answered = 0
    /\ delivered = 0
    /\ open = TRUE

Issue ==
    /\ open
    /\ issued < delivered + Window
    /\ issued' = issued + 1
    /\ UNCHANGED <<answered, delivered, open>>

Answer ==
    /\ answered < issued
    /\ answered' = answered + 1
    /\ UNCHANGED <<issued, delivered, open>>

Deliver ==
    /\ open
    /\ delivered < answered
    /\ delivered' = delivered + 1
    /\ UNCHANGED <<issued, answered, open>>

Close ==
    /\ open
    /\ open' = FALSE
    /\ UNCHANGED <<issued, answered, delivered>>

Next == Issue \/ Answer \/ Deliver \/ Close

Spec == Init /\ [][Next]_vars

FairSpec == Spec /\ WF_vars(open /\ Answer) /\ WF_vars(Deliver)
=============================================================================
