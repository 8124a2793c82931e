---------------------------- MODULE MCChatServer ----------------------------
(***************************************************************************)
(* Model checking of ChatServer: the symmetric sets, and a specification   *)
(* with a clock that runs for ever, for the liveness properties.           *)
(***************************************************************************)
EXTENDS ChatServer, TLC

SocketSymmetry == Permutations(Socks)
Symmetry == Permutations(Socks) \union Permutations(Names)
-----------------------------------------------------------------------------
(***************************************************************************)
(* Only differences between the clock, the tick and the deadlines matter,  *)
(* and of a deadline in the past only that it has passed.  So every call   *)
(* of WorldUpdate may restart the clock at 0.  MaxTime then bounds what    *)
(* passes between the starts of two calls.                                 *)
(***************************************************************************)
Rebased(u) == IF u.endPoint <= now THEN [u EXCEPT !.endPoint = 0]
                                              ELSE [u EXCEPT !.endPoint = @ - now]

RebasedWake ==
    /\ pc = "sleep" /\ db # "none"
    /\ pc' = "accept"
    /\ tick' = 0 /\ now' = 0
    /\ db' \in IF db = "up" THEN {"up"} ELSE {"up", "down"}
    /\ conn' = [i \in Slots |-> IF conn[i] = None THEN None ELSE Rebased(conn[i])]
    /\ sent' = {}
    /\ heard' = [i \in Slots |-> 0] /\ probed' = [i \in Slots |-> 0]
    /\ UNCHANGED <<idx, link, backlog, leaked, data>>

RebasedUpdate == RebasedWake \/ WakeWithoutConnection \/ Accept \/ CheckKeepAlive \/ Handle

RebasedNext == \/ \E connected \in BOOLEAN : Boot(connected)
               \/ RebasedUpdate
               \/ Environment

\* The server's loop never blocks: its sockets are non-blocking and its sleep is
\* finite.  The clock runs.  Nobody has to connect, send, answer or restart.
RebasedSpec ==
    /\ Init /\ [][RebasedNext]_vars
    /\ WF_vars(RebasedUpdate)
    /\ WF_vars(Elapse)
=============================================================================
