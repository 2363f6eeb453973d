----------------------------- MODULE AsyncSpec -----------------------------
(***************************************************************************)
(* What liteco_async_send promises its caller (src/lc_async.c:26-42): a    *)
(* send on a handler is followed by a run of that handler's callback, and  *)
(* sends that arrive before the callback starts are served by one run.     *)
(***************************************************************************)

CONSTANT Handler

VARIABLE requested   \* handlers sent since their callback last started

Init == requested = {}

Send(h) == requested' = requested \cup {h}

Serve(h) ==
    /\ h \in requested
    /\ requested' = requested \ {h}

Next == \E h \in Handler : Send(h) \/ Serve(h)

Spec ==
    /\ Init
    /\ [][Next]_requested
    /\ \A h \in Handler : WF_requested(Serve(h))
=============================================================================
