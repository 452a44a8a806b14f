------------------------------- MODULE UrlLoad --------------------------------
(***************************************************************************)
(* What a URL protocol owes the loading system that started it: a response *)
(* and then its data, and exactly one end, which is its finish, an error   *)
(* or, in place of a response, a redirect.  After stopLoading it says      *)
(* nothing more.                                                           *)
(***************************************************************************)
EXTENDS Naturals

VARIABLES
    phase,   \* what the client has been told
    data,    \* pieces of data it has been given
    stopped  \* stopLoading was called

vars == <<phase, data, stopped>>

Init == phase = "started" /\ data = 0 /\ stopped = FALSE

Tell(from, to) ==
    /\ ~stopped
    /\ phase \in from
    /\ phase' = to
    /\ UNCHANGED <<data, stopped>>

Respond == Tell({"started"}, "responded")

LoadData ==
    /\ ~stopped
    /\ phase = "responded"
    /\ data' = data + 1
    /\ UNCHANGED <<phase, stopped>>

Finish == Tell({"responded"}, "finished")
Fail == Tell({"started", "responded"}, "failed")
Redirect == Tell({"started"}, "redirected")
Stop == stopped' = TRUE /\ UNCHANGED <<phase, data>>

Next == Respond \/ LoadData \/ Finish \/ Fail \/ Redirect \/ Stop

Spec == Init /\ [][Next]_vars
=============================================================================
