-------------------------- MODULE MCRealtimeClient --------------------------
(* RealtimeClient for TLC.                                                 *)
EXTENDS RealtimeClient

CONSTANTS e1, e2

MCEvents == {e1, e2}

\* An event that is changed again after another one, and one that is not.
MCHistories == {<<e1, e2, e1>>, <<e1, e2, e2>>}

============================================================================
