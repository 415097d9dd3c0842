----------------------------- MODULE MCThrottle ------------------------------
(* Model-checking instance of ModelCall.                                   *)
EXTENDS ModelCall

CONSTANTS c1, c2,
          Wirings   \* what the client may have been given

MCInit == Init /\ wired \in Wirings

MCSpec ==
  /\ MCInit /\ [][Next]_vars /\ WF_vars(Tick)
  /\ \A c \in Callers : WF_vars(Start(c) \/ Step(c))
=============================================================================
