------------------------------ MODULE MCGraph -------------------------------
(* A recursion over two methods, one of them overloaded in name, and a leaf. *)
EXTENDS TaintGraph

MCRefs == {"main", "mainLoop", "helper", "log"}
MCCallsOf ==
    [r \in MCRefs \ {"log"} |->
        CASE r = "main"     -> <<"helper", "mainLoop", "helper">>
          [] r = "mainLoop" -> <<"main", "log">>
          [] r = "helper"   -> <<"helper", "mainLoop">>]
MCSimilar == [r \in MCRefs |-> IF r = "main" THEN {"main", "mainLoop"} ELSE {r}]
=============================================================================
