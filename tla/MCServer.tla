------------------------------ MODULE MCServer ------------------------------
(* The parts of the server around its handlers side by side for TLC: a      *)
(* behaviour is one of the request loop, of the start, of the parser of      *)
(* uploads or of the lists.                                                 *)
EXTENDS FrontEnd, Startup, MultipartForm, Listing

VARIABLE part   \* the part this behaviour is about

ServerInit ==
    /\ part \in {"front", "start", "form", "list"}
    /\ Init /\ StartInit /\ FormInit /\ ListInit

ServerNext ==
    \/ part = "front" /\ Next /\ UNCHANGED <<part, startVars, formVars, listVars>>
    \/ part = "start" /\ StartNext /\ UNCHANGED <<part, vars, formVars, listVars>>
    \/ part = "form" /\ FormNext /\ UNCHANGED <<part, vars, startVars, listVars>>
    \/ part = "list" /\ ListNext /\ UNCHANGED <<part, vars, startVars, formVars>>

ServerVars == <<part, vars, startVars, formVars, listVars>>

ServerSpec == ServerInit /\ [][ServerNext]_ServerVars /\ Fairness

\* Values around the bounds that validate() looks at, and names it knows or not.
MCOffered ==
    [port |-> {0}, threads |-> {0, 257}, account |-> {"given"}, min |-> {0, 3, 25},
     max |-> {2, 30}, cache |-> {"redis", "memcached"}, capacity |-> {0, 1},
     storage |-> {"fastdfs", "s3"}, model |-> {"unknown"}]

\* Page sizes: refused ones, small ones, one that is never filled.
MCLimits == {-1, 0, 1, 2, 7}
=============================================================================
