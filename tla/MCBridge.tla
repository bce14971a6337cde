------------------------------ MODULE MCBridge ------------------------------
EXTENDS Bridge

\* A primary that is a neighbour and two addresses further away.
MCConfigs ==
    {c \in [start : {"automatic", "lazy", "once"}, round_robin : BOOLEAN,
            clean : BOOLEAN, own_topic : BOOLEAN] :
        c.start # "lazy" => ~c.clean}

MCRemotes ==
    {[a \in Addresses |-> IF a = 1 THEN "up" ELSE "down"],
     [a \in Addresses |-> IF a = 0 THEN "up" ELSE "old"]}

=============================================================================
