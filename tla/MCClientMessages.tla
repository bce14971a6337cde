-------------------------- MODULE MCClientMessages --------------------------
(***************************************************************************)
(* Instances of ClientMessages for TLC.                                    *)
(***************************************************************************)
EXTENDS ClientMessages

(***************************************************************************)
(* Publishing over broken connections, with and without a limit; messages  *)
(* of QoS 2 both ways over a connection that breaks, with retries of       *)
(* either side; QoS 1 both ways with the same; messages of every QoS over  *)
(* one connection with a retry of the client.                              *)
(***************************************************************************)
MCScenarios ==
    {[max_inflight |-> n, out |-> <<2, 1, 2>>, in |-> <<>>,
      losses |-> IF n = 0 THEN 2 ELSE 1, timeouts |-> 0, repeats |-> 0] : n \in {0, 2}}
    \cup {[max_inflight |-> 0, out |-> <<2>>, in |-> <<2>>,
           losses |-> 1, timeouts |-> 0, repeats |-> 1],
          [max_inflight |-> 0, out |-> <<1>>, in |-> <<2, 2>>,
           losses |-> 1, timeouts |-> 1, repeats |-> 0],
          [max_inflight |-> 0, out |-> <<1, 2>>, in |-> <<2>>,
           losses |-> 2, timeouts |-> 0, repeats |-> 0],
          [max_inflight |-> 0, out |-> <<2, 0>>, in |-> <<2, 0>>,
           losses |-> 0, timeouts |-> 1, repeats |-> 0],
          [max_inflight |-> 0, out |-> <<1>>, in |-> <<1, 1>>,
           losses |-> 1, timeouts |-> 1, repeats |-> 1]}

\* Three messages one after the other, at most two in flight.
WindowScenario ==
    {[max_inflight |-> 2, out |-> <<1, 1, 1>>, in |-> <<>>,
      losses |-> 0, timeouts |-> 0, repeats |-> 0]}

\* A message under way to the client when the connection breaks.
ListScenario ==
    {[max_inflight |-> 0, out |-> <<2>>, in |-> <<2>>,
      losses |-> 1, timeouts |-> 0, repeats |-> 0]}

\* The same, without a message from the client.
RepeatScenario ==
    {[max_inflight |-> 0, out |-> <<>>, in |-> <<2>>,
      losses |-> 1, timeouts |-> 0, repeats |-> 0]}
=============================================================================
