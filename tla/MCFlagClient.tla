---------------------------- MODULE MCFlagClient ----------------------------
(***************************************************************************)
(* An instance of FlagClient for TLC: an empty and a longer list, a stream *)
(* that holds two events, and one or two replicas in front of a client     *)
(* that polls, streams or does both.  One command can bring the store to   *)
(* either list and one round may read a wrong one, so that one write, or   *)
(* the wrong reading alone, lets the lists change back and forth.          *)
(***************************************************************************)
EXTENDS FlagClient

CONSTANTS r1, r2, l1

MCReplicas == {r1, r2}
MCLists == {NoFlags, l1}
MCOrders == {1, 2}
MCSetups ==
    [up : {{r1}}, started : {{"sse"}, {"poll"}}, writes : {2}] \cup
    [up : {{r1}}, started : {{"sse", "poll"}}, writes : {1}] \cup
    [up : {{r1, r2}}, started : {{"sse"}, {"poll"}}, writes : {1}] \cup
    [up : {{r1, r2}}, started : {{"sse", "poll"}}, writes : {0}]
===============================================================================
