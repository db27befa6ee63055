---------------------------- MODULE MCDemoService ----------------------------
(***************************************************************************)
(* An instance of DemoService for TLC: two requests at once overtake each  *)
(* other on their way into the list, which holds two.                      *)
(***************************************************************************)
EXTENDS DemoService

CONSTANTS h1, h2, p1

MCCallers == {h1, h2}
MCReplays == {p1}
MCReplayLimits == {1, 2}
MCLatencies == {200}
===============================================================================
