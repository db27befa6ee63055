----------------------------- MODULE MCFlagStream -----------------------------
(***************************************************************************)
(* Instances of FlagStream for TLC: a flag can change within environment   *)
(* "e1", move to "e2" and back, and be deleted.                            *)
(***************************************************************************)
EXTENDS FlagStream, TLC

CONSTANTS n1, h1, h2, s1

MCOneName == {n1}
MCEnvs == {"e1", "e2"}
MCDefs == {[env |-> "e1", rev |-> 1], [env |-> "e1", rev |-> 2], [env |-> "e2", rev |-> 1]}

MCOneHandler == {h1}
MCHandlers == {h1, h2}

MCOneSubscriber == {s1}
MCTopicE1 == (s1 :> "e1")

Symmetry == Permutations(Handlers)
===============================================================================
