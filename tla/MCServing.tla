----------------------------- MODULE MCServing -----------------------------
(***************************************************************************)
(* An instance of Serving for TLC: two clients, users in the lowest and    *)
(* the highest bucket, and flags with every kind of rule.                  *)
(***************************************************************************)
EXTENDS Serving, TLC

CONSTANTS c1, c2, u1, u2, t1, h1, a, b

MCClients == {c1, c2}
MCUsers == {u1, u2}
MCSymmetry == Permutations(MCClients)
MCTenants == {t1}
MCHeaders == {h1}
MCBucket == [u \in Users |-> IF u = u1 THEN 0 ELSE 99]
MCVariantHash == [u \in Users |-> IF u = u1 THEN 0 ELSE 7]
MCVariants == {a, b}
MCBounds == <<1, 5>>
MCDurations == {3}
MCExperiments == {<<a, b>>}

Percentage(n) == [type |-> "percentage", rollout |-> n]

MCFlags == {[enabled |-> TRUE, rules |-> {Percentage(1)}],
            [enabled |-> TRUE,
             rules |-> {[type |-> "user", value |-> u2], [type |-> "tenant", value |-> t1],
                        [type |-> "header", value |-> h1], Percentage(100)}]}

MCContexts == {[user |-> u1, tenant |-> Anonymous, headers |-> {}],
               [user |-> u2, tenant |-> Anonymous, headers |-> {}],
               [user |-> Anonymous, tenant |-> t1, headers |-> {}],
               [user |-> Anonymous, tenant |-> Anonymous, headers |-> {h1}]}
===============================================================================
