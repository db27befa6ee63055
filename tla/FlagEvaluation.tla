--------------------------- MODULE FlagEvaluation ---------------------------
(***************************************************************************)
(* What a flag decides for a caller (FeatureFlag.IsFlagEnabled) and which  *)
(* variant an experiment assigns to a user (Experiment.AssignVariant).     *)
(*                                                                         *)
(* hashString is 32-bit arithmetic over the bytes of a name; what depends  *)
(* on it is the bucket of a user and the hash of a user and an experiment, *)
(* which are constants here.  int is 64 bits wide, as in the builds the    *)
(* repository describes, so the hash is never negative.                    *)
(*                                                                         *)
(* A definition marked "faulty" is a plausible bug in the one after it and *)
(* is not used.                                                            *)
(***************************************************************************)
EXTENDS Integers, Sequences

CONSTANTS
    Users, Tenants, Headers,
    Anonymous,    \* the user or the tenant of a caller that names none
    Bucket,       \* hashString(user) % 100
    VariantHash,  \* hashString(user | experiment)
    Variants

ASSUME FlagEvaluationAssumption ==
    /\ Anonymous \notin Users /\ Anonymous \notin Tenants
    /\ Bucket \in [Users -> 0 .. 99]
    /\ VariantHash \in [Users -> Nat]

(***************************************************************************)
(* The rules as the API decodes them: a rollout is any integer, a value    *)
(* means a user, a tenant or a header's name.  Rules are tried in turn and *)
(* any that matches decides, so that their order makes no difference.      *)
(***************************************************************************)
Rules == [type : {"user"}, value : Users]
    \cup [type : {"tenant"}, value : Tenants]
    \cup [type : {"header"}, value : Headers]
    \cup [type : {"percentage"}, rollout : Int]

Flags == [enabled : BOOLEAN, rules : SUBSET Rules]

(* headers are the names whose value is not empty                          *)
Contexts == [user : Users \cup {Anonymous}, tenant : Tenants \cup {Anonymous},
             headers : SUBSET Headers]

MatchesBelowHundred(rule, ctx) ==  \* faulty
    \/ rule.type = "user" /\ ctx.user = rule.value
    \/ rule.type = "tenant" /\ ctx.tenant = rule.value
    \/ rule.type = "header" /\ rule.value \in ctx.headers
    \/ /\ rule.type = "percentage" /\ ctx.user # Anonymous
       /\ rule.rollout \in 1 .. 99 /\ Bucket[ctx.user] < rule.rollout

(***************************************************************************)
(* Matches: percentages reach users that have a name only.                 *)
(***************************************************************************)
Matches(rule, ctx) ==
    \/ rule.type = "user" /\ ctx.user = rule.value
    \/ rule.type = "tenant" /\ ctx.tenant = rule.value
    \/ rule.type = "header" /\ rule.value \in ctx.headers
    \/ /\ rule.type = "percentage" /\ ctx.user # Anonymous
       /\ rule.rollout > 0 /\ Bucket[ctx.user] < rule.rollout

IsFlagEnabled(f, ctx) ==
    /\ f.enabled
    /\ f.rules = {} \/ \E rule \in f.rules : Matches(rule, ctx)

(***************************************************************************)
(* AssignVariant, of an experiment that has variants.                      *)
(***************************************************************************)
AssignVariant(variants, user) == variants[(VariantHash[user] % Len(variants)) + 1]

(***************************************************************************)
(* Extends(f, g): every rule of f is in g, if with a higher rollout, and f *)
(* has rules: the first rule of a flag without any takes users away.       *)
(***************************************************************************)
Covers(new, old) ==
    IF old.type = "percentage"
    THEN new.type = "percentage" /\ new.rollout >= old.rollout
    ELSE new = old

Extends(f, g) ==
    /\ f.enabled => g.enabled
    /\ f.rules # {}
    /\ \A old \in f.rules : \E new \in g.rules : Covers(new, old)
===============================================================================
