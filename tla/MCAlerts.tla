------------------------------ MODULE MCAlerts ------------------------------
(***************************************************************************)
(* Instances of Alerts for TLC.  A user who switches a rule off saves it   *)
(* with the same settings, disabled.                                       *)
(***************************************************************************)
EXTENDS Alerts, TLC

CONSTANTS n1, n2

Saved(scope, condition, mode) ==
  {[scope |-> scope, condition |-> condition, mode |-> mode, enabled |-> e] : e \in BOOLEAN}

\* A rule edited between its scopes, its conditions and the two cooldowns.
EditedRule == UNION {Saved(scope, "sustained", "cooldown") \cup Saved(scope, "instant", "count") :
                       scope \in {n1, "global"}}

\* A rule edited between sustained and repeated.
RepeatedRule == Saved(n1, "sustained", "cooldown") \cup Saved(n1, "repeated", "cooldown")

GlobalRule == Saved("global", "sustained", "cooldown")

=============================================================================
