------------------------------- MODULE MCIntake -------------------------------
(* Values of the constants of WebhookIntake for model checking.            *)
EXTENDS WebhookIntake

(* Foreign requests have no sender; they name the number of a thread, like *)
(* those of the listener's own tests, or all of it.                        *)
Incomplete ==
  {[by |-> "nobody", names |-> {"issueNumber"}, signature |-> "missing"],
   [by |-> "nobody", names |-> ThreadNames, signature |-> "invalid"]}

===============================================================================
