---------------------------- MODULE MCTaskEndpoint ----------------------------
(***************************************************************************)
(* Small instances of TaskEndpoint for TLC.                                *)
(***************************************************************************)
EXTENDS TaskEndpoint

Post(type, fields) ==
  [path |-> "task", method |-> "POST", json |-> TRUE, taskType |-> type,
   fields |-> fields]

(* Tasks of both types, a pr task nobody owns, a request that is no JSON,  *)
(* the wrong method, and the probe.                                        *)
SomePayloads ==
  {Post("comment", RequestFields), Post("pr", RequestFields), Post("pr", RequestFields \ {"taskOwner"}),
   [Post("comment", RequestFields) EXCEPT !.json = FALSE],
   [Post("comment", {}) EXCEPT !.method = "GET"],
   [Post("comment", {}) EXCEPT !.path = "health"],
   [Post("comment", {}) EXCEPT !.path = "health", !.method = "GET"]}

=============================================================================
