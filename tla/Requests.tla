------------------------------ MODULE Requests ------------------------------
(***************************************************************************)
(* What the modules of the control plane share: handlers, each one request *)
(* and its database connection at a time (db.get_conn), and the absence of *)
(* a value.                                                                *)
(***************************************************************************)
CONSTANTS Handlers, None
=============================================================================
