---------------------------- MODULE MCAutomations ----------------------------
(* Small instances of Automations.                                            *)
EXTENDS Automations
=============================================================================
