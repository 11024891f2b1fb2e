---------------------------- MODULE MCDevManager ----------------------------
(* DevManager with small sets of children, requests and packages. *)
EXTENDS DevManager, TLC

MCWatchers == {"config", "env", "package"}
MCChanges == {"skeleton", "page", "env", "package"}

=============================================================================
