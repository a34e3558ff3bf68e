---------------------------- MODULE MCChangeFeed ----------------------------
(* ChangeFeed on small instances.                                            *)
EXTENDS ChangeFeed
=============================================================================
