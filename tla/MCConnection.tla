---------------------------- MODULE MCConnection ----------------------------
(* Instances of Connection for TLC.                                        *)
EXTENDS Connection

MCKinds == {"wide", "setname", "list"}
=============================================================================
