---------------------------- MODULE MCVersionCheck ----------------------------
(* Three versions, and a TTL of one hour.                                  *)
EXTENDS VersionCheck
=============================================================================
