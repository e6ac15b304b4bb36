---------------------------- MODULE MCCloudSync ----------------------------
(* A bridge with one filter, one edit in the cloud.                        *)
EXTENDS CloudSync
=============================================================================
