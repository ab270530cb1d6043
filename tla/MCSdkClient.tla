---------------------------- MODULE MCSdkClient ----------------------------
(***************************************************************************)
(* TLC instance of SdkClient: two calls, on one client, where they compete *)
(* for the lock, or on two, where they meet in the registry only.          *)
(***************************************************************************)
EXTENDS SdkClient
=============================================================================
