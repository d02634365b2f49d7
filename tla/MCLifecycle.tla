---------------------------- MODULE MCLifecycle ----------------------------
(* Lifecycle with two device connections and one web request, enough for a *)
(* connection that is counted in time beside one that is not.              *)
EXTENDS Lifecycle
=============================================================================
