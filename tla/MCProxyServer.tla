---------------------------- MODULE MCProxyServer ----------------------------
(* Instances of ProxyServer for TLC: the values are in the .cfg files.       *)
EXTENDS ProxyServer

=============================================================================
