----------------------------- MODULE MCUdpProxy ------------------------------
(* Instances of UdpProxy for TLC: the values are in the .cfg files.          *)
EXTENDS UdpProxy

=============================================================================
