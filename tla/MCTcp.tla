-------------------------------- MODULE MCTcp --------------------------------
(* One TCP socket and its peer over a network without faults.                *)
EXTENDS TcpSocket
=============================================================================
