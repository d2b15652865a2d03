----------------------------- MODULE MCNetCapture -----------------------------
(* A listener, a connection and a CAN stub. *)
EXTENDS NetCapture

UdpTcpCan == <<"udp", "tcp", "can">>
===============================================================================
