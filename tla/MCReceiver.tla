----------------------------- MODULE MCReceiver -----------------------------
(* Small instances of Receiver for TLC. *)
EXTENDS Receiver

CONSTANTS ClientCommands, OutsideCommands, ClientStreams, UdpStreams

MCCommands == [c \in Conn \cup {NoConn} |->
                 IF c \in Conn THEN ClientCommands ELSE OutsideCommands]
MCStreams == [s \in Conn \cup {Udp} |->
                 IF s \in Conn THEN ClientStreams ELSE UdpStreams]
=============================================================================
