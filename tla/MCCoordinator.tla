--------------------------- MODULE MCCoordinator ----------------------------
(* Coordinator for TLC: the values a .cfg cannot write down.               *)
EXTENDS Coordinator

CONSTANTS s1, s2

PortList == <<s1, s2>>
=============================================================================
