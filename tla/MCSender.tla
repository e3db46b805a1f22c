------------------------------ MODULE MCSender ------------------------------
(* Small instances of the sender and the receiptor.                        *)
EXTENDS Sender

AnyFault == FaultKind
=============================================================================
