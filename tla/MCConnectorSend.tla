--------------------------- MODULE MCConnectorSend ---------------------------
(* Instances of ConnectorSend: two writing threads and one worker.         *)
EXTENDS ConnectorSend
=============================================================================
