------------------------------ MODULE MCWsConn ------------------------------
(* Instances of WsConn. *)
EXTENDS WsConn

Built(autoReconnect, heartbeat) == [autoReconnect |-> autoReconnect, heartbeat |-> heartbeat]
AsEstablished == {Built(TRUE, FALSE)}
BothWays == {Built(TRUE, FALSE), Built(FALSE, TRUE)}

NoCloses     == {{}}
CloseWsOnly  == {{"CloseWs"}}
EitherCloses == {{"Close"}, {"CloseWs"}}
=============================================================================
