----------------------------- MODULE MCWsProxy -----------------------------
(***************************************************************************)
(* Instances of WsProxy for TLC.                                           *)
(***************************************************************************)
EXTENDS WsProxyInv

Deployed(cookie) == [auth |-> TRUE, mock |-> FALSE, cookie |-> cookie]
LocalMock        == [auth |-> FALSE, mock |-> TRUE, cookie |-> "absent"]

(* The deployed configuration with every kind of cookie, and local mock     *)
(* mode without authentication.                                             *)
MCDeployments ==
    {Deployed("good"), Deployed("forged"), Deployed("absent"), LocalMock}

(* For liveness: the deployed configuration, logged in. *)
LoggedIn == {Deployed("good")}
=============================================================================
