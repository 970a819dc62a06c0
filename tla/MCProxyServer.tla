---------------------------- MODULE MCProxyServer ----------------------------
(* Scripts for the runs of ProxyServer.                                    *)
EXTENDS ProxyServer, TLC

CONSTANTS c1, c2

(* A long stream of either kind, or two short ones.                        *)
OneOrTwo ==
  {(c1 :> <<"text", "message", "message", "garbage">>) @@ (c2 :> << >>),
   (c1 :> <<"binary", "message", "garbage", "message">>) @@ (c2 :> << >>),
   (c1 :> <<"malformed">>) @@ (c2 :> << >>),
   (c1 :> <<"text">>) @@ (c2 :> <<"binary">>)}
=============================================================================
