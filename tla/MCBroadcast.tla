----------------------------- MODULE MCBroadcast ------------------------------
(***************************************************************************)
(* Two clients, payloads of no octet and of more than a socket has room    *)
(* for beside the head.                                                    *)
(***************************************************************************)
EXTENDS BroadcastSafety
CONSTANTS c1, c2

TwoClients == {c1, c2}
FewOctets  == {0, 3}
=============================================================================
