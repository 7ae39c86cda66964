--------------------------- MODULE MCDesktopBridge ---------------------------
(***************************************************************************)
(* Deployments for DesktopBridge: the curated gateway serves one prefix or *)
(* the other, the simulated one both; the path may be pinned, the token    *)
(* wrong, the authority issued or simulated, or something missing.         *)
(***************************************************************************)
EXTENDS DesktopBridge

Simulated == [configured |-> TRUE, drivable |-> TRUE, authority |-> "simulated",
              token |-> TRUE, pinned |-> "unknown", serves |-> {"ait", "aillium"}]

Deployments ==
    {Simulated,
     [Simulated EXCEPT !.authority = "issuer", !.serves = {"aillium"}],
     [Simulated EXCEPT !.serves = {"ait"}, !.pinned = "aillium"],
     [Simulated EXCEPT !.token = FALSE],
     [Simulated EXCEPT !.serves = {}],
     [Simulated EXCEPT !.authority = "none"],
     [Simulated EXCEPT !.configured = FALSE],
     [Simulated EXCEPT !.drivable = FALSE]}
=============================================================================
