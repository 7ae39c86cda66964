--------------------------- MODULE MCPulseMonitor ----------------------------
(***************************************************************************)
(* Small fleets for PulseMonitor: one machine with two of the              *)
(* demonstration's probes, and two of which one is unmanaged, with a probe *)
(* the policy does not clear, and the other did not consent.               *)
(***************************************************************************)
EXTENDS PulseMonitor

Restarting == [step |-> [Look EXCEPT !.rule = "approve.service-restart"],
               finds |-> {"healthy"}]

SmallFleets ==
    {<<[device |-> "managed", probes |-> <<Dns>> \o demoPulseTargets[3].probes]>>,
     <<[device |-> "unmanaged", probes |-> <<Restarting, Dns>>],
       [device |-> "unconsented", probes |-> <<Dns>>]>>}
=============================================================================
