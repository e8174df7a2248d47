--------------------------- MODULE PcapngOutputMC ---------------------------
(* PcapngOutput on small instances.                                           *)
EXTENDS PcapngOutput

Capture(ifaces, described, use_threads, packet_limit) ==
    [ifaces |-> ifaces, described |-> described, use_threads |-> use_threads,
     packet_limit |-> packet_limit]

\* A source passed through, with and without threads; a pcapng source and a
\* device, without and with a limit on the queue; two pcapng sources.
MCConfigs ==
    {Capture(<<"pcapng">>, <<2>>, FALSE, 0),
     Capture(<<"pcapng">>, <<2>>, TRUE, 0),
     Capture(<<"pcapng">>, <<2>>, TRUE, 1),
     Capture(<<"pcapng", "device">>, <<2, 0>>, TRUE, 0),
     Capture(<<"pcapng", "device">>, <<2, 0>>, TRUE, 1),
     Capture(<<"pcapng", "pcapng">>, <<2, 1>>, TRUE, 0)}
=============================================================================
