------------------------------- MODULE MCCpuGraph -------------------------------
EXTENDS CpuGraph

\* One layer of each kind, the embedding before the second.
MCLayers == <<[kind |-> "gdn", ple |-> FALSE], [kind |-> "qsa", ple |-> TRUE],
              [kind |-> "gdn", ple |-> FALSE]>>
MCOneLayer == <<[kind |-> "gdn", ple |-> FALSE]>>
=============================================================================
