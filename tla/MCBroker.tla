------------------------------- MODULE MCBroker -------------------------------
(* Instances of Broker for TLC.  Every service of the repository opens one *)
(* reliable and one unreliable stream and names the latter.                *)
EXTENDS Broker, TLC

CONSTANTS lifeline_stream, gameplay_stream

TheStreams == {lifeline_stream, gameplay_stream}
TheReliable == {lifeline_stream}
TheGameplayStream == {gameplay_stream}

Symmetry == Permutations(Conns) \cup Permutations(Topics)
=============================================================================
