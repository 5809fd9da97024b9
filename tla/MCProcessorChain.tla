-------------------------- MODULE MCProcessorChain --------------------------
EXTENDS ProcessorChain, TLC

T == INSTANCE Topology

\* A task over a flat pipeline: Source, bridge, two processors, Sink.
FlatPrev == T!WiredPrev(Last, 1 :> (Last - 1))
=============================================================================
