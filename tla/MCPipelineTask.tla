--------------------------- MODULE MCPipelineTask ---------------------------
EXTENDS PipelineTask, TLC

T == INSTANCE Topology

\* Source, the bridge of the user's pipeline, its processors, Sink.
FlatPrev == T!WiredPrev(Last, 1 :> (Last - 1))
=============================================================================
