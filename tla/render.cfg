SPECIFICATION FairSpec
CONSTANT MaxFrames = 3
INVARIANTS CallbackAlive NothingLeftRunning
PROPERTIES RenderedInOrder FrameLeaves StopReturns
