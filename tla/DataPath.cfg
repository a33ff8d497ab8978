CONSTANTS
    Byte = {0, 1}
    Streams <- TreeFiles
    Gear <- TwoGears
    MaskLo = 1
    MaskHi = 3
    MinSize = 1
    AvgSize = 2
    MaxSize = 4
    Normalization = 1
    ReadFails = TRUE
    EntryCells = 2
    MaxHeaderSize = 5
    SuggestedTailSize = 5
    MaxEntries = 3
    NumShards = 2
    ShardOf <- ByFirstByte
    Trees <- SomeTrees
    PackTarget = 4
    Damages = {"index", "record", "pack"}
SPECIFICATION PathSpec
INVARIANTS ChunkerTypeOK EveryByteOnce SizesBounded ContentDefined RestoredExactly IndexRecovered
PROPERTY PacksSuffice
