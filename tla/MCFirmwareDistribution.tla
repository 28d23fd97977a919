----------------------- MODULE MCFirmwareDistribution -----------------------
EXTENDS FirmwareDistribution, TLC
CONSTANTS x, y
MCNodes == <<x, y>>
\* two blocks, of two chunks and of one; all chunks are of the same length
MCLengths == (0 :> (0 :> 8 @@ 1 :> 8)) @@ (1 :> (0 :> 8))
=============================================================================
