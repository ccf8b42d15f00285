\* Real bucket sizes; windows around heights 1, the first millions
\* boundary, the 45,000,000 regression case of the spec, and the three
\* precompile transitions.
CONSTANTS
    ThousandsSize = 1000
    MillionsSize = 1000000
    Centres = {1001, 1000000, 41121887, 42675776, 44868476, 45000000}
    Span = 1000
SPECIFICATION Spec
INVARIANT ScriptsAgree
INVARIANT ShardsPartitionHeights
INVARIANT PrecompileInForce
INVARIANT RawBytesExact
INVARIANT HeaderBitExact
INVARIANT VariantTagsRoundTrip
\* The walk ends at the highest test height.
CHECK_DEADLOCK FALSE
