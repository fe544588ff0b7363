SPECIFICATION FairSpec
CONSTANTS r1 = r1 r2 = r2 None = None
CONSTANT Requests <- TwoRequests
INVARIANT NothingStale
PROPERTIES SetUpForGood OwnSliceUnlessOvertaken HandedOff
