SPECIFICATION Spec
\* Playlists, documents and requests end.
CHECK_DEADLOCK FALSE
INVARIANT SegmentsFollow
INVARIANT RefreshIsOwn
INVARIANT SelectionIsRight
INVARIANT WindowKept
INVARIANT CuesKeepTime
PROPERTY SegmentsStay
