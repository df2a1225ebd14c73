SPECIFICATION Spec
CONSTANTS
    Rows = {r1}
    MaxCommits = 2
INVARIANT IncrementalQueryHasBookmark
