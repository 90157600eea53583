SPECIFICATION Spec
INVARIANTS InscriptionsRead IndexIsOneBranch BlocksRead RowsReadBack PagesComplete
CHECK_DEADLOCK FALSE
