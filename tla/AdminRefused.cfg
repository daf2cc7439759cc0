SPECIFICATION AccessSpec
CONSTANT Grants <- SeededGrants
INVARIANT AdminMayDoEverything
CHECK_DEADLOCK FALSE
