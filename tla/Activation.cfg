SPECIFICATION EntrySpec
CONSTANT MaxReloads = 1
PROPERTY LedOn
CHECK_DEADLOCK FALSE
