SPECIFICATION Spec
CONSTANT MaxHops = 2
PROPERTY WrittenIsRead RelayKeepsMembers
CHECK_DEADLOCK FALSE
