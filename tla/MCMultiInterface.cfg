SPECIFICATION Spec
CONSTANTS
    MaxLinks = 3
    LeftSubnet <- MCLeftSubnet
    RightSubnet <- MCRightSubnet
CHECK_DEADLOCK FALSE
INVARIANTS AddressingInv SubnetsAreSegments ArpIsRight RoutesLeadToRouter
