SPECIFICATION FairSpec
CONSTANTS
    Requests <- MCRequests
    Principals <- MCPrincipals
    PrincipalOf <- MCPrincipalOf
    Confs <- MCConfs
    MaxMinute = 1
INVARIANTS
    SlotsCounted
    NoLostWakeup
    ReserveKept
    HolderFindsRoom
PROPERTIES
    RefusedWhenSpent
    Unstuck
