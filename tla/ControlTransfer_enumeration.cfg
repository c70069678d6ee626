SPECIFICATION FairSpec
CONSTANTS
    Requests <- MCRequests
    ResetPolls = 2
    MaxErrors = 1
INVARIANTS
    ReplyIsExact
    AddressInStep
PROPERTIES
    TransferEnds
