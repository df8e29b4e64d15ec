CONSTANTS
    Node = "node"
    Page = "page"
    Refused = "refused"
    Apps = {"app"}
    Calls <- MCCalls
    From <- MCFrom
    To <- MCTo
    Path <- MCPath
    After <- MCAfter
    Boot <- MCBoot
    Closing <- MCClosing

SPECIFICATION FairSpec
INVARIANT NoLeftovers
INVARIANT RightRefusals
PROPERTY ImplementsRpc
PROPERTY CallsAnswered
CHECK_DEADLOCK FALSE
