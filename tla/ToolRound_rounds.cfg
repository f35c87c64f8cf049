CONSTANTS
    NCalls = 2
    Kinds = {"unknown", "refused", "allowed", "ask", "approval"}
    Senders = {s1, s2}
    MaxRounds = 2
SPECIFICATION FairSpec
INVARIANTS ApprovedOnly ApprovalsSettled RoundIsClosed
PROPERTIES AbortEndsRun MessageInterruptsApproval
