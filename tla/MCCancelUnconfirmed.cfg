CONSTANT Polls <- MCPolls
SPECIFICATION Spec
INVARIANT CancelOnlyUnconfirmed
