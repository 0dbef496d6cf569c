\* The extractions and manifests of MCPlanning.
CONSTANT None = None
SPECIFICATION Spec
INVARIANT WebhookKeepsItsDetail
CHECK_DEADLOCK FALSE
