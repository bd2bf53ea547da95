SPECIFICATION WebhookSpec
CONSTANTS
    Deployment = {1, 2, 3}
    PR = {p1, p2, p3}
    Handler = {h1, h2}
    MaxPreviews = 1
    MaxPerMonth = 3
    MaxActive = 1
SYMMETRY Symmetry
INVARIANT WebhookTypeOK
INVARIANT OnePreviewPerPR
INVARIANT PreviewsAreCapped
CHECK_DEADLOCK FALSE
