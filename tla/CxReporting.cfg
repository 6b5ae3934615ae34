\* Two handlers on reviews, or on the details and files of a collection.
SPECIFICATION MCSpec
CONSTANTS
    r1 = r1
    r2 = r2
    Requests = {r1, r2}
    Collections = {1, 2}
    Details = {1}
    Uploads = {1, 2}
    Rows = {1, 2}
    Jobs = {1, 2}
    Operations = {"create", "copy", "submit", "publish", "no_report", "reset", "destroy", "create_detail", "destroy_detail", "upload", "process", "destroy_upload"}
    Recorded = {"submit"}
    MaxDeaths = 1
INVARIANTS IInv SubmittedDated Announced WholeImport Traceable
SYMMETRY Handlers
CHECK_DEADLOCK FALSE
