\* Two handlers: the decisions about one response, or its tags, or the trash or tags of two.
SPECIFICATION MCSpec
CONSTANTS
    r1 = r1
    r2 = r2
    Subs = {1, 2}
    Requests = {r1, r2}
    Operations = {"create", "flag", "unflag", "archive", "unarchive", "mark", "unmark", "delete", "undelete", "add_tag", "remove_tag", "search", "destroy"}
    Tags = {"help", "bug"}
    RawTags = {"Help", "help", "bug"}
    Normal <- MCNormal
    Recorded = {"delete"}
    PageSize = 1
    Pages = {1, 2}
    TrashAge = 0
    MaxDay = 2
    MaxDeaths = 1
INVARIANTS CountCoversRows ModerationAudited IInv PairsWhole ActiveTagsCached
PROPERTIES DecisionsIndependent PurgeAccounted
SYMMETRY Handlers
CHECK_DEADLOCK FALSE
