\* Every operation on sections and questions, two handlers at a time.
SPECIFICATION MCSpec
CONSTANTS
    r1 = r1
    r2 = r2
    Requests = {r1, r2}
    Sections = {1, 2, 3}
    Questions = {1, 2}
    Fields = {1, 2}
    Operations = {"new_section", "update_section", "destroy_section", "create_question", "update_question", "destroy_question", "sort_sections", "sort_questions"}
    MaxPosition = 3
    MaxDeaths = 1
INVARIANTS IInv QuestionsCounted FieldsDistinct Reachable SectionOrder
PROPERTY SortTakesEffect
SYMMETRY Handlers
CHECK_DEADLOCK FALSE
