SPECIFICATION Spec
CONSTANT Entries = {"ask", "ask_for_sql", "repair"}
INVARIANTS StagesNest EventsMatchTimings TerminalAgrees ResponseHonest
PROPERTY ImplementsContract
CHECK_DEADLOCK FALSE
