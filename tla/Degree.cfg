SPECIFICATION ScriptSpec
CONSTANTS
  EdgeLists <- MCEdgeLists
  Flags <- MCFlags
INVARIANTS
  OutputIsRelabelling
  OutputIsSorted
