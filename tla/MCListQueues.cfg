\* Four PCBs in three lists.
CONSTANTS
    Entry = {0, 1, 2, 3}
    Heads = {10, 11, 12}
SPECIFICATION LQSpec
INVARIANTS LinksAreLists FreeEntriesUnlinked
