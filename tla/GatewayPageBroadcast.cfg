\* Three reads of a page that is hidden once, without commands.
SPECIFICATION Spec
CONSTANTS
    Reads = {r1, r2, r3}
    First = r1
    Commands = {}
    MaxChanges = 2
    MaxHidden = 1
INVARIANT BroadcastsShow
CHECK_DEADLOCK FALSE
