CONSTANTS Container = {"my_web", "my.web", "db"} UserLine = {u1} Job = {j1, j2} MaxLives = 2 MaxChanges = 2
SPECIFICATION Spec
INVARIANT UserLinesKept
CHECK_DEADLOCK FALSE
