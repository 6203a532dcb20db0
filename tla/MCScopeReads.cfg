SPECIFICATION Spec
CONSTANTS
    Node = {1, 2, 3}
    Root = 0
    NoRow = 99
    Scenes <- MCScenes
PROPERTIES ReadsTrue ListsTrue
CHECK_DEADLOCK FALSE
