CONSTANTS
    c1 = c1
    c2 = c2
    s1 = s1
    s2 = s2
    l1 = l1
    l2 = l2
    None = None
    Home = s1
    Scopes = {s1, s2}
    Changes = {c1, c2}
    Loads = {l1, l2}
    Screens <- MCScreens
SPECIFICATION ScreenSpec
SYMMETRY Interchangeable
INVARIANTS ShownIsStored ToldIsTrue
PROPERTIES ManualChoiceStays
