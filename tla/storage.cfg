SPECIFICATION Spec
CONSTANTS
    m1 = m1
    m2 = m2
    n1 = n1
    n2 = n2
    f1 = f1
    f2 = f2
    Nobody = Nobody
    Medias <- TheMedias
    Flashes <- TheFlashes
    Files <- TheFiles
    BlockSectors = 4
    Blocks = 4
    Habits <- AllHabits
SYMMETRY Alike
CHECK_DEADLOCK FALSE
INVARIANTS ListsAreTrue MediaFits
