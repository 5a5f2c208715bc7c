\* Two threads, two pools that share w1, one CK layout.
CONSTANTS
    Threads = {t1, t2}
    w1 = w1
    w2 = w2
    Weights = {w1, w2}
    Pools <- TwoPools
    Layouts = {tight}
    PromptLayouts = {tight}
    DecodeLayouts = {tight}
    Environments <- EveryEnvironment
    Nobody = Nobody
SPECIFICATION Spec
INVARIANTS
    TypeOK
    GemmReadsItsLayout
    OneMutator
    OverwrittenWhenPacked
    RecordCoversThePool
SYMMETRY ThreadSymmetry
