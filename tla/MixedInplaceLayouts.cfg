\* One weight tensor. Prompt calls name the paired gate/up layout, decode
\* calls read the plain one; every pack succeeds.
CONSTANTS
    Threads = {t1}
    w1 = w1
    w2 = w2
    Weights = {w1}
    Pools <- OnePool
    Layouts = {paired, plain}
    PromptLayouts = {paired}
    DecodeLayouts = {plain}
    Environments <- OnlyAnyFirst
    Nobody = Nobody
SPECIFICATION Spec
INVARIANTS
    GemmReadsItsLayout
