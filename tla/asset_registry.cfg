SPECIFICATION RegistryFairSpec
CONSTANTS
    Asset = {a1}
    Fetch = {f1, f2}
    Poll = {p1}
    Called = {c1}
    Job = {j1, j2}
INVARIANTS
    RegisteredIsCarried
    RegisteredIsListed
PROPERTIES
    BoardRecovers
    FormSettles
