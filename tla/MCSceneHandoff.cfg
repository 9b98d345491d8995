SPECIFICATION Spec
CONSTANTS
    h1 = h1
    h2 = h2
    m1 = m1
    e1 = e1
    e2 = e2
    e3 = e3
    Null = Null
    Devices = {d1}
    Handles = {h1, h2}
    RegistryIds = {i1}
    Managers = {m1}
    EntryIds = {e1, e2, e3}
    NumFeeds = 2
    MaxDevices = 1
    MaxResources = 2
    MaxCounter <- MCLimits
    Graphs <- MCGraphs
    Observers = {o1, o2}
    Recorders = {r1}
SYMMETRY ObserverSymmetry
INVARIANTS
    TypeOK
    PublicationIsRegistered
    CurrentMatchIsLive
    PublishedAsInspected
PROPERTIES
    SequenceNeverRegresses
