SPECIFICATION MCSpec
CONSTANTS
    Ids = {t1, t2}
    Names = {app, blog}
    Calls = {c1, c2, c3}
    NoId = NoId
    NoEntry = NoEntry
    NoTask = NoTask
SYMMETRY Symmetry
INVARIANTS
    NoOrphanUnlessRaced
    RunsWhatIsConfigured
    NamesStayDistinct
    SavedUnlessReported
    DisconnectStopsAll
