CONSTANTS
    run = run
    api = api
    old = old
    Openers = {run, api}
    Newest = 1
    Known <- MCKnown
    MaxKills = 0
    Nobody = Nobody
SPECIFICATION SchemaSpec
INVARIANTS
    OpenSucceeds
