CONSTANTS
    run = run
    api = api
    old = old
    Openers = {run, api, old}
    Newest = 2
    Known <- MCKnown
    MaxKills = 2
    Nobody = Nobody
SPECIFICATION SchemaSpec
INVARIANTS
    SchemaSound
PROPERTIES
    MigratesKnownSchema
