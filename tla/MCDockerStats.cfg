SPECIFICATION Spec
CONSTANTS
    web = web
    db = db
    job = job
    webId = webId
    webName = webName
    dbId = dbId
    typo = typo
    all = all
    Containers = {web, db, job}
    Refs = {webId, webName, dbId, typo, all}
    RefersTo <- MCRefersTo
    Requests <- MCRequests
    AllRef = all
INVARIANTS
    OneEntryPerTarget
    NoWorkerLeft
PROPERTIES
    CallAnswered
