SPECIFICATION Spec
CONSTANTS
    app = app
    inner = inner
    appFile = appFile
    splitFile = splitFile
    appCache = appCache
    innerCache = innerCache
    Missing = Missing
    Partial = Partial
    NoId = NoId
    NoProject = NoProject
    Hashes = {app, inner}
    Embeds <- MCEmbeds
    CachePath <- MCCachePath
    ApkPaths = {appFile}
    SplitPaths = {splitFile}
    Marks = {m}
    Tasks = {t1, t2}
    Changing = {}
CHECK_DEADLOCK FALSE
PROPERTIES
    ExtractedIsWhole
