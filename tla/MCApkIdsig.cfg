SPECIFICATION ApkSpec
CONSTANTS
    Names = {"classes.dex", "META-INF/MANIFEST.MF"}
    SignatureNames = {"META-INF/MANIFEST.MF"}
    Data = {"old", "new"}
    Keys = {k1, k2}
    Apks <- MCApks
    NoApk = NoApk
    Truncated = Truncated
    Sidecars = {TRUE}
    MaxAdditions = 1
CHECK_DEADLOCK FALSE
INVARIANTS
    IdsigNamesMasterDigest
