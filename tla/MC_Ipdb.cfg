SPECIFICATION Spec
CONSTANTS
    Days = 2
    Window <- MCWindow
    MaxDownloadAttempts = 2
    MaxFaults = 1
    File <- MCFile
    Handle <- MCHandle
VIEW View
INVARIANTS
    TypeOK
    DownloadsWithinQuota
    HandlesAreOwned
    InstalledIsWhole
    NextStartHasADatabase
    NeverOlder
