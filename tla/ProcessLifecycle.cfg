CONSTANTS
    MaxFaults = 2
    MaxMessages = 3
SPECIFICATION FairSpec
INVARIANTS TypeOK SafeRelease MissesOnlyRefused TornDownQuietly SwallowedOnce
PROPERTIES RegisteredBeforeRunning ShutdownNeverHangs ReadingsStored
