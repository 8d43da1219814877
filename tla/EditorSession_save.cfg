\* Up to four units of text, batches of up to two accepted and over three sent
\* in parts, through drops, lost buffers, late updates, fences and refusals.
CONSTANTS
    MaxEdits = 4
    MaxFaults = 2
    MaxRefusals = 2
    MaxUpdate = 2
    ChunkSize = 3
SPECIFICATION Spec
INVARIANTS
    SavedIsStored
    QuietIsSaved
PROPERTIES
    EditsEventuallySaved
\* Once every edit is saved nothing need happen.
CHECK_DEADLOCK FALSE
