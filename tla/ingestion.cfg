SPECIFICATION Spec
CONSTANTS
    m1 = m1
    sent = sent
    inbox = inbox
    Messages = {m1}
    Folders = {sent, inbox}
    Jobs = {"poll", "folder"}
    Nobody = Nobody
    NumConvs = 2
    ConvOf <- MCConvOf
    FolderOf <- MCFolderOf
    ContentOf <- MCContentOf
    Order <- MCOrder
    MaxChanges = 3
    MaxFaults = 1
    MaxNotes = 1
INVARIANTS
    TypeOK
    TokenVouches
PROPERTIES
    MirrorCatchesUp
    OpenMailIsReduced
CHECK_DEADLOCK FALSE
