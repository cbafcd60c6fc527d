SPECIFICATION MCSpec
CONSTANTS
    None = None
    Nil = Nil
    Parts = {"keyboard"}
    Commands <- MCCommands
    Arguments <- MCArguments
    KEYB_BUFFER_LIMIT = 2
    Modifiers <- MCModifiers
    Letters = {"A"}
    Silent = {}
    RESET = "RESET"
    Texts <- MCAccents
    Plain <- MCPlain
    Width <- MCWidth
    Encoded <- MCEncoded
    CLIPBOARD_BUFFER_LIMIT = 4
    Widest = 2
    Farthest = 1
    MOUSE_BUFFER_LIMIT = 2
    Blocks = {0, 1}
    Data = {"blank", "written"}
    Disks <- MCDisks
    Requests <- MCRequests
    ResponseLength = 1
CONSTRAINT Bound
INVARIANT PlainTextSurvives
