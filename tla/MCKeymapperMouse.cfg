CONSTANTS
    a = a
    f5 = f5
    f10 = f10
    f11 = f11
    f12 = f12
    pageUp = pageUp
    pageDown = pageDown
    delete = delete
    left = left
    right = right
    middle = middle
    unknown = unknown
    p = p
    q = q
    Key <- MCKey
    Button <- MCButton
    Left = left
    Right = right
    Unknown = unknown
    F5 = f5
    F10 = f10
    F11 = f11
    F12 = f12
    PageUp = pageUp
    PageDown = pageDown
    Delete = delete
    Pos <- MCPos
    Files <- MCFiles
    MaxBindings = 2
    BlankBase = 100
    AimPid = 200
    MousePid = 1
    MayRefuse = FALSE
    MaxHeld = 2
SPECIFICATION Spec
INVARIANTS HeldKeyTouches
