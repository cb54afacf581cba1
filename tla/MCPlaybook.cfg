SPECIFICATION Spec
CONSTANTS
    up = up
    upload = upload
    setup = setup
    local = local
    remote = remote
    t1 = t1
    t2 = t2
    localhost = localhost
    none = none
    Word <- MCWord
    Within <- MCWithin
    None = none
    Localhost = localhost
    Inputs <- PassInputs
INVARIANTS
    BookTypeOK
    PlaysAsWritten
