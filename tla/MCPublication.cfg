SPECIFICATION Spec
CONSTANTS
    given = given
    b1 = b1
    b2 = b2
    other = other
    r1 = r1
    job = job
    bag = bag
    result = result
    Free = Free
    Names = {job, bag, result}
    Calls = {given, b1, b2, other, r1}
    Given = {given}
    Name <- NameOf
    Content <- ContentOf
    Needs <- NeedsOf
    Folder <- FolderIs
CHECK_DEADLOCK FALSE
SYMMETRY Interchangeable
INVARIANTS Survives Closed SameBytesAgree
PROPERTIES ImplementsWriteOnce
