CONSTANTS
    Urls = {u1, u2}
    MaxDownloads = 3
    MaxCancels = 1
SPECIFICATION Spec
INVARIANTS TypeOK BooksAgree
PROPERTIES CancelSettles
CHECK_DEADLOCK FALSE
