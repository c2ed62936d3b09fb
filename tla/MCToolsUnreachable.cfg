\* What the README says of the tools a server lists.
SPECIFICATION Spec
CONSTANTS
    Reviewers = {"ann", "bob"}
    Forced = {"bob"}
    Ids = {"list.a", "list_a"}
    Candidates = {"seen"}
    Invented = {"made up"}
    Alphabet <- MCAlphabet
    MaxRounds = 1
    Output = 1
    Shelf <- MCShelf
    Provider = "acme"
    Methods = {"api_key_header", "session_cookie", "aws_sigv4"}
    Slug <- MCSlug
    ToolNames <- MCToolNames
    Keys = {"api_key_header", "aws_sigv4"}
PROPERTY ListedToolsDispatch
CHECK_DEADLOCK FALSE
