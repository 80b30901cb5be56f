CONSTANTS
    p1 = p1
    p2 = p2
    e1 = e1
    pw1 = pw1
    pw2 = pw2
    None = None
    Procs <- MCProcs
    Cmds <- AuthCmds
    Emails <- MCEmails
    Passwords <- MCPasswords
    Titles <- MCTitles
    Hosts <- MCHosts
    DefaultHost = "localhost"
    ServerHost = "localhost"
    Inputs <- MCInputs
    MaxId <- MCMaxId
SPECIFICATION AuthSpec
PROPERTY AuthSuccessStoresValidToken
INVARIANT OutcomeMatchesServer
PROPERTY ServiceSpec
PROPERTY InvocationEnds
