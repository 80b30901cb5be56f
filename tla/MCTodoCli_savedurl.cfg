CONSTANTS
    p1 = p1
    p2 = p2
    e1 = e1
    pw1 = pw1
    pw2 = pw2
    None = None
    Procs <- MCProcs
    Cmds <- AuthCmds
    Emails <- MCEmails
    Passwords <- MCPasswords
    Titles <- MCTitles
    Hosts <- MCHosts
    DefaultHost = "localhost"
    ServerHost = "remote"
    Inputs <- MCInputs
    MaxId <- MCMaxId
SPECIFICATION AuthSpec
INVARIANT SavedUrlUsed
