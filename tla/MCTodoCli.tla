----------------------------- MODULE MCTodoCli -----------------------------
(* Instantiation of TodoCli for TLC: two concurrent invocations, one      *)
(* account, two titles, two todo ids.                                      *)
EXTENDS TodoCli, TLC

CONSTANTS p1, p2, e1, pw1, pw2

MCProcs == {p1, p2}
MCEmails == {e1}
MCPasswords == {pw1, pw2}
MCTitles == {"a", "b"}
MCHosts == {"localhost", "remote"}
MCMaxId == 2

\* Lines typed at the delete prompt: y with its newline, Y padded with a
\* space, an empty line (EOF), "yy" and "n".
MCInputs == {<<"y", "\n">>, <<" ", "Y">>, <<>>, <<"y", "y">>, <<"n", "\n">>}

Arg(kind) == [NoArgs EXCEPT !.kind = kind]

\* The task commands of the CLI, on todo 1.
TaskCmds ==
    { [Arg("create") EXCEPT !.title = "b"],
      [Arg("update") EXCEPT !.id = 1, !.title = "b"],
      [Arg("update") EXCEPT !.id = 1, !.completed = FALSE],
      [Arg("done") EXCEPT !.id = 1],
      [Arg("undone") EXCEPT !.id = 1],
      [Arg("get") EXCEPT !.id = 1],
      [Arg("list") EXCEPT !.completed = TRUE],
      [Arg("delete") EXCEPT !.id = 1],
      [Arg("delete") EXCEPT !.id = 1, !.force = TRUE] }

\* Task runs: an account e1 that exists, todo 1 titled "a" either absent or
\* present in either state, no todo 2 yet, and a settings file that is
\* absent or unreadable (the only difference a task command can see).
TasksInit ==
    /\ Init
    /\ accounts = [e \in MCEmails |-> pw1]
    /\ cfgFile \in {[file |-> "absent"], Unreadable}
    /\ todos[2] = Absent
    /\ todos[1] = Absent \/ todos[1].title = "a"

TasksSpec == TasksInit /\ [][Next]_vars /\ Fairness

\* Auth and settings commands, and a list that shows which token was used.
AuthCmds ==
    { [Arg("login") EXCEPT !.email = e1, !.pw = pw1],
      [Arg("login") EXCEPT !.email = e1],
      [Arg("register") EXCEPT !.email = e1, !.pw = pw2],
      Arg("logout"),
      Arg("status"),
      Arg("config-show"),
      [Arg("set-url") EXCEPT !.setUrl = "remote"],
      [Arg("list") EXCEPT !.url = "remote"],
      Arg("list") }

\* Auth runs: no todos; the keyring, the settings file and the account
\* can be in any state.  The server listens on the host set-url saves.
AuthInit == Init /\ \A i \in Ids : todos[i] = Absent

AuthSpec == AuthInit /\ [][Next]_vars /\ Fairness

\* Task commands that render their result, with --format json.
JsonCmds ==
    { [Arg("get") EXCEPT !.id = 1, !.fmt = "json"],
      [Arg("done") EXCEPT !.id = 1, !.fmt = "json"] }
=============================================================================
