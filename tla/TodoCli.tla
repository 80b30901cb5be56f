------------------------------- MODULE TodoCli -------------------------------
(***************************************************************************)
(* todo-cli (src/tools/todo-cli/src): every process in Procs is one        *)
(* invocation of the `todo` binary.  Invocations share the OS keyring      *)
(* (Config::set_token / clear_token / load_token_from_keyring), the        *)
(* settings file config.toml (Config::load / save) and the remote server,  *)
(* which they reach over HTTP through ApiClient.  An invocation parses its *)
(* arguments, loads settings and token, runs one command with at most one *)
(* request, prints, and exits.  The server is modelled from the wire       *)
(* protocol of the spec, since its code is not part of this repository.    *)
(***************************************************************************)
EXTENDS Naturals, Sequences, Functions, ConfirmInput

CONSTANTS
    Procs,       \* invocations of the binary
    Cmds,        \* parsed command lines (see NoArgs) an invocation may run
    Emails,      \* account e-mails; the token the server issues for e is e
    Passwords,   \* passwords passed with --password or typed at the prompt
    Titles,      \* todo titles
    Hosts,       \* hosts a --url, TODO_API_URL or `config set-url` may name
    DefaultHost, \* host of clap's default_value "http://localhost:8080"
    ServerHost,  \* the host the server listens on
    Inputs,      \* lines the user may type at the delete prompt
    MaxId,       \* the server assigns ids 1..MaxId: bound on creations
    None         \* an absent Option

ASSUME /\ MaxId \in Nat \ {0}
       /\ DefaultHost \in Hosts /\ ServerHost \in Hosts
       /\ None \notin Emails \cup Passwords \cup Titles \cup Hosts

Ids == 1..MaxId
Tokens == Emails
Todo == [id : Ids, user_id : Emails, title : Titles, completed : BOOLEAN]
Absent == [absent |-> TRUE]

\* config.toml: missing, not TOML, not readable, or a document whose
\* optional api_url is parsed.
CfgFiles == [file : {"absent", "corrupt", "unreadable"}] \cup [api_url : Hosts \cup {None}]
Unreadable == [file |-> "unreadable"]

\* toml::from_str(&content).unwrap_or_default(): a document that does not
\* parse, and an absent file, give Config::default(), whose api_url is None.
UrlOf(f) == IF "api_url" \in DOMAIN f THEN f.api_url ELSE None

\* Config::set_url: api_url becomes Some(url); save serializes api_url only
\* (token and config_path are #[serde(skip)]).
SetUrlDoc(url) == [api_url |-> url]

\* A parsed command line with every optional argument absent.  `url` is the
\* global --url / TODO_API_URL, `setUrl` the argument of `config set-url`.
NoArgs == [kind |-> "config-show", url |-> None, fmt |-> "text",
           email |-> None, pw |-> None, id |-> None, title |-> None,
           completed |-> None, force |-> FALSE, setUrl |-> None]

VARIABLES
    keyring,   \* OS secret store entry (todo-cli, api_token): a token or None
    cfgFile,   \* config.toml on disk
    accounts,  \* server: e-mail -> password, or None when not registered
    todos,     \* server: id -> Todo, or Absent
    nextId,    \* server: the id the next created todo gets
    cmd,       \* per invocation: its parsed command line (Cli::parse)
    pc,        \* per invocation: "start", "run", "confirm", "wait", "save", "done"
    token,     \* per invocation: Config.token as read by Config::load
    apiUrl,    \* per invocation: Config.api_url as read by Config::load
    req,       \* per invocation: its request in flight to the server, or None
    resp,      \* per invocation: the response in flight back to it, or None
    exit,      \* per invocation: None, or how it ended: "ok" (status 0), "err"
               \* (main returns Err: status 1), "panic" (status 101) or
               \* "signal" (killed by SIGINT)
    out,       \* per invocation: the lines it printed, abstracted
    answer,    \* per invocation: the line typed at the delete prompt, or None
    sent,      \* history: requests the invocation sent
    applied,   \* history: times the server applied the invocation's request
    saved      \* history: the settings document the last completed save wrote

server == <<accounts, todos, nextId>>
settings == <<cfgFile, saved>>
vars == <<keyring, settings, server, cmd, pc, token, apiUrl, req, resp,
          exit, out, answer, sent, applied>>

-----------------------------------------------------------------------------
(* Requests as ApiClient builds them.  A request names the host it goes   *)
(* to, the Authorization header (a token or None) and its JSON body.       *)

\* Cli.url is --url / TODO_API_URL, else clap's default_value; ApiClient::new
\* trims trailing '/', which only changes the path: a URL is its host here.
CliHost(p) == IF cmd[p].url = None THEN DefaultHost ELSE cmd[p].url

\* ApiClient::auth_header: "Bearer <token>" when the client was built with
\* config.get_token(), else no header.  The header is the token here.
AuthHeader(p) == token[p]

\* A request with no body and the Authorization header of auth_header().
BaseReq(p, op) ==
    [op |-> op, host |-> CliHost(p), auth |-> AuthHeader(p), id |-> None,
     title |-> None, completed |-> None, email |-> None, pw |-> None]

\* login / register post {email, password} and send no Authorization header.
AuthReq(p, pw) ==
    [BaseReq(p, cmd[p].kind) EXCEPT !.auth = None, !.email = cmd[p].email,
                                    !.pw = pw]

\* Plausible bug: completed.unwrap_or(false) instead of omitting it.
UpdateBodyUnsetFalse(title, completed) ==
    [title |-> title, completed |-> IF completed = None THEN FALSE ELSE completed]

\* UpdateTodoRequest: skip_serializing_if = "Option::is_none" omits an
\* absent field; None in the body means the key is not sent.
UpdateBody(title, completed) == [title |-> title, completed |-> completed]

\* Plausible bug: done / undone call an endpoint of their own instead of
\* update_todo(id, None, Some(..)).
TaskReqOwnEndpoint(p) ==
    IF cmd[p].kind \in {"done", "undone"}
       THEN [BaseReq(p, cmd[p].kind) EXCEPT !.id = cmd[p].id]
       ELSE LET c == cmd[p] IN
            CASE c.kind = "list"   -> BaseReq(p, "list")
              [] c.kind = "get"    -> [BaseReq(p, "get") EXCEPT !.id = c.id]
              [] c.kind = "create" -> [BaseReq(p, "create") EXCEPT !.title = c.title]
              [] c.kind = "update" -> [BaseReq(p, "update") EXCEPT !.id = c.id,
                                         !.title = c.title, !.completed = c.completed]
              [] c.kind = "delete" -> [BaseReq(p, "delete") EXCEPT !.id = c.id]

\* Plausible bug: done and undone swapped (copy-paste of Some(true)).
TaskReqDoneUndoneSwapped(p) ==
    LET c == cmd[p]
        upd(t, b) == [BaseReq(p, "update") EXCEPT !.id = c.id, !.title = t, !.completed = b]
    IN CASE c.kind = "done"   -> upd(None, FALSE)
         [] c.kind = "undone" -> upd(None, TRUE)
         [] OTHER -> TaskReqOwnEndpoint(p)

\* What each task command sends.  list_todos takes `_completed` and drops it.
TaskReq(p) ==
    LET c == cmd[p]
        upd(t, b) == LET body == UpdateBody(t, b)
                     IN [BaseReq(p, "update") EXCEPT !.id = c.id,
                             !.title = body.title, !.completed = body.completed]
    IN CASE c.kind = "list"   -> BaseReq(p, "list")
         [] c.kind = "get"    -> [BaseReq(p, "get") EXCEPT !.id = c.id]
         [] c.kind = "create" -> [BaseReq(p, "create") EXCEPT !.title = c.title]
         [] c.kind = "update" -> upd(c.title, c.completed)
         [] c.kind = "done"   -> upd(None, TRUE)
         [] c.kind = "undone" -> upd(None, FALSE)
         [] c.kind = "delete" -> [BaseReq(p, "delete") EXCEPT !.id = c.id]

TaskKinds == {"list", "get", "create", "update", "done", "undone", "delete"}

\* Printing.  print_todo_line / print_todo_detail keep the fields a reader
\* tells apart; colours, glyphs and timestamp layout are left out.
TodoLine(t) == [kind |-> "line", id |-> t.id, title |-> t.title, struck |-> t.completed]

\* print_todos: json dumps the list; text prints "No todos found." for an
\* empty list, else a count header, a blank line and one line per todo.
RenderList(ts, fmt) ==
    IF fmt = "json" THEN <<[kind |-> "json", todos |-> ts]>>
    ELSE IF ts = <<>> THEN <<[kind |-> "empty"]>>
    ELSE <<[kind |-> "header", count |-> Len(ts)], [kind |-> "blank"]>>
         \o [i \in DOMAIN ts |-> TodoLine(ts[i])]

\* print_todo_detail: the id, the title and the status word between rules;
\* the two timestamps (format_datetime) are left out of the model.
TodoDetail(t) ==
    [kind |-> "detail", id |-> t.id, title |-> t.title,
     status |-> IF t.completed THEN "Completed" ELSE "Pending"]

\* print_todo: json dumps the todo, text prints the detail block.
RenderTodo(t, fmt) ==
    IF fmt = "json" THEN <<[kind |-> "json", todo |-> t]>> ELSE <<TodoDetail(t)>>

\* The confirmation main prints after print_todo: none for get, one for the
\* commands that change the todo.
SuccessLine(kind) ==
    IF kind = "get" THEN <<>> ELSE <<[kind |-> "success", cmd |-> kind]>>

\* The message of a non-2xx response: the server's {"error"} when the body
\* parses as ApiError, else "Unknown error".
ErrorLine(op, parses) ==
    [kind |-> "error", op |-> op,
     detail |-> IF parses THEN "server" ELSE "Unknown error"]

-----------------------------------------------------------------------------
(* Step helpers.                                                            *)

\* The invocation prints `lines` and exits with `code`.
Finish(p, code, lines) ==
    /\ pc' = [pc EXCEPT ![p] = "done"]
    /\ exit' = [exit EXCEPT ![p] = code]
    /\ out' = [out EXCEPT ![p] = @ \o lines]

\* request.send(): the request leaves; the invocation awaits its response.
Send(p, r) ==
    /\ req' = [req EXCEPT ![p] = r]
    /\ sent' = [sent EXCEPT ![p] = @ + 1]
    /\ pc' = [pc EXCEPT ![p] = "wait"]

Mutating(c) == c.kind \in {"register", "create", "update", "done", "undone", "delete"}

-----------------------------------------------------------------------------
(* Client actions.                                                          *)

Init ==
    /\ keyring \in Tokens \cup {None}
    /\ cfgFile \in CfgFiles
    /\ accounts \in [Emails -> Passwords \cup {None}]
    /\ todos \in [Ids -> Todo \cup {Absent}]
    /\ \A i \in Ids : todos[i] # Absent => todos[i].id = i
    /\ nextId = 1 + Max({0} \cup {i \in Ids : todos[i] # Absent})
    /\ cmd \in [Procs -> Cmds]
    /\ pc = [p \in Procs |-> "start"]
    /\ token = [p \in Procs |-> None]
    /\ apiUrl = [p \in Procs |-> None]
    /\ req = [p \in Procs |-> None]
    /\ resp = [p \in Procs |-> None]
    /\ exit = [p \in Procs |-> None]
    /\ out = [p \in Procs |-> <<>>]
    /\ answer = [p \in Procs |-> None]
    /\ sent = [p \in Procs |-> 0]
    /\ applied = [p \in Procs |-> 0]
    /\ saved = cfgFile

\* load_token_from_keyring: Entry::new or get_password fails (no entry, or
\* the secret store cannot be reached) or yields the stored token; `.ok()`
\* in Config::load maps every failure to None.
TokenFromKeyring(readOk) == IF readOk THEN keyring ELSE None

\* Config::has_token: whether load found a token.
HasToken(p) == token[p] # None

\* Config::set_token: Entry::new or set_password fails and the keyring is
\* left as it was, or the entry holds t.
SetToken(t, stored) == keyring' = IF stored THEN t ELSE keyring

\* Config::clear_token: Entry::new can fail (Err); the result of
\* delete_credential is discarded, whether it removed the entry or not.
ClearToken(entryOk) ==
    IF entryOk THEN \E deleted \in BOOLEAN : keyring' = IF deleted THEN None ELSE keyring
               ELSE keyring' = keyring

\* rpassword_prompt: the line read from stdin, trimmed, is the password;
\* read_line(..).unwrap() panics on a read error (None here).
PromptResults == Passwords \cup {None}

\* Config::config_path: ProjectDirs::from finds no home directory (HOME is
\* not set for this process) and load fails with "Failed to determine config
\* directory" before any file is touched.
NoConfigDir(p) ==
    Finish(p, "err", <<[kind |-> "error", op |-> "config", detail |-> "dir"]>>)

\* ApiClient::new: Client::builder()..build().expect(..) panics when the
\* HTTP client cannot be built (its TLS backend fails to initialise).
NoHttpClient(p) == Finish(p, "panic", <<>>)

\* main: Config::load()?, then ApiClient::new(&cli.url, config.get_token()).
\* A file that exists but cannot be read aborts the invocation; one that
\* does not parse falls back to Config::default(); the keyring read is
\* `.ok()`, so a failing keyring reads as no token.
Load(p) ==
    /\ pc[p] = "start"
    /\ \/ /\ NoConfigDir(p)
          /\ UNCHANGED <<token, apiUrl>>
       \/ /\ cfgFile = Unreadable
          /\ Finish(p, "err", <<[kind |-> "error", op |-> "config", detail |-> "io"]>>)
          /\ UNCHANGED <<token, apiUrl>>
       \/ /\ cfgFile # Unreadable
          /\ apiUrl' = [apiUrl EXCEPT ![p] = UrlOf(cfgFile)]
          /\ \E readOk \in BOOLEAN :
                token' = [token EXCEPT ![p] = TokenFromKeyring(readOk)]
          /\ pc' = [pc EXCEPT ![p] = "run"]
          /\ UNCHANGED <<exit, out>>
       \/ /\ cfgFile # Unreadable
          /\ NoHttpClient(p)
          /\ UNCHANGED <<token, apiUrl>>   \* what load read dies with the process
    /\ UNCHANGED <<keyring, settings, server, cmd, req, resp, answer, sent, applied>>

\* auth login / auth register: the password comes from --password or is read
\* from stdin by rpassword_prompt, whose read_line(..).unwrap() panics on a
\* read error; then client.login / client.register sends the request.
AuthStart(p) ==
    /\ pc[p] = "run"
    /\ cmd[p].kind \in {"login", "register"}
    /\ \/ /\ cmd[p].pw # None
          /\ Send(p, AuthReq(p, cmd[p].pw))
          /\ UNCHANGED <<exit, out>>
       \/ /\ cmd[p].pw = None
          /\ \E pw \in PromptResults :
                IF pw # None THEN Send(p, AuthReq(p, pw)) /\ UNCHANGED <<exit, out>>
                ELSE Finish(p, "panic", <<[kind |-> "panic"]>>) /\ UNCHANGED <<req, sent>>
    /\ UNCHANGED <<keyring, settings, server, cmd, token, apiUrl, resp, answer, applied>>

\* auth::logout: Config::clear_token()?, then "Logged out successfully!".
Logout(p) ==
    /\ pc[p] = "run"
    /\ cmd[p].kind = "logout"
    /\ \E entryOk \in BOOLEAN :
          /\ ClearToken(entryOk)
          /\ IF entryOk THEN Finish(p, "ok", <<[kind |-> "logged-out"]>>)
             ELSE Finish(p, "err", <<[kind |-> "error", op |-> "keyring", detail |-> "entry"]>>)
    /\ UNCHANGED <<settings, server, cmd, token, apiUrl, req, resp, answer, sent, applied>>

\* auth status: reports config.has_token(), the token read at load.
Status(p) ==
    /\ pc[p] = "run"
    /\ cmd[p].kind = "status"
    /\ Finish(p, "ok", <<[kind |-> "status", authenticated |-> HasToken(p)]>>)
    /\ UNCHANGED <<keyring, settings, server, cmd, token, apiUrl, req, resp, answer, sent, applied>>

\* config / config show: Config::print of the loaded settings.
ConfigShow(p) ==
    /\ pc[p] = "run"
    /\ cmd[p].kind = "config-show"
    /\ Finish(p, "ok", <<[kind |-> "config", api_url |-> apiUrl[p],
                          token |-> HasToken(p)]>>)
    /\ UNCHANGED <<keyring, settings, server, cmd, token, apiUrl, req, resp, answer, sent, applied>>

\* config set-url: Config::set_url sets api_url and calls save, which runs
\* create_dir_all, then fs::write: File::create truncates config.toml, and
\* write_all writes the document (only api_url is serialized).  Failing
\* before the truncation leaves the file as it was.
SetUrl(p) ==
    /\ pc[p] = "run"
    /\ cmd[p].kind = "set-url"
    /\ \/ /\ Finish(p, "err", <<[kind |-> "error", op |-> "config", detail |-> "io"]>>)
          /\ UNCHANGED cfgFile
       \/ /\ cfgFile' = [api_url |-> None]
          /\ pc' = [pc EXCEPT ![p] = "save"]
          /\ UNCHANGED <<exit, out>>
    /\ UNCHANGED <<keyring, saved, server, cmd, token, apiUrl, req, resp, answer, sent, applied>>

\* Plausible bug: save retried until fs::write succeeds.
SaveWriteRetry(p) ==
    /\ pc[p] = "save"
    /\ \/ /\ cfgFile' = SetUrlDoc(cmd[p].setUrl)
          /\ saved' = cfgFile'
          /\ Finish(p, "ok", <<[kind |-> "url-set", url |-> cmd[p].setUrl]>>)
       \/ /\ cfgFile' \in {[api_url |-> None], [file |-> "corrupt"]}
          /\ UNCHANGED <<saved, pc, exit, out>>
    /\ UNCHANGED <<keyring, server, cmd, token, apiUrl, req, resp, answer, sent, applied>>

\* write_all of fs::write.  When it fails, the file holds a prefix of the
\* document: nothing, a fragment that is not TOML, or all but the newline.
SaveWrite(p) ==
    /\ pc[p] = "save"
    /\ \/ /\ cfgFile' = SetUrlDoc(cmd[p].setUrl)
          /\ saved' = cfgFile'
          /\ Finish(p, "ok", <<[kind |-> "url-set", url |-> cmd[p].setUrl]>>)
       \/ /\ cfgFile' \in {[api_url |-> None], [file |-> "corrupt"], SetUrlDoc(cmd[p].setUrl)}
          /\ Finish(p, "err", <<[kind |-> "error", op |-> "config", detail |-> "io"]>>)
          /\ UNCHANGED saved
    /\ UNCHANGED <<keyring, server, cmd, token, apiUrl, req, resp, answer, sent, applied>>

\* list, get, create, update, done, undone, and delete --force: one request.
\* delete without --force first asks for confirmation.
TaskStart(p) ==
    /\ pc[p] = "run"
    /\ cmd[p].kind \in TaskKinds
    /\ \/ /\ cmd[p].kind # "delete" \/ cmd[p].force
          /\ Send(p, TaskReq(p))
       \/ /\ cmd[p].kind = "delete" /\ ~cmd[p].force
          /\ pc' = [pc EXCEPT ![p] = "confirm"]
          /\ UNCHANGED <<req, sent>>
    /\ UNCHANGED <<keyring, settings, server, cmd, token, apiUrl, resp, exit, out, answer, applied>>

\* Plausible bug: the prompt accepts any answer starting with y / Y
\* (input.starts_with(..)) instead of the whole trimmed line.
ConfirmPrefix(p) ==
    /\ pc[p] = "confirm"
    /\ \E line \in Inputs :
          /\ answer' = [answer EXCEPT ![p] = line]
          /\ IF line # <<>> /\ line[1] \in {"y", "Y"}
                THEN Send(p, TaskReq(p)) /\ UNCHANGED <<exit, out>>
                ELSE Finish(p, "ok", <<[kind |-> "cancelled"]>>) /\ UNCHANGED <<req, sent>>
    /\ UNCHANGED <<keyring, settings, server, cmd, token, apiUrl, resp, applied>>

\* The delete prompt: read_line(..)? fails the invocation; a line that is
\* not y/Y after trimming prints "Cancelled." and returns Ok(()).
Confirm(p) ==
    /\ pc[p] = "confirm"
    /\ \/ /\ Finish(p, "err", <<[kind |-> "error", op |-> "stdin", detail |-> "io"]>>)
          /\ UNCHANGED <<answer, req, sent>>
       \/ \E line \in Inputs :
             /\ answer' = [answer EXCEPT ![p] = line]
             /\ IF IsYes(line)
                   THEN Send(p, TaskReq(p)) /\ UNCHANGED <<exit, out>>
                   ELSE Finish(p, "ok", <<[kind |-> "cancelled"]>>) /\ UNCHANGED <<req, sent>>
    /\ UNCHANGED <<keyring, settings, server, cmd, token, apiUrl, resp, applied>>

\* The request the invocation sent, built again.
Resend(p) == IF cmd[p].kind \in TaskKinds THEN TaskReq(p) ELSE AuthReq(p, cmd[p].pw)

\* Plausible bug: a retry loop that sends the request once more when the
\* first attempt times out.
TransportFailRetry(p) ==
    /\ pc[p] = "wait"
    /\ resp[p] = None
    /\ \/ /\ sent[p] < 2
          /\ Send(p, Resend(p))
          /\ UNCHANGED <<exit, out>>
       \/ /\ sent[p] >= 2
          /\ Finish(p, "err", <<[kind |-> "error", op |-> "transport", detail |-> "io"]>>)
          /\ UNCHANGED <<req, sent>>
    /\ UNCHANGED <<keyring, settings, server, cmd, token, apiUrl, resp, answer, applied>>

\* Plausible bug: a client built without .timeout(..) (reqwest's default has
\* none) fails only when it cannot connect, and waits forever otherwise.
TransportFailNoTimeout(p) ==
    /\ pc[p] = "wait"
    /\ resp[p] = None
    /\ CliHost(p) # ServerHost
    /\ Finish(p, "err", <<[kind |-> "error", op |-> "transport", detail |-> "io"]>>)
    /\ UNCHANGED <<keyring, settings, server, cmd, token, apiUrl, req, resp, answer, sent, applied>>

\* send().await.context(..)? fails: connection refused, DNS, or the 30 s
\* timeout set in ApiClient::new.  The request may still reach the server.
TransportFail(p) ==
    /\ pc[p] = "wait"
    /\ resp[p] = None
    /\ Finish(p, "err", <<[kind |-> "error", op |-> "transport", detail |-> "io"]>>)
    /\ UNCHANGED <<keyring, settings, server, cmd, token, apiUrl, req, resp, answer, sent, applied>>

\* A non-2xx status: the body is parsed as ApiError or replaced by
\* "Unknown error", and the call bails with the operation's prefix.
ReceiveError(p) ==
    /\ pc[p] = "wait"
    /\ resp[p] # None /\ ~resp[p].ok
    /\ resp' = [resp EXCEPT ![p] = None]
    /\ Finish(p, "err", <<ErrorLine(cmd[p].kind, resp[p].parses)>>)
    /\ UNCHANGED <<keyring, settings, server, cmd, token, apiUrl, req, answer, sent, applied>>

\* What the client does with a login / register response it takes as
\* success: the AuthResponse is parsed and its token saved by
\* Config::set_token, either of which can fail.
AuthResult(p) ==
    /\ resp' = [resp EXCEPT ![p] = None]
    /\ \/ /\ resp[p].parses
          /\ \E stored \in BOOLEAN :
                /\ SetToken(resp[p].data, stored)
                /\ IF stored THEN Finish(p, "ok", <<[kind |-> "authenticated"]>>)
                   ELSE Finish(p, "err", <<[kind |-> "error", op |-> "keyring", detail |-> "set"]>>)
       \/ /\ ~resp[p].parses
          /\ Finish(p, "err", <<[kind |-> "error", op |-> "parse", detail |-> "body"]>>)
          /\ UNCHANGED keyring
    /\ UNCHANGED <<settings, server, cmd, token, apiUrl, req, answer, sent, applied>>

\* Plausible bug: the is_success() check is missing and the body is taken
\* as an AuthResponse whatever the status.
ReceiveAuthNoStatusCheck(p) ==
    /\ pc[p] = "wait"
    /\ resp[p] # None
    /\ cmd[p].kind \in {"login", "register"}
    /\ AuthResult(p)

\* 2xx to login / register.
ReceiveAuth(p) ==
    /\ pc[p] = "wait"
    /\ resp[p] # None /\ resp[p].ok
    /\ cmd[p].kind \in {"login", "register"}
    /\ AuthResult(p)

\* What the client does with a task response it takes as success: the body
\* is parsed (list, get, create, update) and printed; delete_todo ignores
\* its body.  create, update, done and undone then println! a "✅ Todo ..."
\* line whatever the --format.
TaskResult(p) ==
    /\ resp' = [resp EXCEPT ![p] = None]
    /\ \/ /\ cmd[p].kind # "delete"
          /\ ~resp[p].parses
          /\ Finish(p, "err", <<[kind |-> "error", op |-> "parse", detail |-> "body"]>>)
       \/ /\ cmd[p].kind = "list"
          /\ resp[p].parses
          /\ Finish(p, "ok", RenderList(resp[p].data, cmd[p].fmt))
       \/ /\ cmd[p].kind \in {"get", "create", "update", "done", "undone"}
          /\ resp[p].parses
          /\ Finish(p, "ok", RenderTodo(resp[p].data, cmd[p].fmt) \o SuccessLine(cmd[p].kind))
       \/ /\ cmd[p].kind = "delete"
          /\ Finish(p, "ok", <<[kind |-> "deleted", id |-> cmd[p].id]>>)
    /\ UNCHANGED <<keyring, settings, server, cmd, token, apiUrl, req, answer, sent, applied>>

\* Plausible bug: delete_todo, whose body is not parsed, does not check
\* is_success() and reports the deletion whatever the status.
ReceiveTaskNoStatusCheck(p) ==
    /\ pc[p] = "wait"
    /\ resp[p] # None
    /\ cmd[p].kind \in TaskKinds
    /\ resp[p].ok \/ cmd[p].kind = "delete"
    /\ TaskResult(p)

\* 2xx to a task request.
ReceiveTask(p) ==
    /\ pc[p] = "wait"
    /\ resp[p] # None /\ resp[p].ok
    /\ cmd[p].kind \in TaskKinds
    /\ TaskResult(p)

-----------------------------------------------------------------------------
(* The server, from the wire protocol (spec section 6): it handles a       *)
(* request that reached its host, answers 2xx with the JSON the client     *)
(* expects (or, behind a broken proxy or a version skew, a body that does  *)
(* not parse) or a non-2xx status with {"error"} or an unparseable body.   *)
(* A response is [ok: 2xx?, parses: body parses?, data: what it carries].  *)

\* The request of p has arrived at the server and is handled now.
Arrived(p) == req[p] # None /\ req[p].host = ServerHost

Authorized(r) == r.auth \in Tokens /\ accounts[r.auth] # None
Owns(r) == todos[r.id] # Absent /\ todos[r.id].user_id = r.auth

\* The server answers p and forgets the request.
Respond(p, ok, parses, data) ==
    /\ resp' = [resp EXCEPT ![p] = [ok |-> ok, parses |-> parses, data |-> data]]
    /\ req' = [req EXCEPT ![p] = None]

Reply(p, data) == \E parses \in BOOLEAN : Respond(p, TRUE, parses, data)
Reject(p) == \E parses \in BOOLEAN : Respond(p, FALSE, parses, None)

\* POST /api/v1/auth/login: a token for a registered e-mail and its password.
ServerLogin(p) ==
    /\ Arrived(p) /\ req[p].op = "login"
    /\ IF accounts[req[p].email] = req[p].pw
          THEN Reply(p, req[p].email) ELSE Reject(p)
    /\ UNCHANGED <<server, applied>>

\* POST /api/v1/users: registers a new e-mail and returns its token.
ServerRegister(p) ==
    /\ Arrived(p) /\ req[p].op = "register"
    /\ \/ /\ accounts[req[p].email] = None
          /\ accounts' = [accounts EXCEPT ![req[p].email] = req[p].pw]
          /\ applied' = [applied EXCEPT ![p] = @ + 1]
          /\ Reply(p, req[p].email)
       \/ /\ accounts[req[p].email] # None
          /\ Reject(p)
          /\ UNCHANGED <<accounts, applied>>
    /\ UNCHANGED <<todos, nextId>>

\* The caller's todos, in id order.
OwnTodos(u) ==
    SelectSeq([i \in Ids |-> todos[i]], LAMBDA t : t # Absent /\ t.user_id = u)

\* GET /api/v1/todos and GET /api/v1/todos/{id}.
ServerRead(p) ==
    /\ Arrived(p) /\ req[p].op \in {"list", "get"}
    /\ CASE req[p].op = "list" /\ Authorized(req[p]) -> Reply(p, OwnTodos(req[p].auth))
         [] req[p].op = "get" /\ Authorized(req[p]) /\ Owns(req[p]) -> Reply(p, todos[req[p].id])
         [] OTHER -> Reject(p)
    /\ UNCHANGED <<server, applied>>

\* POST /api/v1/todos: the server assigns the id and returns the todo.
ServerCreate(p) ==
    /\ Arrived(p) /\ req[p].op = "create"
    /\ \/ /\ Authorized(req[p]) /\ nextId \in Ids
          /\ LET t == [id |-> nextId, user_id |-> req[p].auth,
                       title |-> req[p].title, completed |-> FALSE]
             IN /\ todos' = [todos EXCEPT ![nextId] = t]
                /\ Reply(p, t)
          /\ nextId' = nextId + 1
          /\ applied' = [applied EXCEPT ![p] = @ + 1]
       \/ /\ ~Authorized(req[p])
          /\ Reject(p)
          /\ UNCHANGED <<todos, nextId, applied>>
    /\ UNCHANGED accounts

\* PUT /api/v1/todos/{id}: only the fields present in the body change.
Patch(t, r) ==
    [t EXCEPT !.title = IF r.title = None THEN @ ELSE r.title,
              !.completed = IF r.completed = None THEN @ ELSE r.completed]

ServerUpdate(p) ==
    /\ Arrived(p) /\ req[p].op = "update"
    /\ \/ /\ Authorized(req[p]) /\ Owns(req[p])
          /\ todos' = [todos EXCEPT ![req[p].id] = Patch(@, req[p])]
          /\ applied' = [applied EXCEPT ![p] = @ + 1]
          /\ Reply(p, Patch(todos[req[p].id], req[p]))
       \/ /\ ~(Authorized(req[p]) /\ Owns(req[p]))
          /\ Reject(p)
          /\ UNCHANGED <<todos, applied>>
    /\ UNCHANGED <<accounts, nextId>>

\* DELETE /api/v1/todos/{id}.
ServerDelete(p) ==
    /\ Arrived(p) /\ req[p].op = "delete"
    /\ \/ /\ Authorized(req[p]) /\ Owns(req[p])
          /\ todos' = [todos EXCEPT ![req[p].id] = Absent]
          /\ applied' = [applied EXCEPT ![p] = @ + 1]
          /\ Reply(p, None)
       \/ /\ ~(Authorized(req[p]) /\ Owns(req[p]))
          /\ Reject(p)
          /\ UNCHANGED <<todos, applied>>
    /\ UNCHANGED <<accounts, nextId>>

ServerStep(p) ==
    /\ \/ ServerLogin(p) \/ ServerRegister(p) \/ ServerRead(p)
       \/ ServerCreate(p) \/ ServerUpdate(p) \/ ServerDelete(p)
    /\ UNCHANGED <<keyring, settings, cmd, pc, token, apiUrl, exit, out, answer, sent>>

-----------------------------------------------------------------------------
(* The environment: the network drops a response; the user presses Ctrl-C *)
(* while the invocation blocks (at the prompt, on a pending call (spec     *)
(* section 5), or in the write of config.toml); no handler is installed.   *)

LoseResponse(p) ==
    /\ pc[p] = "wait" /\ resp[p] # None
    /\ resp' = [resp EXCEPT ![p] = None]
    /\ UNCHANGED <<keyring, settings, server, cmd, pc, token, apiUrl, req,
                   exit, out, answer, sent, applied>>

\* The invocation blocks on stdin: the delete prompt, or rpassword_prompt.
AtPrompt(p) ==
    \/ pc[p] = "confirm"
    \/ pc[p] = "run" /\ cmd[p].kind \in {"login", "register"} /\ cmd[p].pw = None

Interrupt(p) ==
    /\ pc[p] \in {"confirm", "wait", "save"} \/ AtPrompt(p)
    /\ Finish(p, "signal", <<>>)
    /\ UNCHANGED <<keyring, settings, server, cmd, token, apiUrl, req, resp, answer, sent, applied>>

\* Every invocation has exited; requests it left behind may still arrive.
Terminated ==
    /\ \A p \in Procs : pc[p] = "done"
    /\ UNCHANGED vars

ClientStep(p) ==
    \/ Load(p) \/ AuthStart(p) \/ Logout(p) \/ Status(p) \/ ConfigShow(p)
    \/ SetUrl(p) \/ SaveWrite(p) \/ TaskStart(p) \/ Confirm(p) \/ TransportFail(p)
    \/ ReceiveError(p) \/ ReceiveAuth(p) \/ ReceiveTask(p)

Next ==
    \/ \E p \in Procs : ClientStep(p) \/ ServerStep(p)
                        \/ LoseResponse(p) \/ Interrupt(p)
    \/ Terminated

\* An invocation that does not wait for the user is scheduled by the OS:
\* its local steps (loading, the keyring, the settings write, building and
\* sending a request) happen, it handles a response that arrived, and the
\* 30 s client timeout fires when none does.  The user (the prompts,
\* Ctrl-C), the server and the network are not assumed to make progress.
Fairness ==
    \A p \in Procs : /\ WF_vars(Load(p))
                     /\ WF_vars(AuthStart(p) /\ cmd[p].pw # None)
                     /\ WF_vars(Logout(p)) /\ WF_vars(Status(p))
                     /\ WF_vars(ConfigShow(p)) /\ WF_vars(SetUrl(p))
                     /\ WF_vars(SaveWrite(p)) /\ WF_vars(TaskStart(p))
                     /\ WF_vars(TransportFail(p))
                     /\ WF_vars(ReceiveError(p))
                     /\ WF_vars(ReceiveAuth(p))
                     /\ WF_vars(ReceiveTask(p))

Spec == Init /\ [][Next]_vars /\ Fairness

-----------------------------------------------------------------------------
(* Properties.                                                              *)

Request == [op : {"login", "register"} \cup (TaskKinds \ {"done", "undone"}),
            host : Hosts \cup {DefaultHost}, auth : Tokens \cup {None},
            id : Ids \cup {None}, title : Titles \cup {None},
            completed : BOOLEAN \cup {None}, email : Emails \cup {None},
            pw : Passwords \cup {None}]

TypeOK ==
    /\ keyring \in Tokens \cup {None}
    /\ cfgFile \in CfgFiles
    /\ saved \in CfgFiles
    /\ accounts \in [Emails -> Passwords \cup {None}]
    /\ todos \in [Ids -> Todo \cup {Absent}]
    /\ nextId \in 1..MaxId + 1
    /\ cmd \in [Procs -> Cmds]
    /\ pc \in [Procs -> {"start", "run", "confirm", "wait", "save", "done"}]
    /\ token \in [Procs -> Tokens \cup {None}]
    /\ apiUrl \in [Procs -> Hosts \cup {None}]
    /\ req \in [Procs -> Request \cup {None}]
    /\ exit \in [Procs -> {None, "ok", "err", "panic", "signal"}]
    /\ answer \in [Procs -> Inputs \cup {None}]
    /\ sent \in [Procs -> Nat]
    /\ applied \in [Procs -> Nat]

\* The invocation printed "Cancelled." at the delete prompt.
Cancelled(p) == [kind |-> "cancelled"] \in Range(out[p])

\* The invocation printed the error of a non-2xx response to its request.
HttpRejected(p) ==
    \E i \in DOMAIN out[p] : out[p][i].kind = "error" /\ out[p][i].op = cmd[p].kind

\* The refinement mapping onto TodoService: a count of applications is
\* "applied" when positive, and an exit after the server's non-2xx answer is
\* the service's refusal.
ServiceExit == [p \in Procs |-> IF HttpRejected(p) THEN "rejected" ELSE exit[p]]

Service == INSTANCE TodoService
               WITH applied <- [p \in Procs |-> applied[p] > 0], exit <- ServiceExit

\* todo-cli implements the service contract of spec 4.1, 5, 7 and 8: every
\* step of every invocation, server and network is a step of TodoService
\* or leaves its state alone.  The request each command builds, the prompt,
\* the status checks, the timeout and the server's handling together give
\* each mutating command exactly its documented effect, at most once, only
\* with consent, and an exit status consistent with it.
ServiceSpec == Service!Spec

\* The delete prompt (main.rs, Commands::Delete): a DELETE leaves only with
\* --force or after the user answered y / Y, and "Cancelled." is printed
\* only after any other answer.  Spans parsing, the prompt and the send.
ConfirmationGate ==
    \A p \in Procs : cmd[p].kind = "delete" =>
        /\ sent[p] > 0 =>
              \/ cmd[p].force
              \/ answer[p] # None /\ IsYesRef(answer[p])
        /\ Cancelled(p) =>
              /\ ~cmd[p].force
              /\ answer[p] # None /\ ~IsYesRef(answer[p])

\* No retries (spec section 9): whatever the network and the timeout do,
\* the server applies a mutating call of an invocation at most once.
AppliedAtMostOnce == \A p \in Procs : applied[p] <= 1

\* What the invocation reports agrees with the server: exit status 0 from
\* a mutating command that was not cancelled means the server applied it,
\* and an HTTP error reported to the user means it did not.
OutcomeMatchesServer ==
    \A p \in Procs :
        /\ (Mutating(cmd[p]) /\ exit[p] = "ok" /\ ~Cancelled(p)) => applied[p] = 1
        /\ HttpRejected(p) => applied[p] = 0

\* What update / done / undone ask for, read from the command line.
IntendedTitle(c, t) == IF c.kind = "update" /\ c.title # None THEN c.title ELSE t.title
IntendedCompleted(c, t) ==
    CASE c.kind = "done" -> TRUE
      [] c.kind = "undone" -> FALSE
      [] c.completed # None -> c.completed
      [] OTHER -> t.completed

\* Partial update (spec 4.1, 8): when the server applies an update, done or
\* undone, the todo changes in exactly the fields the user supplied, and
\* keeps the others, whatever other invocations did to it before.
UpdateChangesOnlySupplied ==
    [][\A p \in Procs :
         cmd[p].kind \in {"update", "done", "undone"} /\ applied'[p] > applied[p]
         => LET t == todos[cmd[p].id]
            IN todos'[cmd[p].id] = [t EXCEPT !.title = IntendedTitle(cmd[p], t),
                                             !.completed = IntendedCompleted(cmd[p], t)]
      ]_vars

\* A login or register that reports success has stored, in that step, the
\* token of an account the server holds (auth.rs login / register, then
\* Config::set_token), whatever other invocations do to the keyring.
AuthSuccessStoresValidToken ==
    [][\A p \in Procs :
         cmd[p].kind \in {"login", "register"} /\ exit[p] = None /\ exit'[p] = "ok"
         => keyring' \in Tokens /\ accounts'[keyring'] # None]_vars

\* Every invocation ends unless it waits for the user, before the prompt
\* and after it is answered: a lost response or a server that never
\* answers is ended by the 30 s timeout of ApiClient::new, and no step of
\* the CLI loops (spec 5: no retries).  Infinitely often, each invocation
\* has exited or is blocked on stdin.
InvocationEnds == \A p \in Procs : []<>(pc[p] = "done" \/ AtPrompt(p))

-----------------------------------------------------------------------------
(* What the spec says and the code does not do; each is checked alone.     *)

\* Spec 3, 4.3: config.toml holds an optional override of the server base
\* URL, set by `config set-url`.  An invocation given neither --url nor
\* TODO_API_URL should send its request to the saved URL; main passes
\* cli.url, whose clap default always wins, to ApiClient::new.
SavedUrlUsed ==
    \A p \in Procs :
        sent[p] > 0 /\ cmd[p].url = None /\ apiUrl[p] # None
        => CliHost(p) = apiUrl[p]

\* Spec 4.2: clearToken treats only a missing entry as success.  A logout
\* that reports success should leave no token behind; clear_token
\* discards every error of delete_credential.
LogoutClearsToken ==
    [][\A p \in Procs :
         cmd[p].kind = "logout" /\ exit[p] = None /\ exit'[p] = "ok"
         => keyring' = None]_vars

\* The --completed flag of `list` is documented "Filter by completion
\* status": every todo a successful filtered list prints has that status.
\* list_todos takes it as `_completed` and never sends it.
ListHonoursFilter ==
    \A p \in Procs :
        cmd[p].kind = "list" /\ cmd[p].completed # None /\ exit[p] = "ok"
        => \A i \in DOMAIN out[p] :
              out[p][i].kind = "line" => out[p][i].struck = cmd[p].completed

\* Spec 4.2: getToken yields "none" only when no credential is stored, and
\* a secret store that cannot be reached is a StoreAccessError (spec 7).
\* An invocation that reads the keyring while a token is stored should get
\* it; Config::load turns every keyring error into None with `.ok()`, so
\* `auth status` reports "Not authenticated" and requests go out without
\* an Authorization header.
TokenReadFaithful ==
    [][\A p \in Procs :
         pc[p] = "start" /\ pc'[p] = "run" => token'[p] = keyring]_vars

\* Spec 5: the settings file is shared with last-writer-wins.  An
\* invocation that loads config.toml should read what the last completed
\* save wrote.  fs::write truncates first and writes after, so a load
\* between the two, a failed write_all or a Ctrl-C in between leave a
\* file that reads as the defaults: neither writer's value wins.
SettingsLastWriterWins ==
    [][\A p \in Procs :
         pc[p] = "start" /\ pc'[p] = "run" => apiUrl'[p] = UrlOf(saved)]_vars

JsonOutputUndecorated ==
    \A p \in Procs :
        /\ pc[p] = "done" /\ exit[p] = "ok" /\ cmd[p].fmt = "json"
        /\ cmd[p].kind \in TaskKinds \ {"delete"}
        => \A i \in DOMAIN out[p] : out[p][i].kind = "json"

=============================================================================
