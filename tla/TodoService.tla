------------------------------ MODULE TodoService ------------------------------
(***************************************************************************)
(* What an invocation of todo-cli promises about the remote service, with  *)
(* the network, the request encoding and the output left out (spec 4.1,    *)
(* 5, 7, 8).  The effect of a mutating command on the accounts and todos   *)
(* is one atomic step, taken at most once, only after the user consented   *)
(* to a delete, and possibly after the invocation has already failed (the  *)
(* request may still arrive).  The exit status is the only thing the user  *)
(* sees: success of a mutating command means its effect took place, and an *)
(* error reported by the server means it never will.                       *)
(***************************************************************************)
EXTENDS Naturals, ConfirmInput

CONSTANTS Procs, Cmds, Emails, Passwords, Titles, Inputs, MaxId, None

Ids == 1..MaxId
Tokens == Emails
Todo == [id : Ids, user_id : Emails, title : Titles, completed : BOOLEAN]
Absent == [absent |-> TRUE]

VARIABLES
    accounts,  \* e-mail -> password, or None
    todos,     \* id -> Todo, or Absent
    nextId,    \* the id the service gives the next todo
    cmd,       \* per invocation: the command it runs
    token,     \* per invocation: the credential it presents, or None
    answer,    \* per invocation: its answer to the delete prompt, or None
    applied,   \* per invocation: its effect took place
    exit       \* per invocation: None, "ok", "rejected" (the service said
               \* no), or another failure ("err", "panic", "signal")

vars == <<accounts, todos, nextId, cmd, token, answer, applied, exit>>

Mutating(c) == c.kind \in {"register", "create", "update", "done", "undone", "delete"}

\* delete asks first unless --force; y / Y (spec 8) is consent.
Consented(p) ==
    cmd[p].kind = "delete" /\ ~cmd[p].force => answer[p] # None /\ IsYesRef(answer[p])

SignedIn(p) == token[p] \in Tokens /\ accounts[token[p]] # None
OwnsTarget(p) == todos[cmd[p].id] # Absent /\ todos[cmd[p].id].user_id = token[p]

\* The todo as update, done and undone ask for it: the supplied fields
\* change, the others keep their value (spec 4.1 partial update).
Updated(c, t) ==
    [t EXCEPT !.title = IF c.kind = "update" /\ c.title # None THEN c.title ELSE @,
              !.completed = CASE c.kind = "done" -> TRUE
                              [] c.kind = "undone" -> FALSE
                              [] c.completed # None -> c.completed
                              [] OTHER -> @]

\* The effect of the command of p on the service, when the service allows it.
Effect(p) ==
    LET c == cmd[p] IN
    CASE c.kind = "register" ->
            /\ accounts[c.email] = None
            /\ \E pw \in Passwords : accounts' = [accounts EXCEPT ![c.email] = pw]
            /\ UNCHANGED <<todos, nextId>>
      [] c.kind = "create" ->
            /\ SignedIn(p) /\ nextId \in Ids
            /\ todos' = [todos EXCEPT ![nextId] = [id |-> nextId, user_id |-> token[p],
                                                   title |-> c.title, completed |-> FALSE]]
            /\ nextId' = nextId + 1
            /\ UNCHANGED accounts
      [] c.kind \in {"update", "done", "undone"} ->
            /\ SignedIn(p) /\ OwnsTarget(p)
            /\ todos' = [todos EXCEPT ![c.id] = Updated(c, @)]
            /\ UNCHANGED <<accounts, nextId>>
      [] c.kind = "delete" ->
            /\ SignedIn(p) /\ OwnsTarget(p)
            /\ todos' = [todos EXCEPT ![c.id] = Absent]
            /\ UNCHANGED <<accounts, nextId>>

Init ==
    /\ accounts \in [Emails -> Passwords \cup {None}]
    /\ todos \in [Ids -> Todo \cup {Absent}]
    /\ \A i \in Ids : todos[i] # Absent => todos[i].id = i
    /\ \A i \in Ids : todos[i] # Absent => nextId > i
    /\ nextId \in 1..MaxId + 1
    /\ cmd \in [Procs -> Cmds]
    /\ token = [p \in Procs |-> None]
    /\ answer = [p \in Procs |-> None]
    /\ applied = [p \in Procs |-> FALSE]
    /\ exit = [p \in Procs |-> None]

\* The invocation reads the credential store once.
ReadToken(p) ==
    /\ exit[p] = None /\ token[p] = None
    /\ \E t \in Tokens : token' = [token EXCEPT ![p] = t]
    /\ UNCHANGED <<accounts, todos, nextId, cmd, answer, applied, exit>>

\* The user answers the delete prompt; anything but y / Y cancels, exit 0.
Answer(p) ==
    /\ exit[p] = None /\ answer[p] = None
    /\ cmd[p].kind = "delete" /\ ~cmd[p].force
    /\ \E line \in Inputs :
          /\ answer' = [answer EXCEPT ![p] = line]
          /\ exit' = [exit EXCEPT ![p] = IF IsYesRef(line) THEN None ELSE "ok"]
    /\ UNCHANGED <<accounts, todos, nextId, cmd, token, applied>>

\* The service applies the command of p, once, unless it already refused it.
Apply(p) ==
    /\ Mutating(cmd[p]) /\ ~applied[p] /\ exit[p] # "rejected"
    /\ Consented(p)
    /\ Effect(p)
    /\ applied' = [applied EXCEPT ![p] = TRUE]
    /\ UNCHANGED <<cmd, token, answer, exit>>

\* The invocation exits on its own (a declined delete exits in Answer).
\* Success of a mutating command means its effect took place; a refusal
\* by the service means it did not.
Exit(p) ==
    /\ exit[p] = None
    /\ \E code \in {"ok", "rejected", "err", "panic", "signal"} :
          /\ code = "ok" /\ Mutating(cmd[p]) => applied[p]
          /\ code = "rejected" => ~applied[p]
          /\ exit' = [exit EXCEPT ![p] = code]
    /\ UNCHANGED <<accounts, todos, nextId, cmd, token, answer, applied>>

Next == \E p \in Procs : ReadToken(p) \/ Answer(p) \/ Apply(p) \/ Exit(p)

Spec == Init /\ [][Next]_vars
=============================================================================
