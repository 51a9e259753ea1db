------------------------------- MODULE Serve -------------------------------
(***************************************************************************)
(* The life of a serve process: runServe with its worker and scheduler     *)
(* goroutines, the goroutine that shuts the HTTP server down, the handlers *)
(* of requests, and the API keys that the `keys` commands change meanwhile.*)
(* What the worker and the scheduler do is left to module Service: here    *)
(* they are between two statements, in one, or at work on a claimed row.   *)
(***************************************************************************)
EXTENDS ApiKeys, SequencesExt

CONSTANTS
  Requests,    \* HTTP requests of a behaviour
  Titles,      \* of tracks
  Messages     \* what a request may ask for

Goroutines == {"worker", "scheduler"}

\* A Lidarr payload: an artist or none, titles, "" for a blank one.
Lidarr(event, artist, titles, title) ==
  [route |-> "lidarr", event |-> event, artist |-> artist, tracks |-> titles,
   track |-> title]

Plain(route) == [Lidarr("none", FALSE, <<>>, "") EXCEPT !.route = route]

ASSUME ServeAssumption ==
  /\ "" \in Titles
  /\ \A msg \in Messages : /\ msg.route \in {"lidarr", "status", "readyz", "healthz"}
                          /\ msg.tracks \in Seq(Titles) /\ msg.track \in Titles

VARIABLES
  main,        \* where runServe is
  todo,        \* the configured keys it has still to store
  signaled,    \* SIGTERM or SIGINT arrived: the context of the command
  canceled,    \* runCtx was canceled by runServe itself
  listener,    \* "unbound", "open", or "shut" once Shutdown was called
  goroutine,   \* "off", "run", "statement", "attempt" or "done"
  db,          \* the *sql.DB is "open" or "closed"
  request      \* per request, its handler and the titles it has committed

process == <<main, todo, signaled, canceled, listener, goroutine, db>>
vars == <<keyVars, process, request>>

NoRequest ==
  [pc |-> "none", msg |-> Plain("healthz"), key |-> "none", late |-> FALSE,
   rest |-> <<>>, did |-> <<>>, code |-> 0]

Down ==
  /\ main' = "down" /\ todo' = {} /\ signaled' = FALSE /\ canceled' = FALSE
  /\ listener' = "unbound" /\ db' = "closed"
  /\ goroutine' = [g \in Goroutines |-> "off"]

ServeInit ==
  /\ KeysInit
  /\ main = "down" /\ todo = {} /\ signaled = FALSE /\ canceled = FALSE
  /\ listener = "unbound" /\ db = "closed"
  /\ goroutine = [g \in Goroutines |-> "off"]
  /\ request = [r \in Requests |-> NoRequest]

-----------------------------------------------------------------------------
(* runServe.                                                               *)

\* The end of the process takes its handlers with it.
Unanswered == {r \in Requests : request[r].pc \notin {"none", "answered", "lost"}}

Exit ==
  /\ Down
  /\ request' = [r \in Requests |->
                   IF r \in Unanswered THEN [request[r] EXCEPT !.pc = "lost"]
                   ELSE request[r]]
  /\ UNCHANGED keyVars

\* The configuration is good and db.Open succeeds; otherwise nothing happens.
Start ==
  /\ main = "down"
  /\ main' = "keys" /\ todo' = Configured /\ db' = "open"
  /\ UNCHANGED <<keyVars, signaled, canceled, listener, goroutine, request>>

StoreKey ==
  /\ main = "keys" /\ ~signaled
  /\ \E raw \in todo : CreateIfNotExists(raw) /\ todo' = todo \ {raw}
  /\ UNCHANGED <<main, signaled, canceled, listener, goroutine, db, request>>

\* keyService returns an error: the database is closed and the code is 1.
StoreKeyFails ==
  /\ main = "keys" /\ todo # {}
  /\ Exit

\* Both goroutines, the goroutine waiting to shut down, ListenAndServe.
Launch ==
  /\ main = "keys" /\ todo = {}
  /\ main' = "serve"
  /\ goroutine' = [g \in Goroutines |-> "run"]
  /\ UNCHANGED <<keyVars, todo, signaled, canceled, listener, db, request>>

Listen ==
  /\ main = "serve" /\ listener = "unbound"
  /\ listener' = "open"
  /\ UNCHANGED <<keyVars, main, todo, signaled, canceled, goroutine, db, request>>

\* Mutant of RunCtxDone: the context does not descend from the command's.
RunCtxDoneOwn == canceled

\* runCtx, the context of all goroutines, is done.
RunCtxDone == signaled \/ canceled

\* srv.Shutdown closes the listener at once; the time it then waits for the
\* handlers delays only this goroutine.
Shutdown ==
  /\ main \notin {"down", "keys"} /\ RunCtxDone /\ listener # "shut"
  /\ listener' = "shut"
  /\ UNCHANGED <<keyVars, main, todo, signaled, canceled, goroutine, db, request>>

\* ListenAndServe returns and runCtx is canceled.
Cancel ==
  /\ main = "serve"
  /\ main' = "wait" /\ canceled' = TRUE
  /\ UNCHANGED <<keyVars, todo, signaled, listener, goroutine, db, request>>

\* Because of Shutdown: http.ErrServerClosed.
ServerClosed == listener = "shut" /\ Cancel

\* Because it cannot listen or accept, as when the address is in use.
ListenFails == listener # "shut" /\ Cancel

\* Mutant of Close: wg.Wait is forgotten.
CloseAtOnce ==
  /\ main = "wait"
  /\ main' = "close" /\ db' = "closed"
  /\ UNCHANGED <<keyVars, todo, signaled, canceled, listener, goroutine, request>>

\* wg.Wait, then sqlDB.Close.
Close ==
  /\ main = "wait"
  /\ \A g \in Goroutines : goroutine[g] = "done"
  /\ main' = "close" /\ db' = "closed"
  /\ UNCHANGED <<keyVars, todo, signaled, canceled, listener, goroutine, request>>

\* runServe returns and main calls os.Exit.
Return == main = "close" /\ Exit

\* A goroutine begins a statement, ends it, or returns: the worker's loop only
\* when its context is done, the scheduler also after its only scan or its
\* first error.  Once it has claimed a row the worker is in an attempt, which
\* ends with Complete, Fail or Release even if the context is done.
Goroutine(g) ==
  /\ \/ /\ goroutine[g] = "run" /\ ~RunCtxDone
        /\ goroutine' = [goroutine EXCEPT ![g] = "statement"]
     \/ /\ goroutine[g] \in {"statement", "attempt"}
        /\ goroutine' = [goroutine EXCEPT ![g] = "run"]
     \/ /\ goroutine[g] = "statement" /\ g = "worker"
        /\ goroutine' = [goroutine EXCEPT ![g] = "attempt"]
     \/ /\ goroutine[g] = "run" /\ (RunCtxDone \/ g = "scheduler")
        /\ goroutine' = [goroutine EXCEPT ![g] = "done"]
  /\ UNCHANGED <<keyVars, main, todo, signaled, canceled, listener, db, request>>

Signal ==
  /\ main # "down" /\ ~signaled
  /\ signaled' = TRUE
  /\ UNCHANGED <<keyVars, main, todo, canceled, listener, goroutine, db, request>>

Crash == main # "down" /\ Exit

-----------------------------------------------------------------------------
(* The handlers.                                                           *)

OnlyRequest == UNCHANGED <<keyVars, process>>

At(r, pc) == main # "down" /\ request[r].pc = pc

Goto(r, pc) == request' = [request EXCEPT ![r].pc = pc]

Answer(r, code) ==
  request' = [request EXCEPT ![r].pc = "answered", ![r].code = code]

\* The scope that a route asks of the key.
Required(route) == IF route = "status" THEN "admin" ELSE "webhook"

Missing == <<"">>

\* inputs: one missing artist or title rejects the whole payload.
Inputs(msg) ==
  LET tracks == IF msg.tracks = <<>> /\ msg.track # "" THEN <<msg.track>> ELSE msg.tracks
  IN  IF msg.artist /\ tracks # <<>> /\ "" \notin ToSet(tracks) THEN tracks ELSE Missing

\* `late` records that the key had been revoked before the request came.
Arrive(r) ==
  /\ listener = "open" /\ request[r].pc = "none"
  /\ \E msg \in Messages, key \in Raws \cup Foreign :
       request' = [request EXCEPT
         ![r] = [NoRequest EXCEPT
                   !.pc = CASE msg.route = "healthz" -> "loop"
                            [] msg.route = "readyz" -> "ping"
                            [] OTHER -> "auth",
                   !.msg = msg, !.key = key,
                   !.late = key \in withdrawn]]
  /\ OnlyRequest

\* PingContext, or CountByStatus: one read.
Read(r) ==
  /\ At(r, "ping") \/ At(r, "count")
  /\ db = "open"
  /\ Goto(r, "loop")
  /\ OnlyRequest

CodeOf(verdict) == IF verdict = "forbidden" THEN 403 ELSE 401

Authenticate(r) ==
  /\ At(r, "auth") /\ db = "open"
  /\ LET route == request[r].msg.route
         verdict == ValidateKey(request[r].key, Required(route))
     IN  IF verdict # "valid" THEN Answer(r, CodeOf(verdict))
         ELSE Goto(r, IF route = "status" THEN "count" ELSE "body")
  /\ OnlyRequest

\* The payload, and the switch over the event.
Decode(r) ==
  /\ At(r, "body")
  /\ LET msg == request[r].msg
         inputs == Inputs(msg)
     IN  CASE msg.event \in {"Download", "TrackRetag"} /\ inputs # Missing
                -> request' = [request EXCEPT ![r].pc = "loop", ![r].rest = inputs]
           [] msg.event = "Delete"
                -> request' = [request EXCEPT
                     ![r].pc = "loop",
                     ![r].rest = IF inputs = Missing THEN <<>> ELSE inputs]
           [] msg.event \in {"Grab", "Rename"} -> Goto(r, "loop")
           [] OTHER -> Answer(r, 400)
  /\ OnlyRequest

\* BeginTx of Enqueue or Cleanup for the next title.
Begin(r) ==
  /\ At(r, "loop") /\ request[r].rest # <<>>
  /\ db = "open"
  /\ Goto(r, "tx")
  /\ OnlyRequest

\* A transaction that began before Close may still commit.
Commit(r) ==
  /\ At(r, "tx")
  /\ request' = [request EXCEPT ![r].pc = "loop", ![r].rest = Tail(@),
                                ![r].did = Append(@, Head(request[r].rest))]
  /\ OnlyRequest

\* Mutant of StatementFails: the failed track is only logged.
StatementFailsOn(r) ==
  /\ \/ At(r, "auth") \/ At(r, "count") \/ At(r, "ping") \/ At(r, "tx")
     \/ At(r, "loop") /\ request[r].rest # <<>>
  /\ IF request[r].rest = <<>> THEN Answer(r, 500)
     ELSE request' = [request EXCEPT ![r].pc = "loop", ![r].rest = Tail(@)]
  /\ OnlyRequest

\* The statement is refused, the client has gone, or the database is closed:
\* the transaction is rolled back and the handler gives up.
StatementFails(r) ==
  /\ \/ At(r, "auth") \/ At(r, "count") \/ At(r, "ping") \/ At(r, "tx")
     \/ At(r, "loop") /\ request[r].rest # <<>>
  /\ Answer(r, IF request[r].pc = "ping" THEN 503 ELSE 500)
  /\ OnlyRequest

Finish(r) ==
  /\ At(r, "loop") /\ request[r].rest = <<>>
  /\ Answer(r, 200)
  /\ OnlyRequest

Handle(r) ==
  \/ Read(r) \/ Authenticate(r) \/ Decode(r) \/ Begin(r) \/ Commit(r)
  \/ StatementFails(r) \/ Finish(r)

-----------------------------------------------------------------------------
\* What runServe goes on to do by itself.
Main ==
  \/ StoreKey \/ Launch \/ Listen \/ ServerClosed \/ Close \/ Return
  \/ StoreKeyFails /\ signaled

ServeNext ==
  \/ Start \/ Main \/ Shutdown \/ StoreKeyFails \/ ListenFails \/ Signal \/ Crash
  \/ \E g \in Goroutines : Goroutine(g)
  \/ \E r \in Requests : Arrive(r) \/ Handle(r)
  \/ KeyCommands /\ UNCHANGED <<process, request>>

\* The Go scheduler runs every goroutine that can go on, and every statement
\* returns.  Nothing makes a handler, a signal or a command come about.
Fairness ==
  /\ WF_vars(Main) /\ WF_vars(Shutdown)
  /\ \A g \in Goroutines : WF_vars(Goroutine(g))

ServeSpec == ServeInit /\ [][ServeNext]_vars /\ Fairness

-----------------------------------------------------------------------------
(* Properties.                                                             *)

\* Types, and what the position of runServe implies.
ServeTypeOK ==
  /\ main \in {"down", "keys", "serve", "wait", "close"}
  /\ todo \subseteq Configured
  /\ signaled \in BOOLEAN /\ canceled \in BOOLEAN
  /\ listener \in {"unbound", "open", "shut"}
  /\ goroutine \in [Goroutines -> {"off", "run", "statement", "attempt", "done"}]
  /\ db \in {"open", "closed"}
  /\ db = "open" <=> main \in {"keys", "serve", "wait"}
  /\ main \in {"down", "keys"} => /\ listener = "unbound"
                                 /\ \A g \in Goroutines : goroutine[g] = "off"

\* The worker and the scheduler are never in the middle of a statement or of an
\* attempt once the database is closed, whatever made serve end: a signal, a failure to
\* listen or to accept (wg.Wait before sqlDB.Close).
NoStatementAfterClose ==
  /\ ServeTypeOK
  /\ db = "closed" => \A g \in Goroutines : goroutine[g] \in {"off", "done"}

\* The titles that a request asks the handler to queue or to clean up.
Wanted(msg) ==
  IF /\ msg.route = "lidarr" /\ msg.event \in {"Download", "TrackRetag", "Delete"}
     /\ Inputs(msg) # Missing
  THEN Inputs(msg) ELSE <<>>

\* The answer to a request tells what became of it, with the database closed
\* or the process gone in the middle as well: after 200 all its titles were
\* committed, after 400, 401 or 403 none, and otherwise the first few.
AnswersAreTrue ==
  \A r \in Requests :
    LET q == request[r]
    IN  /\ IsPrefix(q.did, Wanted(q.msg))
        /\ q.code = 200 => q.did = Wanted(q.msg)
        /\ q.code \in {400, 401, 403} => q.did = <<>>

\* A request that comes with a key revoked before never gets past the check,
\* though serve was restarted and its configured keys were stored again.
RevokedIsRefused ==
  \A r \in Requests :
    request[r].late /\ request[r].msg.route \in {"lidarr", "status"}
    => request[r].code # 200 /\ request[r].did = <<>>

\* A revoked key stays revoked and no key gains a scope, whatever commands and
\* restarts of serve come between reading its row and writing it.
KeysOnlyWeaken ==
  [][\A raw \in Stored :
       /\ raw \in Stored'
       /\ keys[raw].revoked => keys'[raw].revoked
       /\ keys'[raw].scopes = keys[raw].scopes]_vars

-----------------------------------------------------------------------------
(* What makes the three invariants inductive.                              *)

\* Every key that a `keys revoke` has found has a row, and the row of a key
\* whose revocation was reported is revoked.
KeysOK ==
  /\ Stored \subseteq Raws
  /\ keys \in [Stored -> [scopes: SUBSET Scopes, revoked: BOOLEAN]]
  /\ revoker \in [Revokers -> Stored \cup {"none"}]
  /\ withdrawn \subseteq Stored
  /\ \A raw \in withdrawn : keys[raw].revoked

RequestState ==
  [pc: {"none", "auth", "ping", "count", "body", "loop", "tx", "answered", "lost"},
   msg: Messages \cup {Plain("healthz")}, key: Raws \cup Foreign \cup {"none"},
   late: BOOLEAN, rest: Seq(Titles), did: Seq(Titles), code: Nat]

\* What the handler of request q has still to do, with what it has done, is
\* what the request wants; it is past the check only if the key was good.
HandlerOK(q) ==
  /\ q \in RequestState
  /\ q.pc \in {"none", "auth", "ping", "count", "body"} => q.did = <<>> /\ q.rest = <<>>
  /\ q.pc \in {"loop", "tx"} => q.did \o q.rest = Wanted(q.msg)
  /\ q.pc = "tx" => q.rest # <<>>
  /\ q.pc \in {"ping", "count"} => q.msg.route # "lidarr"
  /\ q.pc = "auth" => q.msg.route \in {"lidarr", "status"}
  /\ q.pc = "body" => q.msg.route = "lidarr"
  /\ q.pc # "answered" => q.code = 0
  /\ q.late => q.key \in withdrawn
  /\ q.late /\ q.msg.route \in {"lidarr", "status"} => q.pc \in {"auth", "answered", "lost"}

\* The conjunction TLAPS proves inductive.
ServeInv ==
  /\ NoStatementAfterClose
  /\ KeysOK
  /\ request \in [Requests -> RequestState] /\ \A r \in Requests : HandlerOK(request[r])
  /\ AnswersAreTrue
  /\ RevokedIsRefused

\* Told to stop, or unable to listen, serve ends: the worker and the scheduler
\* return, and no handler can hold it up.
ServeStops == signaled \/ canceled ~> main = "down"

=============================================================================
