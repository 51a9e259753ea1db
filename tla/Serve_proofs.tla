---------------------------- MODULE Serve_proofs ----------------------------
(***************************************************************************)
(* Theorems about module Serve: any requests, keys and `keys` commands,    *)
(* signals, failures and restarts.                                         *)
(***************************************************************************)
EXTENDS Serve, SequenceTheorems, TLAPS

-----------------------------------------------------------------------------
(* The titles of a request.                                                *)

\* What was done so far is the beginning of it and what is left.
LEMMA PrefixOfConcat ==
  ASSUME NEW S, NEW s \in Seq(S), NEW t \in Seq(S)
  PROVE  IsPrefix(s, s \o t)
<1>1. /\ s \o t \in Seq(S) /\ Len(s \o t) = Len(s) + Len(t)
      /\ \A i \in 1 .. Len(s) + Len(t) :
           (s \o t)[i] = IF i <= Len(s) THEN s[i] ELSE t[i - Len(s)]
  BY ConcatProperties
<1>2. Len(s) \in Nat /\ Len(t) \in Nat
  BY LenProperties
<1>3. /\ \A i \in 1 .. Len(s) : s[i] \in S
      /\ \A i \in 1 .. Len(s) : (s \o t)[i] = s[i]
  BY <1>1, <1>2, ElementOfSeq
<1>4. SubSeq(s, 1, Len(s)) = s
  BY SubSeqFull
<1>5. SubSeq(s \o t, 1, Len(s)) = s
  <2> DEFINE u == SubSeq(s \o t, 1, Len(s))
  <2>1. \A i \in 1 .. Len(s) : (s \o t)[i] \in S
    BY <1>3
  <2>2. /\ u \in Seq(S)
        /\ Len(u) = IF 1 <= Len(s) THEN Len(s) - 1 + 1 ELSE 0
        /\ \A i \in 1 .. Len(s) - 1 + 1 : u[i] = (s \o t)[1 + i - 1]
    BY <1>2, <2>1, SubSeqProperties
  <2> HIDE DEF u
  <2>3. Len(u) = Len(s)
    BY <1>2, <2>2
  <2>4. \A i \in 1 .. Len(u) : u[i] = s[i]
    BY <1>2, <1>3, <2>2, <2>3
  <2> QED
    BY <2>2, <2>3, <2>4, SeqEqual DEF u
<1> QED
  BY <1>1, <1>2, <1>4, <1>5 DEF IsPrefix

\* The whole and the empty sequence are prefixes.
LEMMA PrefixEnds ==
  ASSUME NEW S, NEW s \in Seq(S)
  PROVE  IsPrefix(<<>>, s) /\ IsPrefix(s, s)
<1>1. <<>> \in Seq(S) /\ s \o <<>> = s /\ <<>> \o s = s
  BY ConcatEmptySeq
<1> QED
  BY <1>1, PrefixOfConcat

\* A committed title moves from what is left to what was done.
LEMMA CommitMoves ==
  ASSUME NEW S, NEW did \in Seq(S), NEW rest \in Seq(S), rest # <<>>
  PROVE  /\ Tail(rest) \in Seq(S) /\ Append(did, Head(rest)) \in Seq(S)
         /\ Append(did, Head(rest)) \o Tail(rest) = did \o rest
<1>1. Head(rest) \in S /\ Tail(rest) \in Seq(S)
  BY HeadTailProperties
<1>2. <<Head(rest)>> \in Seq(S)
  BY <1>1
<1>3. <<Head(rest)>> \o Tail(rest) = rest
  BY <1>1
<1>4. Append(did, Head(rest)) = did \o <<Head(rest)>>
  BY <1>1, AppendIsConcat
<1>5. Append(did, Head(rest)) \in Seq(S)
  BY <1>1, AppendProperties
<1>6. (did \o <<Head(rest)>>) \o Tail(rest) = did \o (<<Head(rest)>> \o Tail(rest))
  BY <1>1, <1>2, ConcatAssociative
<1> QED
  BY <1>1, <1>3, <1>4, <1>5, <1>6

\* The messages that requests carry.
LEMMA MessageFacts ==
  ASSUME NEW msg \in Messages \cup {Plain("healthz")}
  PROVE  /\ msg.route \in {"lidarr", "status", "readyz", "healthz"}
         /\ Inputs(msg) \in Seq(Titles) /\ Wanted(msg) \in Seq(Titles)
         /\ msg.route # "lidarr" => Wanted(msg) = <<>>
<1>1. /\ msg.route \in {"lidarr", "status", "readyz", "healthz"}
      /\ msg.tracks \in Seq(Titles) /\ msg.track \in Titles
  <2>1. CASE msg \in Messages
    BY <2>1, ServeAssumption
  <2>2. CASE msg = Plain("healthz")
    <3>1. msg.route = "healthz" /\ msg.tracks = <<>> /\ msg.track = ""
      BY <2>2 DEF Plain, Lidarr
    <3> QED
      BY <3>1, ServeAssumption, EmptySeq
  <2> QED
    BY <2>1, <2>2
<1>2. <<msg.track>> \in Seq(Titles) /\ Missing \in Seq(Titles) /\ <<>> \in Seq(Titles)
  <2>1. ASSUME NEW t \in Titles PROVE <<t>> \in Seq(Titles)
    OBVIOUS
  <2>2. <<>> \in Seq(Titles)
    BY EmptySeq
  <2> QED
    BY <1>1, <2>1, <2>2, ServeAssumption DEF Missing
<1>3. Inputs(msg) \in Seq(Titles)
  BY <1>1, <1>2 DEF Inputs
<1> QED
  BY <1>1, <1>2, <1>3 DEF Wanted

-----------------------------------------------------------------------------
(* runServe and its goroutines.                                            *)

\* The steps of runServe and its goroutines; those of the handlers and of the
\* `keys` commands leave the process alone.
ProcessStep ==
  \/ Start \/ Main \/ Shutdown \/ StoreKeyFails \/ ListenFails \/ Signal \/ Crash
  \/ \E g \in Goroutines : Goroutine(g)

\* Every way to the end of the database passes the wait for the goroutines.
LEMMA ProcessKeeps ==
  ASSUME NoStatementAfterClose, ProcessStep
  PROVE  NoStatementAfterClose'
<1>1. ServeTypeOK /\ (db = "closed" => \A g \in Goroutines : goroutine[g] \in {"off", "done"})
  BY DEF NoStatementAfterClose
<1>2. CASE Exit
  BY <1>1, <1>2 DEF Exit, Down, NoStatementAfterClose, ServeTypeOK
<1>3. CASE Start \/ StoreKey \/ Signal
  BY <1>1, <1>3 DEF Start, StoreKey, Signal, NoStatementAfterClose, ServeTypeOK
<1>4. CASE Launch
  BY <1>1, <1>4 DEF Launch, NoStatementAfterClose, ServeTypeOK
<1>5. CASE Listen \/ Shutdown \/ Cancel
  BY <1>1, <1>5 DEF Listen, Shutdown, Cancel, NoStatementAfterClose, ServeTypeOK
<1>6. CASE Close
  BY <1>1, <1>6 DEF Close, NoStatementAfterClose, ServeTypeOK
<1>7. CASE \E g \in Goroutines : Goroutine(g)
  <2>1. PICK g \in Goroutines : Goroutine(g)
    BY <1>7
  <2>2. goroutine[g] \in {"run", "statement", "attempt"}
        /\ UNCHANGED <<main, todo, signaled, canceled, listener, db>>
    BY <2>1 DEF Goroutine
  <2>3. PICK state \in {"run", "statement", "attempt", "done"} :
          goroutine' = [goroutine EXCEPT ![g] = state]
    BY <2>1 DEF Goroutine
  <2>4. db = "open" /\ main \notin {"down", "keys"}
    BY <1>1, <2>2 DEF ServeTypeOK
  <2> QED
    BY <1>1, <2>2, <2>3, <2>4 DEF NoStatementAfterClose, ServeTypeOK
<1> QED
  BY <1>2, <1>3, <1>4, <1>5, <1>6, <1>7 DEF ProcessStep, Main, StoreKeyFails, Crash,
     Return, ServerClosed, ListenFails

-----------------------------------------------------------------------------
(* The keys.                                                               *)

\* No row is lost, weakened or given another scope.
Weaker ==
  \A raw \in Stored : /\ raw \in Stored'
                      /\ keys[raw].revoked => keys'[raw].revoked
                      /\ keys'[raw].scopes = keys[raw].scopes

\* Storing a key that has no row keeps the others as they are.
LEMMA InsertKeeps ==
  ASSUME KeysOK, NEW raw \in Raws \ Stored, NEW scopes \in SUBSET Scopes,
         Insert(raw, scopes), UNCHANGED <<revoker, withdrawn>>
  PROVE  KeysOK' /\ Weaker
<1>1. /\ Stored' = Stored \cup {raw} /\ keys'[raw] = [scopes |-> scopes, revoked |-> FALSE]
      /\ \A r \in Stored : keys'[r] = keys[r]
      /\ keys' \in [Stored' -> [scopes: SUBSET Scopes, revoked: BOOLEAN]]
  BY DEF Insert, Stored, KeysOK
<1>2. Weaker
  BY <1>1 DEF Weaker
<1>3. KeysOK'
  BY <1>1 DEF KeysOK
<1> QED
  BY <1>2, <1>3

\* The commands, and keyService when serve starts, never make a key stronger.
LEMMA KeysKeep ==
  ASSUME KeysOK, KeyCommands \/ StoreKey, ServeTypeOK
  PROVE  KeysOK' /\ Weaker /\ withdrawn \subseteq withdrawn'
<1>1. CASE \E raw \in Raws : CreateKey(raw)
  BY <1>1, InsertKeeps, ApiKeysAssumption DEF CreateKey
<1>2. CASE StoreKey
  <2>1. PICK raw \in todo : CreateIfNotExists(raw)
    BY <1>2 DEF StoreKey
  <2>2. raw \in Raws /\ {"webhook"} \in SUBSET Scopes
    BY ApiKeysAssumption DEF ServeTypeOK, Scopes
  <2>3. CASE raw \in Stored
    <3>1. UNCHANGED <<keys, revoker, withdrawn, Stored>>
      BY <2>1, <2>3 DEF CreateIfNotExists, Stored
    <3> QED
      BY <3>1 DEF KeysOK, Weaker
  <2>4. CASE raw \notin Stored
    BY <2>1, <2>2, <2>4, InsertKeeps DEF CreateIfNotExists
  <2> QED
    BY <2>3, <2>4
<1>3. CASE \E c \in Revokers : RevokeFind(c) \/ RevokeFails(c)
  BY <1>3 DEF RevokeFind, RevokeFails, KeysOK, Weaker, Stored
<1>4. CASE \E c \in Revokers : RevokeUpdate(c)
  <2>1. PICK c \in Revokers : RevokeUpdate(c)
    BY <1>4
  <2> DEFINE raw == revoker[c]
  <2>2. raw \in Stored
    BY <2>1 DEF RevokeUpdate, KeysOK
  <2>3. /\ keys' = [keys EXCEPT ![raw].revoked = TRUE]
        /\ revoker' = [revoker EXCEPT ![c] = "none"]
        /\ withdrawn' = withdrawn \cup {raw}
    BY <2>1 DEF RevokeUpdate
  <2> HIDE DEF raw
  <2>4. /\ Stored' = Stored /\ keys'[raw] = [keys[raw] EXCEPT !.revoked = TRUE]
        /\ \A r \in Stored \ {raw} : keys'[r] = keys[r]
    BY <2>2, <2>3 DEF Stored, KeysOK
  <2>5. /\ keys[raw] \in [scopes: SUBSET Scopes, revoked: BOOLEAN]
        /\ keys'[raw] \in [scopes: SUBSET Scopes, revoked: BOOLEAN]
        /\ keys'[raw].revoked = TRUE /\ keys'[raw].scopes = keys[raw].scopes
    <3>1. keys[raw] \in [scopes: SUBSET Scopes, revoked: BOOLEAN]
      BY <2>2 DEF KeysOK
    <3>2. ASSUME NEW k \in [scopes: SUBSET Scopes, revoked: BOOLEAN]
          PROVE  /\ [k EXCEPT !.revoked = TRUE] \in [scopes: SUBSET Scopes, revoked: BOOLEAN]
                 /\ [k EXCEPT !.revoked = TRUE].revoked = TRUE
                 /\ [k EXCEPT !.revoked = TRUE].scopes = k.scopes
      OBVIOUS
    <3> QED
      BY <2>4, <3>1, <3>2
  <2>6. Weaker
    BY <2>4, <2>5 DEF Weaker
  <2>7. keys' \in [Stored' -> [scopes: SUBSET Scopes, revoked: BOOLEAN]]
    BY <2>2, <2>3, <2>4, <2>5 DEF KeysOK
  <2>8. revoker' \in [Revokers -> Stored' \cup {"none"}]
    BY <2>3, <2>4 DEF KeysOK
  <2> QED
    BY <2>2, <2>3, <2>4, <2>5, <2>6, <2>7, <2>8 DEF KeysOK
<1> QED
  BY <1>1, <1>2, <1>3, <1>4 DEF KeyCommands

-----------------------------------------------------------------------------
(* The handlers.                                                           *)

\* HandlerOK, with what AnswersAreTrue and RevokedIsRefused say of a request.
Truthful(q) ==
  /\ HandlerOK(q)
  /\ IsPrefix(q.did, Wanted(q.msg))
  /\ q.code = 200 => q.did = Wanted(q.msg)
  /\ q.code \in {400, 401, 403} => q.did = <<>>
  /\ q.late /\ q.msg.route \in {"lidarr", "status"} => q.code # 200 /\ q.did = <<>>

AllTruthful ==
  request \in [Requests -> RequestState] /\ \A r \in Requests : Truthful(request[r])

LEMMA TruthfulIs ==
  AllTruthful <=> /\ request \in [Requests -> RequestState]
                  /\ \A r \in Requests : HandlerOK(request[r])
                  /\ AnswersAreTrue
                  /\ RevokedIsRefused
BY DEF AllTruthful, Truthful, AnswersAreTrue, RevokedIsRefused

\* Other steps than the handlers' leave them so: a key once withdrawn stays so.
LEMMA OthersTruthful ==
  ASSUME AllTruthful, withdrawn \subseteq withdrawn', request' = request
  PROVE  AllTruthful'
<1>1. \A r \in Requests : HandlerOK(request[r]) => HandlerOK(request[r])'
  BY DEF HandlerOK
<1> QED
  BY <1>1 DEF AllTruthful, Truthful

\* A handler that moves on truthfully.
LEMMA OneRequest ==
  ASSUME AllTruthful, NEW r \in Requests, NEW q, Truthful(q),
         request' = [request EXCEPT ![r] = q], withdrawn' = withdrawn
  PROVE  AllTruthful'
<1>1. q \in RequestState
  BY DEF Truthful, HandlerOK
<1>2. request' \in [Requests -> RequestState]
  BY <1>1 DEF AllTruthful
<1>3. \A s \in Requests : request'[s] = IF s = r THEN q ELSE request[s]
  BY DEF AllTruthful
<1>4. \A s \in Requests : Truthful(request'[s])
  BY <1>3 DEF AllTruthful
<1>5. ASSUME NEW s \in Requests PROVE Truthful(request[s])'
  <2>1. Truthful(request'[s])
    BY <1>4
  <2>2. HandlerOK(request[s])'
    BY <2>1 DEF Truthful, HandlerOK
  <2> QED
    BY <2>1, <2>2 DEF Truthful
<1> QED
  BY <1>2, <1>5 DEF AllTruthful

\* The fields of a request.
LEMMA RequestFacts ==
  ASSUME NEW q, Truthful(q)
  PROVE  /\ q \in RequestState
         /\ q.msg \in Messages \cup {Plain("healthz")}
         /\ q.did \in Seq(Titles) /\ q.rest \in Seq(Titles)
         /\ Wanted(q.msg) \in Seq(Titles)
         /\ q.msg.route \in {"lidarr", "status", "readyz", "healthz"}
         /\ q.msg.route # "lidarr" => Wanted(q.msg) = <<>>
<1>1. /\ q \in RequestState
      /\ q.msg \in Messages \cup {Plain("healthz")}
      /\ q.did \in Seq(Titles) /\ q.rest \in Seq(Titles)
  BY DEF Truthful, HandlerOK, RequestState
<1> QED
  BY <1>1, MessageFacts

\* An answer is truthful if its code tells what was done.
LEMMA AnswerTruthful ==
  ASSUME AllTruthful, NEW r \in Requests, NEW code \in Nat, Answer(r, code),
         withdrawn' = withdrawn,
         request[r].code = 0,
         code = 200 => request[r].did = Wanted(request[r].msg),
         code \in {400, 401, 403} => request[r].did = <<>>,
         request[r].late /\ request[r].msg.route \in {"lidarr", "status"} => code # 200
  PROVE  AllTruthful'
<1> DEFINE old == request[r]
           new == [old EXCEPT !.pc = "answered", !.code = code]
<1>1. Truthful(old)
  BY DEF AllTruthful
<1>2. old \in RequestState
  BY <1>1, RequestFacts
<1>3. request' = [request EXCEPT ![r] = new]
  BY DEF Answer, AllTruthful
<1> HIDE DEF old
<1>4. /\ new \in RequestState /\ new.pc = "answered" /\ new.code = code
      /\ new.msg = old.msg /\ new.key = old.key /\ new.late = old.late
      /\ new.rest = old.rest /\ new.did = old.did
  BY <1>2 DEF RequestState
<1> HIDE DEF new
<1>5. Truthful(new)
  BY <1>1, <1>4 DEF Truthful, HandlerOK, old
<1> QED
  BY <1>3, <1>5, OneRequest

\* A move to another position with nothing but the titles changed.
LEMMA MoveTruthful ==
  ASSUME AllTruthful, NEW r \in Requests, NEW new,
         NEW pc \in {"count", "body", "loop", "tx"}, NEW rest \in Seq(Titles),
         NEW did \in Seq(Titles),
         new = [request[r] EXCEPT !.pc = pc, !.rest = rest, !.did = did],
         request' = [request EXCEPT ![r] = new],
         withdrawn' = withdrawn,
         request[r].code = 0,
         pc \in {"count", "body"} => did = <<>> /\ rest = <<>>,
         pc \in {"loop", "tx"} => did \o rest = Wanted(request[r].msg),
         pc = "tx" => rest # <<>>,
         pc = "count" => request[r].msg.route = "status",
         pc = "body" => request[r].msg.route = "lidarr",
         ~(request[r].late /\ request[r].msg.route \in {"lidarr", "status"})
  PROVE  AllTruthful'
<1> DEFINE old == request[r]
<1>1. Truthful(old)
  BY DEF AllTruthful
<1>2. old \in RequestState /\ Wanted(old.msg) \in Seq(Titles)
  BY <1>1, RequestFacts
<1>3. new = [old EXCEPT !.pc = pc, !.rest = rest, !.did = did]
  OBVIOUS
<1>4. /\ old.code = 0
      /\ pc \in {"loop", "tx"} => did \o rest = Wanted(old.msg)
      /\ pc = "count" => old.msg.route = "status"
      /\ pc = "body" => old.msg.route = "lidarr"
      /\ ~(old.late /\ old.msg.route \in {"lidarr", "status"})
  OBVIOUS
<1> HIDE DEF old
<1>5. /\ new \in RequestState /\ new.pc = pc /\ new.code = old.code
      /\ new.msg = old.msg /\ new.key = old.key /\ new.late = old.late
      /\ new.rest = rest /\ new.did = did
  BY <1>2, <1>3 DEF RequestState
<1>6. IsPrefix(did, Wanted(old.msg))
  BY <1>2, <1>4, PrefixOfConcat, PrefixEnds
<1>7. HandlerOK(new)
  BY <1>1, <1>4, <1>5 DEF Truthful, HandlerOK
<1>8. Truthful(new)
  BY <1>4, <1>5, <1>6, <1>7 DEF Truthful
<1> QED
  BY <1>8, OneRequest

\* What is known of a request whose handler is at work.
LEMMA HandlerFacts ==
  ASSUME AllTruthful, NEW r \in Requests
  PROVE  /\ Truthful(request[r]) /\ request[r] \in RequestState
         /\ request[r].did \in Seq(Titles) /\ request[r].rest \in Seq(Titles)
         /\ request[r].msg \in Messages \cup {Plain("healthz")}
         /\ request[r].msg.route # "lidarr" => Wanted(request[r].msg) = <<>>
         /\ request[r].pc # "answered" => request[r].code = 0
         /\ request[r].pc \in {"ping", "count", "body", "loop", "tx"}
            => ~(request[r].late /\ request[r].msg.route \in {"lidarr", "status"})
         /\ request[r].pc \in {"none", "auth", "ping", "count", "body"}
            => request[r].did = <<>> /\ request[r].rest = <<>>
<1>1. Truthful(request[r])
  BY DEF AllTruthful
<1>2. /\ request[r] \in RequestState
      /\ request[r].did \in Seq(Titles) /\ request[r].rest \in Seq(Titles)
      /\ request[r].msg \in Messages \cup {Plain("healthz")}
      /\ request[r].msg.route # "lidarr" => Wanted(request[r].msg) = <<>>
  BY <1>1, RequestFacts
<1> QED
  BY <1>1, <1>2 DEF Truthful, HandlerOK

\* Going on to position pc changes nothing else.
LEMMA GotoIs ==
  ASSUME AllTruthful, NEW r \in Requests, NEW pc, Goto(r, pc)
  PROVE  request' = [request EXCEPT
           ![r] = [request[r] EXCEPT !.pc = pc, !.rest = request[r].rest, !.did = request[r].did]]
<1> DEFINE old == request[r]
<1>1. old \in RequestState /\ request \in [Requests -> RequestState]
  BY HandlerFacts DEF AllTruthful
<1>2. request' = [request EXCEPT ![r] = [old EXCEPT !.pc = pc]]
  BY <1>1 DEF Goto
<1> HIDE DEF old
<1>3. [old EXCEPT !.pc = pc] = [old EXCEPT !.pc = pc, !.rest = old.rest, !.did = old.did]
  BY <1>1 DEF RequestState
<1> QED
  BY <1>2, <1>3 DEF old

\* Nothing was asked and nothing done.
LEMMA NoRequestFacts ==
  /\ NoRequest \in RequestState
  /\ NoRequest.pc = "none" /\ NoRequest.rest = <<>> /\ NoRequest.did = <<>>
  /\ NoRequest.code = 0 /\ NoRequest.late = FALSE /\ NoRequest.msg = Plain("healthz")
<1> DEFINE none == <<>>
           plain == Plain("healthz")
<1>1. none \in Seq(Titles)
  BY EmptySeq
<1>2. NoRequest = [pc |-> "none", msg |-> plain, key |-> "none", late |-> FALSE,
                   rest |-> none, did |-> none, code |-> 0]
  BY DEF NoRequest
<1>3. RequestState =
        [pc: {"none", "auth", "ping", "count", "body", "loop", "tx", "answered", "lost"},
         msg: Messages \cup {plain}, key: Raws \cup Foreign \cup {"none"},
         late: BOOLEAN, rest: Seq(Titles), did: Seq(Titles), code: Nat]
  BY DEF RequestState
<1> HIDE DEF none, plain
<1>4. NoRequest \in RequestState
  BY <1>1, <1>2, <1>3
<1> QED
  BY <1>2, <1>4 DEF none, plain

\* A new request has done nothing.
LEMMA ArriveTruthful ==
  ASSUME AllTruthful, NEW r \in Requests, Arrive(r)
  PROVE  AllTruthful'
<1>1. PICK msg \in Messages, key \in Raws \cup Foreign :
        request' = [request EXCEPT
          ![r] = [NoRequest EXCEPT
                    !.pc = CASE msg.route = "healthz" -> "loop"
                             [] msg.route = "readyz" -> "ping"
                             [] OTHER -> "auth",
                    !.msg = msg, !.key = key, !.late = key \in withdrawn]]
  BY DEF Arrive
<1> DEFINE pc == CASE msg.route = "healthz" -> "loop"
                   [] msg.route = "readyz" -> "ping"
                   [] OTHER -> "auth"
           late == key \in withdrawn
           new == [NoRequest EXCEPT !.pc = pc, !.msg = msg, !.key = key, !.late = late]
<1>2. /\ pc = "loop" => msg.route = "healthz"
      /\ pc = "ping" => msg.route = "readyz"
      /\ pc = "auth" => msg.route \in {"lidarr", "status"}
      /\ pc # "auth" => msg.route \notin {"lidarr", "status"}
      /\ pc \in {"loop", "ping", "auth"}
      /\ late => key \in withdrawn
  BY MessageFacts
<1>3. request' = [request EXCEPT ![r] = new]
  BY <1>1
<1>4. late \in BOOLEAN
  OBVIOUS
<1> HIDE DEF pc, late
<1>5. /\ new.pc = pc /\ new.msg = msg /\ new.key = key /\ new.late = late
      /\ new.rest = <<>> /\ new.did = <<>> /\ new.code = 0
  BY DEF NoRequest
<1>6. new \in RequestState
  BY <1>2, <1>4, NoRequestFacts DEF RequestState
<1> HIDE DEF new
<1>7. Wanted(msg) \in Seq(Titles) /\ (msg.route # "lidarr" => Wanted(msg) = <<>>)
  BY MessageFacts
<1>8. IsPrefix(<<>>, Wanted(msg)) /\ <<>> \o <<>> = <<>>
  BY <1>7, PrefixEnds
<1>9. HandlerOK(new)
  BY <1>2, <1>5, <1>6, <1>7, <1>8 DEF HandlerOK
<1>10. Truthful(new)
  BY <1>5, <1>8, <1>9 DEF Truthful
<1> QED
  BY <1>3, <1>10, OneRequest DEF Arrive, OnlyRequest, keyVars

\* A key revoked before the request came is revoked when it is checked.
LEMMA AuthenticateTruthful ==
  ASSUME AllTruthful, KeysOK, NEW r \in Requests, Authenticate(r)
  PROVE  AllTruthful'
<1> DEFINE old == request[r]
           verdict == ValidateKey(old.key, Required(old.msg.route))
<1>1. /\ old.pc = "auth" /\ withdrawn' = withdrawn
      /\ IF verdict # "valid" THEN Answer(r, CodeOf(verdict))
         ELSE Goto(r, IF old.msg.route = "status" THEN "count" ELSE "body")
  BY DEF Authenticate, At, OnlyRequest, keyVars
<1>2. /\ old.code = 0 /\ old.did = <<>> /\ old.rest = <<>>
      /\ old.did \in Seq(Titles) /\ old.rest \in Seq(Titles)
  BY <1>1, HandlerFacts
<1>3. /\ old.msg.route \in {"lidarr", "status"}
      /\ old.late => old.key \in withdrawn
  BY <1>1, HandlerFacts DEF Truthful, HandlerOK
<1>4. old.late => verdict # "valid"
  BY <1>3 DEF KeysOK, ValidateKey
<1>5. CodeOf(verdict) \in {401, 403}
  BY DEF CodeOf
<1> HIDE DEF verdict
<1>6. CASE verdict # "valid"
  BY <1>1, <1>2, <1>5, <1>6, AnswerTruthful
<1>7. CASE verdict = "valid"
  <2> DEFINE pc == IF old.msg.route = "status" THEN "count" ELSE "body"
  <2>1. /\ pc \in {"count", "body"} /\ Goto(r, pc)
        /\ pc = "count" => old.msg.route = "status"
        /\ pc = "body" => old.msg.route = "lidarr"
    BY <1>1, <1>3, <1>7
  <2> HIDE DEF pc
  <2>2. request' = [request EXCEPT
                     ![r] = [old EXCEPT !.pc = pc, !.rest = old.rest, !.did = old.did]]
    BY <2>1, GotoIs
  <2> QED
    BY <1>1, <1>2, <1>4, <1>7, <2>1, <2>2, MoveTruthful
<1> QED
  BY <1>6, <1>7

\* What the payload asks for becomes what is left to do.
LEMMA DecodeTruthful ==
  ASSUME AllTruthful, NEW r \in Requests, Decode(r)
  PROVE  AllTruthful'
<1> DEFINE old == request[r]
           inputs == Inputs(old.msg)
<1>1. old.pc = "body" /\ withdrawn' = withdrawn
  BY DEF Decode, At, OnlyRequest, keyVars
<1>2. /\ old \in RequestState /\ request \in [Requests -> RequestState]
      /\ old.code = 0 /\ old.did = <<>> /\ old.rest = <<>>
      /\ old.did \in Seq(Titles) /\ old.rest \in Seq(Titles)
      /\ ~(old.late /\ old.msg.route \in {"lidarr", "status"})
  BY <1>1, HandlerFacts DEF AllTruthful
<1>3. old.msg.route = "lidarr"
  BY <1>1, HandlerFacts DEF Truthful, HandlerOK
<1>4. inputs \in Seq(Titles)
  BY HandlerFacts, MessageFacts
<1>5. ASSUME NEW rest \in Seq(Titles), rest = Wanted(old.msg),
             request' = [request EXCEPT ![r].pc = "loop", ![r].rest = rest]
      PROVE  AllTruthful'
  <2> DEFINE new == [old EXCEPT !.pc = "loop", !.rest = rest, !.did = old.did]
  <2>1. request' = [request EXCEPT ![r] = [old EXCEPT !.pc = "loop", !.rest = rest]]
    BY <1>2, <1>5
  <2> HIDE DEF old
  <2>2. [old EXCEPT !.pc = "loop", !.rest = rest] = new
    BY <1>2 DEF RequestState
  <2>3. request' = [request EXCEPT ![r] = new]
    BY <2>1, <2>2
  <2>4. old.did \o rest = Wanted(old.msg)
    BY <1>2, <1>5, ConcatEmptySeq
  <2>5. new = [request[r] EXCEPT !.pc = "loop", !.rest = rest, !.did = old.did]
    BY DEF old
  <2> HIDE DEF new
  <2> QED
    BY <1>1, <1>2, <2>3, <2>4, <2>5, MoveTruthful DEF old
<1>6. CASE old.msg.event \in {"Download", "TrackRetag"} /\ inputs # Missing
  <2>1. request' = [request EXCEPT ![r].pc = "loop", ![r].rest = inputs]
    BY <1>6 DEF Decode
  <2>2. inputs = Wanted(old.msg)
    BY <1>3, <1>6 DEF Wanted
  <2> QED
    BY <1>4, <1>5, <2>1, <2>2
<1>7. CASE old.msg.event = "Delete"
  <2> DEFINE rest == IF inputs = Missing THEN <<>> ELSE inputs
  <2>1. request' = [request EXCEPT ![r].pc = "loop", ![r].rest = rest]
    BY <1>7 DEF Decode
  <2>2. rest = Wanted(old.msg) /\ rest \in Seq(Titles)
    BY <1>3, <1>4, <1>7, EmptySeq DEF Wanted
  <2> HIDE DEF rest
  <2> QED
    BY <1>5, <2>1, <2>2
<1>8. CASE old.msg.event \in {"Grab", "Rename"}
  <2>1. Goto(r, "loop") /\ Wanted(old.msg) = <<>>
    BY <1>8 DEF Decode, Wanted
  <2>2. request' = [request EXCEPT
                     ![r] = [old EXCEPT !.pc = "loop", !.rest = old.rest, !.did = old.did]]
    BY <2>1, GotoIs
  <2>3. old.did \o old.rest = Wanted(old.msg)
    BY <1>2, <2>1, ConcatEmptySeq
  <2> QED
    BY <1>1, <1>2, <2>2, <2>3, MoveTruthful
<1>9. CASE /\ ~(old.msg.event \in {"Download", "TrackRetag"} /\ inputs # Missing)
           /\ old.msg.event \notin {"Delete", "Grab", "Rename"}
  <2>1. Answer(r, 400)
    BY <1>9 DEF Decode
  <2> QED
    BY <1>1, <1>2, <2>1, AnswerTruthful
<1> QED
  BY <1>6, <1>7, <1>8, <1>9

\* The loop over the titles.
LEMMA LoopTruthful ==
  ASSUME AllTruthful, NEW r \in Requests,
         Read(r) \/ Begin(r) \/ Commit(r) \/ StatementFails(r) \/ Finish(r)
  PROVE  AllTruthful'
<1> DEFINE old == request[r]
<1>1. /\ old.pc \in {"auth", "ping", "count", "loop", "tx"} /\ withdrawn' = withdrawn
      /\ old.pc = "auth" => StatementFails(r)
  BY DEF Read, Begin, Commit, StatementFails, Finish, At, OnlyRequest, keyVars
<1>2. /\ old \in RequestState /\ request \in [Requests -> RequestState]
      /\ old.code = 0
      /\ old.did \in Seq(Titles) /\ old.rest \in Seq(Titles)
      /\ old.pc # "auth" => ~(old.late /\ old.msg.route \in {"lidarr", "status"})
      /\ old.pc \in {"ping", "count"} => old.did = <<>> /\ old.rest = <<>>
                                         /\ Wanted(old.msg) = <<>>
      /\ old.pc \in {"loop", "tx"} => old.did \o old.rest = Wanted(old.msg)
      /\ old.pc = "tx" => old.rest # <<>>
  BY <1>1, HandlerFacts DEF AllTruthful, Truthful, HandlerOK
<1>3. CASE Read(r)
  <2>1. Goto(r, "loop") /\ old.pc \in {"ping", "count"}
    BY <1>3 DEF Read, At
  <2>2. request' = [request EXCEPT
                     ![r] = [old EXCEPT !.pc = "loop", !.rest = old.rest, !.did = old.did]]
    BY <2>1, GotoIs
  <2>3. old.did \o old.rest = Wanted(old.msg)
    BY <1>2, <2>1, ConcatEmptySeq
  <2> QED
    BY <1>1, <1>2, <2>1, <2>2, <2>3, MoveTruthful
<1>4. CASE Begin(r)
  <2>1. Goto(r, "tx") /\ old.pc = "loop" /\ old.rest # <<>>
    BY <1>4 DEF Begin, At
  <2>2. request' = [request EXCEPT
                     ![r] = [old EXCEPT !.pc = "tx", !.rest = old.rest, !.did = old.did]]
    BY <2>1, GotoIs
  <2> QED
    BY <1>1, <1>2, <2>1, <2>2, MoveTruthful
<1>5. CASE Commit(r)
  <2> DEFINE rest == Tail(old.rest)
             did == Append(old.did, Head(old.rest))
  <2>1. /\ old.pc = "tx"
        /\ request' = [request EXCEPT ![r].pc = "loop", ![r].rest = rest, ![r].did = did]
    BY <1>5 DEF Commit, At
  <2>2. rest \in Seq(Titles) /\ did \in Seq(Titles) /\ did \o rest = old.did \o old.rest
    BY <1>2, <2>1, CommitMoves
  <2> HIDE DEF rest, did
  <2>3. request' = [request EXCEPT
                     ![r] = [old EXCEPT !.pc = "loop", !.rest = rest, !.did = did]]
    BY <1>2, <2>1
  <2> QED
    BY <1>1, <1>2, <2>1, <2>2, <2>3, MoveTruthful
<1>6. CASE StatementFails(r)
  <2>1. Answer(r, 500) \/ Answer(r, 503)
    BY <1>6 DEF StatementFails
  <2> QED
    BY <1>1, <1>2, <2>1, AnswerTruthful
<1>7. CASE Finish(r)
  <2>1. Answer(r, 200) /\ old.pc = "loop" /\ old.rest = <<>>
    BY <1>7 DEF Finish, At
  <2>2. old.did = Wanted(old.msg)
    BY <1>2, <2>1, ConcatEmptySeq
  <2> QED
    BY <1>1, <1>2, <2>1, <2>2, AnswerTruthful
<1> QED
  BY <1>3, <1>4, <1>5, <1>6, <1>7

\* The end of the process cuts the handlers off where they are.
LEMMA ExitTruthful ==
  ASSUME AllTruthful, Exit
  PROVE  AllTruthful'
<1>1. withdrawn' = withdrawn
  BY DEF Exit, keyVars
<1>2. ASSUME NEW r \in Requests
      PROVE  /\ Truthful(request'[r])
             /\ request'[r] = IF r \in Unanswered THEN [request[r] EXCEPT !.pc = "lost"]
                              ELSE request[r]
  <2> DEFINE old == request[r]
             new == [old EXCEPT !.pc = "lost"]
  <2>1. request'[r] = IF r \in Unanswered THEN new ELSE old
    BY DEF Exit
  <2>2. Truthful(old) /\ old \in RequestState
    BY HandlerFacts
  <2>3. r \in Unanswered => old.pc # "answered"
    BY DEF Unanswered
  <2> HIDE DEF old
  <2>4. /\ new \in RequestState /\ new.pc = "lost" /\ new.code = old.code
        /\ new.msg = old.msg /\ new.key = old.key /\ new.late = old.late
        /\ new.rest = old.rest /\ new.did = old.did
    BY <2>2 DEF RequestState
  <2> HIDE DEF new
  <2>5. old.pc # "answered" => Truthful(new)
    BY <2>2, <2>4 DEF Truthful, HandlerOK
  <2> QED
    BY <2>1, <2>2, <2>3, <2>5 DEF old, new
<1>3. request' \in [Requests -> RequestState]
  <2>1. \A r \in Requests : request'[r] \in RequestState
    BY <1>2 DEF Truthful, HandlerOK
  <2>2. request' \in [Requests -> {request'[r] : r \in Requests}]
    BY DEF Exit
  <2> QED
    BY <2>1, <2>2
<1>4. ASSUME NEW r \in Requests PROVE Truthful(request[r])'
  <2>1. Truthful(request'[r])
    BY <1>2
  <2>2. HandlerOK(request[r])'
    BY <1>1, <2>1 DEF Truthful, HandlerOK
  <2> QED
    BY <2>1, <2>2 DEF Truthful
<1> QED
  BY <1>3, <1>4 DEF AllTruthful

-----------------------------------------------------------------------------
(* The invariant.                                                          *)

LEMMA ServeInvIs == ServeInv <=> NoStatementAfterClose /\ KeysOK /\ AllTruthful
BY TruthfulIs DEF ServeInv

\* What each step leaves alone.
LEMMA StepFrame ==
  ASSUME ServeNext
  PROVE  \/ ProcessStep /\ (StoreKey \/ UNCHANGED keyVars) /\ (Exit \/ request' = request)
         \/ (\E r \in Requests : Arrive(r) \/ Handle(r)) /\ UNCHANGED <<keyVars, process>>
         \/ KeyCommands /\ UNCHANGED <<process, request>>
<1>1. CASE \E r \in Requests : Arrive(r) \/ Handle(r)
  BY <1>1 DEF Arrive, Handle, Read, Authenticate, Decode, Begin, Commit, StatementFails,
     Finish, OnlyRequest
<1>2. CASE ProcessStep
  <2>1. Exit => UNCHANGED keyVars
    BY DEF Exit
  <2>2. StoreKeyFails \/ Crash \/ Return => Exit
    BY DEF StoreKeyFails, Crash, Return
  <2>3. StoreKey => request' = request
    BY DEF StoreKey
  <2>4. \/ Start \/ Launch \/ Listen \/ ServerClosed \/ Close \/ Shutdown \/ ListenFails
        \/ Signal \/ (\E g \in Goroutines : Goroutine(g))
        => UNCHANGED keyVars /\ request' = request
    BY DEF Start, Launch, Listen, ServerClosed, Close, Shutdown, ListenFails, Cancel,
       Signal, Goroutine
  <2> QED
    BY <1>2, <2>1, <2>2, <2>3, <2>4 DEF ProcessStep, Main
<1> QED
  BY <1>1, <1>2 DEF ServeNext, ProcessStep

\* Every step keeps the invariant.
LEMMA ServeStep ==
  ASSUME ServeInv, [ServeNext]_vars
  PROVE  ServeInv'
<1>1. NoStatementAfterClose /\ KeysOK /\ AllTruthful /\ ServeTypeOK
  BY ServeInvIs DEF NoStatementAfterClose
<1>2. UNCHANGED process => NoStatementAfterClose'
  BY <1>1 DEF process, NoStatementAfterClose, ServeTypeOK
<1>3. UNCHANGED keyVars => KeysOK' /\ withdrawn \subseteq withdrawn'
  BY <1>1 DEF keyVars, KeysOK, Stored
<1>4. ServeInv' <=> NoStatementAfterClose' /\ KeysOK' /\ AllTruthful'
  BY ServeInvIs, PTL
<1>5. CASE /\ ProcessStep /\ (StoreKey \/ UNCHANGED keyVars)
           /\ Exit \/ request' = request
  <2>1. NoStatementAfterClose'
    BY <1>1, <1>5, ProcessKeeps
  <2>2. KeysOK' /\ withdrawn \subseteq withdrawn'
    BY <1>1, <1>3, <1>5, KeysKeep
  <2>3. AllTruthful'
    BY <1>1, <1>5, <2>2, ExitTruthful, OthersTruthful
  <2> QED
    BY <1>4, <2>1, <2>2, <2>3
<1>6. CASE (\E r \in Requests : Arrive(r) \/ Handle(r)) /\ UNCHANGED <<keyVars, process>>
  <2>1. AllTruthful'
    BY <1>1, <1>6, ArriveTruthful, AuthenticateTruthful, DecodeTruthful, LoopTruthful
       DEF Handle
  <2> QED
    BY <1>2, <1>3, <1>4, <1>6, <2>1
<1>7. CASE KeyCommands /\ UNCHANGED <<process, request>>
  <2>1. KeysOK' /\ withdrawn \subseteq withdrawn'
    BY <1>1, <1>7, KeysKeep
  <2> QED
    BY <1>1, <1>2, <1>4, <1>7, <2>1, OthersTruthful
<1>8. CASE UNCHANGED vars
  BY <1>1, <1>2, <1>3, <1>4, <1>8, OthersTruthful DEF vars
<1> QED
  BY <1>5, <1>6, <1>7, <1>8, StepFrame

\* Whatever requests, `keys` commands, signals, crashes and restarts come in
\* whatever order, the invariant of serve holds.
THEOREM ServeInvariant == ServeSpec => []ServeInv
<1>1. ServeInit => ServeInv
  <2> SUFFICES ASSUME ServeInit PROVE ServeInv
    OBVIOUS
  <2>1. NoStatementAfterClose
    BY DEF ServeInit, NoStatementAfterClose, ServeTypeOK
  <2>2. KeysOK
    BY DEF ServeInit, KeysInit, KeysOK, Stored
  <2>3. Truthful(NoRequest)
    <3>1. /\ Wanted(NoRequest.msg) = <<>>
          /\ NoRequest.msg.route = "healthz"
      BY NoRequestFacts DEF Plain, Lidarr, Wanted
    <3>2. IsPrefix(<<>>, <<>>)
      BY PrefixEnds, EmptySeq
    <3> QED
      BY <3>1, <3>2, NoRequestFacts DEF Truthful, HandlerOK
  <2>4. AllTruthful
    BY <2>3, NoRequestFacts DEF ServeInit, AllTruthful
  <2> QED
    BY <2>1, <2>2, <2>4, ServeInvIs
<1>2. ServeInv /\ [ServeNext]_vars => ServeInv'
  BY ServeStep
<1> QED
  BY <1>1, <1>2, PTL DEF ServeSpec

\* Signals, listen failures, errors and crashes in any order: the database is
\* closed under neither the worker's nor the scheduler's hands.
THEOREM CloseComesLast == ServeSpec => []NoStatementAfterClose
<1>1. ServeInv => NoStatementAfterClose
  BY DEF ServeInv
<1> QED
  BY <1>1, ServeInvariant, PTL

\* For any number of requests with any number of tracks, the status code of an
\* answer tells which of its titles were committed.
THEOREM CodesTellTheTruth == ServeSpec => []AnswersAreTrue
<1>1. ServeInv => AnswersAreTrue
  BY DEF ServeInv
<1> QED
  BY <1>1, ServeInvariant, PTL

\* A request that comes after its key's revocation was reported is refused,
\* however often serve was restarted and stored its configured keys again.
THEOREM RevocationHolds == ServeSpec => []RevokedIsRefused
<1>1. ServeInv => RevokedIsRefused
  BY DEF ServeInv
<1> QED
  BY <1>1, ServeInvariant, PTL

\* RevokeByHash reads and writes in two statements and keyService inserts on
\* every start, yet no row is lost, un-revoked or given another scope.
THEOREM KeysWeaken == ServeSpec => KeysOnlyWeaken
<1>1. ASSUME ServeInv, [ServeNext]_vars PROVE Weaker
  <2>1. KeysOK /\ ServeTypeOK
    BY <1>1 DEF ServeInv, NoStatementAfterClose
  <2>2. CASE UNCHANGED keyVars
    BY <2>2 DEF keyVars, Weaker, Stored
  <2>3. CASE StoreKey \/ KeyCommands
    BY <2>1, <2>3, KeysKeep
  <2> QED
    BY <1>1, <2>2, <2>3, StepFrame DEF vars
<1>2. ServeInv /\ [ServeNext]_vars
      => [\A raw \in Stored : /\ raw \in Stored'
                              /\ keys[raw].revoked => keys'[raw].revoked
                              /\ keys'[raw].scopes = keys[raw].scopes]_vars
  BY <1>1 DEF Weaker
<1> QED
  BY <1>2, ServeInvariant, PTL DEF ServeSpec, KeysOnlyWeaken

=============================================================================
