--------------------------- MODULE TelegramLinking ---------------------------
(***************************************************************************)
(* Linking a Telegram destination: the user asks for a link token or       *)
(* disconnects (telegram/service.py), while the poller processes the       *)
(* /start messages that Telegram delivers, again after a crash             *)
(* (telegram/{poller,linking}.py).                                         *)
(*                                                                         *)
(* A transaction is a sequence of steps, one for each row lock it waits    *)
(* for, and writes at its commit.  The poller locks the token and then the *)
(* connection, a request the connection and then the token, so the two can *)
(* wait for each other until the database fails one of them.               *)
(***************************************************************************)
EXTENDS Integers, FiniteSets

CONSTANTS
    Users, Destinations, Tokens,
    Updates,       \* /start messages: each is sent at most once
    Senders,       \* the destinations each may come from
    Requests,      \* requests to create a link or to disconnect
    MaxFaults,     \* bound: database errors and deaths of the poller
    Nobody

\* Nobody stands for NULL; messages come from the destinations they may come from.
LinkingAssumption ==
    /\ Nobody \notin Users \union Destinations \union Tokens \union Updates \union Requests
    /\ Nobody # "poller"
    /\ "poller" \notin Requests
    /\ Senders \in [Updates -> SUBSET Destinations]
    /\ MaxFaults \in Nat

VARIABLES
    token,         \* telegram_link_tokens: status and owner
    connection,    \* telegram_connections: status and destination
    update,        \* each message: its token and sender, and where it is
    processed,     \* telegram_processed_updates
    poller,        \* what the poller is doing, and with which message
    request,       \* what each request is doing
    tokenLock, rowLock,  \* who holds the rows of tokens and of connections
    confirmed,     \* history: confirmations per message
    faults

vars == <<token, connection, update, processed, poller, request, tokenLock, rowLock,
          confirmed, faults>>

NoToken == [status |-> "none", user |-> Nobody]
NoConnection == [status |-> "none", dest |-> Nobody]
Unsent == [at |-> "user", token |-> Nobody, dest |-> Nobody]
IdlePoller == [pc |-> "idle", update |-> Nobody]
NewRequest == [pc |-> "new", kind |-> "none", user |-> Nobody]

TypeOK ==
    /\ token \in [Tokens -> [status: {"none", "open", "expired", "consumed", "revoked"},
                             user: Users \union {Nobody}]]
    /\ connection \in [Users -> [status: {"none", "connected", "degraded", "disconnected"},
                                 dest: Destinations \union {Nobody}]]
    /\ update \in [Updates -> [at: {"user", "telegram", "fetched", "gone"},
                               token: Tokens \union {Nobody},
                               dest: Destinations \union {Nobody}]]
    /\ processed \subseteq Updates
    /\ poller \in [pc: {"idle", "record", "token", "user", "decide", "confirm"},
                   update: Updates \union {Nobody}]
    /\ request \in [Requests -> [pc: {"new", "connection", "tokens", "insert", "done"},
                                 kind: {"none", "create", "disconnect"},
                                 user: Users \union {Nobody}]]
    /\ tokenLock \in [Tokens -> Requests \union {"poller", Nobody}]
    /\ rowLock \in [Users -> Requests \union {"poller", Nobody}]
    /\ confirmed \in [Updates -> Nat]
    /\ faults \in 0..MaxFaults

Init ==
    /\ token = [t \in Tokens |-> NoToken]
    /\ connection = [u \in Users |-> NoConnection]
    /\ update = [m \in Updates |-> Unsent]
    /\ processed = {}
    /\ poller = IdlePoller
    /\ request = [q \in Requests |-> NewRequest]
    /\ tokenLock = [t \in Tokens |-> Nobody]
    /\ rowLock = [u \in Users |-> Nobody]
    /\ confirmed = [m \in Updates |-> 0]
    /\ faults = 0

-----------------------------------------------------------------------------
(* Locks *)

Held(lock, by) == [x \in DOMAIN lock |-> IF lock[x] = by THEN Nobody ELSE lock[x]]
\* commit or rollback
EndTransaction(by) == tokenLock' = Held(tokenLock, by) /\ rowLock' = Held(rowLock, by)

\* get_telegram_connection_by_user_id(for_update=True): no row, no lock
LocksRow(by, u) ==
    /\ rowLock[u] \in {Nobody, by}
    /\ rowLock' = IF connection[u].status = "none" THEN rowLock
                  ELSE [rowLock EXCEPT ![u] = by]

-----------------------------------------------------------------------------
(* Requests of the user *)

OpenTokens(u) == {t \in Tokens : token[t].user = u /\ token[t].status \in {"open", "expired"}}
TokensFree(u, q) == \A t \in OpenTokens(u) : tokenLock[t] \in {Nobody, q}

Go(q, step) == request' = [request EXCEPT ![q].pc = step]

Ask(q) ==
    /\ request[q].pc = "new"
    /\ \E kind \in {"create", "disconnect"}, u \in Users :
          request' = [request EXCEPT ![q] = [pc |-> "connection", kind |-> kind, user |-> u]]
    /\ UNCHANGED <<token, connection, update, processed, poller, tokenLock, rowLock,
                   confirmed, faults>>

LockConnection(q) ==
    /\ request[q].pc = "connection"
    /\ LET u == request[q].user IN
       IF request[q].kind = "create" /\ connection[u].status \in {"connected", "degraded"}
       THEN rowLock[u] = Nobody /\ Go(q, "done") /\ UNCHANGED rowLock   \* already connected
       ELSE LocksRow(q, u) /\ Go(q, "tokens")
    /\ UNCHANGED <<token, connection, update, processed, poller, tokenLock,
                   confirmed, faults>>

Revoked(tokens) ==
    [t \in Tokens |-> IF t \in tokens THEN [token[t] EXCEPT !.status = "revoked"] ELSE token[t]]

\* disconnect marks the row its first statement has locked, if there was one:
\* a connection linked since then it does not know of
Disconnect(q) ==
    LET u == request[q].user IN
    /\ request[q].pc = "tokens" /\ request[q].kind = "disconnect"
    /\ TokensFree(u, q)
    /\ token' = Revoked(OpenTokens(u))
    /\ connection' = IF rowLock[u] = q THEN [connection EXCEPT ![u].status = "disconnected"]
                     ELSE connection
    /\ Go(q, "done") /\ EndTransaction(q)
    /\ UNCHANGED <<update, processed, poller, confirmed, faults>>

\* create_link: revoke_outstanding_telegram_link_tokens locks what it revokes ...
Revoke(q) ==
    LET u == request[q].user IN
    /\ request[q].pc = "tokens" /\ request[q].kind = "create"
    /\ TokensFree(u, q)
    /\ tokenLock' = [t \in Tokens |-> IF t \in OpenTokens(u) THEN q ELSE tokenLock[t]]
    /\ Go(q, "insert")
    /\ UNCHANGED <<token, connection, update, processed, poller, rowLock,
                   confirmed, faults>>

\* ... and the new token is inserted, unless another request's token is open by
\* now and the unique index refuses a second one
InsertToken(q) ==
    LET u == request[q].user
        mine == {t \in Tokens : tokenLock[t] = q} IN
    /\ request[q].pc = "insert"
    /\ IF OpenTokens(u) \ mine # {} THEN UNCHANGED token
       ELSE \E t \in Tokens :
              /\ token[t].status = "none"
              /\ token' = [Revoked(mine) EXCEPT ![t] = [status |-> "open", user |-> u]]
    /\ Go(q, "done") /\ EndTransaction(q)
    /\ UNCHANGED <<connection, update, processed, poller, confirmed, faults>>

\* an error rolls the request back and is answered 503; so is running out of tokens,
\* a bound of the model
RequestFails(q) ==
    /\ request[q].pc \in {"connection", "tokens", "insert"}
    /\ Go(q, "done") /\ EndTransaction(q)
    /\ UNCHANGED <<token, connection, update, processed, poller, confirmed>>

-----------------------------------------------------------------------------
(* Telegram, the clock, and the notification worker *)

Message == update[poller.update]

\* somebody who has the link sends its token from a private chat
SendStart(m) ==
    /\ update[m].at = "user"
    /\ \E t \in Tokens, d \in Senders[m] :
          /\ token[t].status # "none"
          /\ update' = [update EXCEPT ![m] = [at |-> "telegram", token |-> t, dest |-> d]]
    /\ UNCHANGED <<token, connection, processed, poller, request, tokenLock, rowLock,
                   confirmed, faults>>

\* the next getUpdates acknowledges what was fetched, handled by then or not
Acknowledge(m) ==
    /\ update[m].at = "fetched"
    /\ update' = [update EXCEPT ![m].at = "gone"]
    /\ UNCHANGED <<token, connection, processed, poller, request, tokenLock, rowLock,
                   confirmed, faults>>

\* the poller goes by the time at which it took the message up: to it, a token
\* that expires meanwhile has not; to the requests both are alike
Expire(t) ==
    /\ token[t].status = "open"
    /\ ~ (poller.pc # "idle" /\ Message.token = t)
    /\ token' = [token EXCEPT ![t].status = "expired"]
    /\ UNCHANGED <<connection, update, processed, poller, request, tokenLock, rowLock,
                   confirmed, faults>>

\* the worker records that the destination was rejected, whatever has become of it
Degrade(u) ==
    /\ connection[u].status \in {"connected", "disconnected"}
    /\ rowLock[u] = Nobody
    /\ connection' = [connection EXCEPT ![u].status = "degraded"]
    /\ UNCHANGED <<token, update, processed, poller, request, tokenLock, rowLock,
                   confirmed, faults>>

-----------------------------------------------------------------------------
(* The poller: one message at a time *)

Owner == token[Message.token].user
PollerGoes(step) == poller' = [poller EXCEPT !.pc = step]

Fetch(m) ==
    /\ poller.pc = "idle"
    /\ update[m].at = "telegram"
    /\ update' = [update EXCEPT ![m].at = "fetched"]
    /\ poller' = [pc |-> "record", update |-> m]
    /\ UNCHANGED <<token, connection, processed, request, tokenLock, rowLock,
                   confirmed, faults>>

\* the unique update_id refuses a message that was handled before
Record ==
    /\ poller.pc = "record"
    /\ IF poller.update \in processed THEN poller' = IdlePoller ELSE PollerGoes("token")
    /\ UNCHANGED <<token, connection, update, processed, request, tokenLock, rowLock,
                   confirmed, faults>>

\* Mutant: the token is read without FOR UPDATE
TokenRead(t) == tokenLock

TokenLocked(t) == [tokenLock EXCEPT ![t] = "poller"]

\* get_telegram_link_token_by_hash(for_update=True) and _token_outcome; any
\* outcome but a valid token is recorded and answered with a failure
LockToken ==
    LET t == Message.token IN
    /\ poller.pc = "token"
    /\ tokenLock[t] = Nobody
    /\ IF token[t].status = "open"
       THEN /\ tokenLock' = TokenLocked(t)
            /\ PollerGoes("user")
            /\ UNCHANGED processed
       ELSE /\ processed' = processed \union {poller.update}
            /\ poller' = IdlePoller
            /\ UNCHANGED tokenLock
    /\ UNCHANGED <<token, connection, update, request, rowLock, confirmed, faults>>

LockUser ==
    /\ poller.pc = "user"
    /\ LocksRow("poller", Owner)
    /\ PollerGoes("decide")
    /\ UNCHANGED <<token, connection, update, processed, request, tokenLock,
                   confirmed, faults>>

\* Mutant: only a connected destination counts as taken
OthersConnected ==
    {u \in Users \ {Owner} : connection[u] = [status |-> "connected", dest |-> Message.dest]}

Others == {u \in Users \ {Owner} : connection[u].dest = Message.dest}
\* a first link, the same destination again, or nothing at all
Links ==
    /\ Others = {}
    /\ \/ connection[Owner].status = "none"
       \/ /\ connection[Owner].status \in {"connected", "disconnected"}
          /\ connection[Owner].dest = Message.dest

\* the other owner's row is locked too; the token is consumed in either case, with
\* the update and the connection in one transaction
Decide ==
    /\ poller.pc = "decide"
    /\ \A u \in Others : rowLock[u] = Nobody
    /\ connection' = IF Links
                     THEN [connection EXCEPT ![Owner] = [status |-> "connected",
                                                        dest |-> Message.dest]]
                     ELSE connection
    /\ token' = [token EXCEPT ![Message.token].status = "consumed"]
    /\ processed' = processed \union {poller.update}
    /\ IF Links THEN PollerGoes("confirm") ELSE poller' = IdlePoller
    /\ EndTransaction("poller")
    /\ UNCHANGED <<update, request, confirmed, faults>>

\* one attempt, whatever its outcome
Confirm ==
    /\ poller.pc = "confirm"
    /\ confirmed' = [confirmed EXCEPT ![poller.update] = @ + 1]
    /\ poller' = IdlePoller
    /\ UNCHANGED <<token, connection, update, processed, request, tokenLock, rowLock,
                   faults>>

\* an error is logged and rolled back, and the message is not tried again
PollerFails ==
    /\ poller.pc \in {"record", "token", "user", "decide"}
    /\ poller' = IdlePoller
    /\ EndTransaction("poller")
    /\ UNCHANGED <<token, connection, update, processed, request, confirmed>>

\* the process dies and starts again; what was not acknowledged comes again
Crash ==
    /\ faults < MaxFaults
    /\ faults' = faults + 1
    /\ poller' = IdlePoller
    /\ EndTransaction("poller")
    /\ update' = [m \in Updates |-> IF update[m].at = "fetched"
                                    THEN [update[m] EXCEPT !.at = "telegram"] ELSE update[m]]
    /\ UNCHANGED <<token, connection, processed, request, confirmed>>

-----------------------------------------------------------------------------
(* The database *)

\* the poller waits for the connection, its holder for the token of the poller
Deadlock(q) ==
    /\ poller.pc = "user" /\ rowLock[Owner] = q
    /\ request[q].pc = "tokens"
    /\ request[q].user = Owner
    /\ tokenLock[Message.token] = "poller"

\* the deadlock detector fails one of the two
BreakDeadlock(q) ==
    /\ Deadlock(q)
    /\ RequestFails(q) \/ PollerFails
    /\ UNCHANGED faults

Fault ==
    /\ faults < MaxFaults
    /\ faults' = faults + 1
    /\ PollerFails \/ \E q \in Requests : RequestFails(q)

-----------------------------------------------------------------------------
\* the model runs out of tokens
OutOfTokens(q) ==
    /\ request[q].pc = "insert"
    /\ \A t \in Tokens : token[t].status # "none"
    /\ RequestFails(q)
    /\ UNCHANGED faults

RequestStep(q) ==
    LockConnection(q) \/ Disconnect(q) \/ Revoke(q) \/ InsertToken(q) \/ OutOfTokens(q)
PollerStep ==
    Record \/ LockToken \/ LockUser \/ Decide \/ Confirm \/ \E m \in Updates : Fetch(m)

Next ==
    \/ \E q \in Requests : Ask(q) \/ RequestStep(q) \/ BreakDeadlock(q)
    \/ \E m \in Updates : SendStart(m) \/ Acknowledge(m)
    \/ \E t \in Tokens : Expire(t)
    \/ \E u \in Users : Degrade(u)
    \/ PollerStep \/ Crash \/ Fault

Spec == Init /\ [][Next]_vars

-----------------------------------------------------------------------------
(* Properties *)

\* A message is confirmed at most once, and only after its link is recorded, with
\* crashes on either side of the commit and messages delivered again.
ConfirmedOnce ==
    \A m \in Updates : confirmed[m] <= 1 /\ (confirmed[m] = 1 => m \in processed)

\* A destination belongs to one account, connected or not.
OneOwner ==
    \A u, v \in Users :
        connection[u].dest = connection[v].dest => u = v \/ connection[u].dest = Nobody

\* A connection comes to life only by consuming, in the same step, a token of its
\* user that is still open: not one that had expired when the message was taken up,
\* was replaced, or was revoked by a disconnect that has been answered. The outcome
\* of a token is final.
LinkedByOpenToken ==
    [][/\ \A u \in Users :
            connection'[u].status = "connected" /\ connection[u].status # "connected" =>
              \E t \in Tokens : /\ token[t] = [status |-> "open", user |-> u]
                                /\ token'[t].status = "consumed"
       /\ \A t \in Tokens :
            token[t].status \in {"consumed", "revoked"} => token'[t] = token[t]]_vars

\* Although the poller and the requests lock in opposite orders, they wait for each
\* other in one way only, which the database sees and breaks: no other set of them,
\* however the messages and requests of two users overlap, blocks itself.
Blockers(x) ==
    (IF x = "poller"
     THEN CASE poller.pc = "token" -> {tokenLock[Message.token]}
            [] poller.pc = "user" -> {rowLock[Owner]}
            [] poller.pc = "decide" -> {rowLock[u] : u \in Others}
            [] OTHER -> {}
     ELSE CASE request[x].pc = "connection" -> {rowLock[request[x].user]}
            [] request[x].pc = "tokens" -> {tokenLock[t] : t \in OpenTokens(request[x].user)}
            [] OTHER -> {}) \ {x}
OneDeadlockOnly ==
    \A xs \in SUBSET (Requests \union {"poller"}) :
        xs # {} /\ (\A x \in xs : Blockers(x) \cap xs # {}) => \E q \in xs : Deadlock(q)

\* What always holds of links and their messages, taken together.
LinkingIsSound == TypeOK /\ ConfirmedOnce /\ OneOwner /\ OneDeadlockOnly

=============================================================================
