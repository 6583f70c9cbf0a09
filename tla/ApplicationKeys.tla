-------------------------- MODULE ApplicationKeys --------------------------
(***************************************************************************)
(* internal/clients/backblaze.go, the B2 native API: one BackblazeClient   *)
(* with its cached authorization, called by one goroutine at a time, and   *)
(* the key service, where others create and delete keys meanwhile.         *)
(*                                                                         *)
(* A request and its answer are one step, at the moment the service acts.  *)
(* Marshalling and building a request cannot fail for these types.  Time   *)
(* passes between calls: a request takes 30 s at most (HTTPClient.Timeout),*)
(* a unit of time here is hours.                                           *)
(***************************************************************************)
EXTENDS Naturals, FiniteSets

CONSTANTS
    Keys,           \* the key IDs, in the order in which the service lists them
    PageSize,       \* MaxKeyCount of a list request (100)
    RefreshAfter,   \* age at which a token is not used any more (12h)
    TokenLifetime   \* age at which the service refuses a token (24h)

ASSUME KeysAreNumbered == Keys \subseteq Nat \ {0}
ASSUME PagesAreNotEmpty == PageSize \in Nat \ {0}
ASSUME TokensAreRefreshedEarly ==
    RefreshAfter \in Nat \ {0} /\ TokenLifetime \in Nat /\ RefreshAfter <= TokenLifetime

VARIABLES
    keys,       \* keys that exist at the service
    used,       \* keys that were ever made: an ID is not given twice
    tokenAge,   \* of AuthToken; NoToken while it is empty
    revoked,    \* the service does not accept that token any more
    call        \* the call in progress or, when pc is "idle", the last one

vars == <<keys, used, tokenAge, revoked, call>>

\* An age no token has: one that expired stays at TokenLifetime.
NoToken == TokenLifetime + 1

Operations == {"create", "delete", "get"}
Answers == {"pending", "ok", "error", "found", "notFound"}

\* start is req.StartApplicationKeyID, 0 for ""; open counts the bodies of the
\* pages read so far, which are closed when the method returns.
NoCall == [pc |-> "idle", op |-> "none", key |-> 0, start |-> 0, open |-> 0,
           answer |-> "error"]

Init ==
    /\ keys \in SUBSET Keys
    /\ used = keys
    /\ tokenAge = NoToken
    /\ revoked = FALSE
    /\ call = NoCall

-----------------------------------------------------------------------------
(* The service and its other clients.                                      *)

Make(k) == k \notin used /\ keys' = keys \cup {k} /\ used' = used \cup {k}

Remove(k) == k \in keys /\ keys' = keys \ {k} /\ UNCHANGED used

Others ==
    /\ \E k \in Keys : Make(k) \/ Remove(k)
    /\ UNCHANGED <<tokenAge, revoked, call>>

\* The service stops accepting the token before its time.
Revoke ==
    /\ tokenAge # NoToken
    /\ revoked' = TRUE
    /\ UNCHANGED <<keys, used, tokenAge, call>>

HourPasses ==
    /\ call.pc = "idle"
    /\ tokenAge < TokenLifetime
    /\ tokenAge' = tokenAge + 1
    /\ UNCHANGED <<keys, used, revoked, call>>

\* A page of the list: at most PageSize keys, the smallest from start on.
Page(start) ==
    {k \in keys : start <= k /\ Cardinality({j \in keys : start <= j /\ j < k}) < PageSize}

\* The keys that are left for the pages after it.
Rest(start) == {k \in keys : start <= k} \ Page(start)

-----------------------------------------------------------------------------
(* The client.                                                             *)

Return(answer) ==
    call' = [call EXCEPT !.pc = "idle", !.open = 0, !.answer = answer]

Ask(op, k) ==
    /\ call.pc = "idle"
    /\ call' = [NoCall EXCEPT !.pc = "authorize", !.op = op, !.key = k,
                              !.answer = "pending"]
    /\ UNCHANGED <<keys, used, tokenAge, revoked>>

\* Mutant: any token will do.
TokenIsThere == tokenAge # NoToken

\* AuthToken # "" and time.Now().Before(tokenExpiration)
TokenIsFresh == tokenAge < RefreshAfter

\* authorizeAccount: use the token there is, or get a new one, or fail.
Authorize ==
    /\ call.pc = "authorize"
    /\ \/ /\ TokenIsFresh
          /\ call' = [call EXCEPT !.pc = "request"]
          /\ UNCHANGED <<tokenAge, revoked>>
       \/ /\ ~TokenIsFresh
          /\ call' = [call EXCEPT !.pc = "request"]
          /\ tokenAge' = 0
          /\ revoked' = FALSE
       \/ /\ ~TokenIsFresh
          /\ Return("error")
          /\ UNCHANGED <<tokenAge, revoked>>
    /\ UNCHANGED <<keys, used>>

\* Mutant: the caller is told nothing.
FailsSilently ==
    /\ call.pc = "request"
    /\ call' = [call EXCEPT !.pc = "idle", !.open = 0]
    /\ UNCHANGED <<keys, used, tokenAge, revoked>>

\* The request never got there, or was refused; the token is kept.
RequestFails ==
    /\ call.pc = "request"
    /\ Return("error")
    /\ UNCHANGED <<keys, used, tokenAge, revoked>>

\* The service acts: the token is one that it accepts.
Served(op) == call.pc = "request" /\ call.op = op /\ ~revoked

\* The service made a key; the answer may be lost, or not be readable.
CreateApplicationKey ==
    /\ Served("create")
    /\ \E k \in Keys : Make(k)
    /\ Return("ok") \/ Return("error")
    /\ UNCHANGED <<tokenAge, revoked>>

DeleteApplicationKey ==
    /\ Served("delete")
    /\ Remove(call.key)
    /\ Return("ok") \/ Return("error")
    /\ UNCHANGED <<tokenAge, revoked>>

\* NextApplicationKeyID is the first key of the rest.
NextKey(rest) == CHOOSE k \in rest : \A j \in rest : k <= j

\* Mutants: the next page begins behind the key that is named, or the start
\* is not moved (and the bodies are closed, or not).
StartBehind(rest) ==
    call' = [call EXCEPT !.start = NextKey(rest) + 1, !.open = @ + 1]
StartAgain(rest) == UNCHANGED call
SamePageAgain(rest) == call' = [call EXCEPT !.open = @ + 1]

\* The body of the page just read stays open.
ListNext(rest) == call' = [call EXCEPT !.start = NextKey(rest), !.open = @ + 1]

\* One turn of the loop of GetApplicationKey.
GetApplicationKey ==
    /\ Served("get")
    /\ IF call.key \in Page(call.start) THEN Return("found")
       ELSE IF Rest(call.start) = {} THEN Return("notFound")
       ELSE ListNext(Rest(call.start))
    /\ UNCHANGED <<keys, used, tokenAge, revoked>>

Client ==
    \/ Authorize \/ RequestFails
    \/ CreateApplicationKey \/ DeleteApplicationKey \/ GetApplicationKey

Next ==
    \/ Others \/ Revoke \/ HourPasses
    \/ \E op \in Operations, k \in Keys : Ask(op, k)
    \/ Client

Spec == Init /\ [][Next]_vars

\* A method does not stop before it returns.  That a lookup ends because a
\* request fails is not something to count on, unless the token is refused.
Fairness ==
    /\ WF_vars(Authorize)
    /\ WF_vars(CreateApplicationKey \/ DeleteApplicationKey
               \/ (RequestFails /\ (call.op # "get" \/ revoked)))
    /\ WF_vars(GetApplicationKey)

FairSpec == Spec /\ Fairness

-----------------------------------------------------------------------------
\* Types, and: a call that returned has an answer, one in progress has none.
TypeOK ==
    /\ keys \subseteq used /\ used \subseteq Keys
    /\ tokenAge \in 0 .. NoToken
    /\ revoked \in BOOLEAN
    /\ call \in [pc : {"idle", "authorize", "request"}, op : Operations \cup {"none"},
                 key : Keys \cup {0}, start : Keys \cup {0}, open : Nat,
                 answer : Answers]
    /\ call.pc = "idle" <=> call.answer # "pending"

\* No request is ever sent with an empty Authorization header or with a token
\* that has expired, however long the client was idle and whatever failed.
TokensAreValid == call.pc = "request" => tokenAge < TokenLifetime

\* However keys come and go, the pages of one lookup are full and do not
\* overlap: it never holds more connections than there can be pages before
\* the one it is going to ask for.
ConnectionsAreBounded ==
    call.open * PageSize <= Cardinality({k \in Keys : k < call.start})

\* When the pages read so far have gone past the key, its absence is settled.
AnswerSoFar ==
    IF call.pc = "request" /\ call.op = "get" /\ call.start > call.key
    THEN "notFound"
    ELSE call.answer

Directory ==
    INSTANCE KeyDirectory WITH
        asked <- IF call.op = "none" THEN [op |-> "none"]
                 ELSE [op |-> call.op, key |-> call.key],
        answer <- AnswerSoFar

\* Every method takes effect at one moment: GetApplicationKey, though it reads
\* the list page by page while keys come and go, never misses a key that was
\* there all the time and never reports one that was not there at all.
CallsAreAtomic == Directory!Spec

\* Every call returns, though others may add pages to the list meanwhile.
CallsReturn == (call.pc # "idle") ~> (call.pc = "idle")

\* No call ends an early revocation, since a refused token is kept; its age
\* does: a client that goes on being used asks for another token.
StaysInUse ==
    /\ SF_vars(HourPasses)
    /\ SF_vars(\E op \in Operations, k \in Keys : Ask(op, k))

AsksForAnother == call.pc = "authorize" /\ ~TokenIsFresh

OutagesEnd == StaysInUse => (revoked ~> AsksForAnother \/ ~revoked)
=============================================================================
