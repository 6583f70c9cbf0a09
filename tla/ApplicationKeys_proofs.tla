----------------------- MODULE ApplicationKeys_proofs -----------------------
(***************************************************************************)
(* The safety properties of ApplicationKeys, for any set of key IDs, pages *)
(* of any size and any lifetime of tokens, and that it implements          *)
(* KeyDirectory: a lookup, although it reads page after page, takes effect *)
(* at one moment.                                                          *)
(*                                                                         *)
(* ConnectionsAreBounded needs that every page but the last is full, the   *)
(* refinement that no key lies between a page and the next one.            *)
(***************************************************************************)
EXTENDS ApplicationKeys, KeyOrder

\* The types, and: a lookup begins at the start of the list.
IInv ==
    /\ TypeOK
    /\ TokensAreValid
    /\ ConnectionsAreBounded
    /\ call.pc # "idle" => call.op \in Operations /\ call.key \in Keys
    /\ call.pc = "authorize" => call.start = 0

Calls == [pc : {"idle", "authorize", "request"}, op : Operations \cup {"none"},
          key : Keys \cup {0}, start : Keys \cup {0}, open : Nat, answer : Answers]

\* TypeOK part by part, with the record of the call as a set.
LEMMA TypeParts ==
    TypeOK <=> /\ keys \subseteq used /\ used \subseteq Keys
               /\ tokenAge \in 0 .. NoToken
               /\ revoked \in BOOLEAN
               /\ call \in Calls
               /\ call.pc = "idle" <=> call.answer # "pending"
BY DEF TypeOK, Calls

-----------------------------------------------------------------------------
(* The list and its pages.                                                 *)

\* What is listed from a key on.
From(start) == {k \in keys : start <= k}

\* The keys from start on: what is on the page and what is left for the next.
LEMMA ListedKeys ==
    ASSUME TypeOK, NEW start \in Nat
    PROVE  /\ From(start) \in SUBSET Nat
           /\ From(start) \in SUBSET Keys
           /\ Rest(start) \in SUBSET From(start)
           /\ From(start) \subseteq Page(start) \cup Rest(start)
           /\ \A k \in Page(start) : k \in From(start)
           /\ Page(start) = {k \in From(start) : Cardinality(Before(From(start), k)) < PageSize}
<1>1. keys \subseteq Nat /\ keys \subseteq Keys
  BY KeysAreNumbered DEF TypeOK
<1>2. \A k : {j \in keys : start <= j /\ j < k} = Before(From(start), k)
  BY DEF From, Before
<1>3. Page(start) = {k \in From(start) : Cardinality(Before(From(start), k)) < PageSize}
  BY <1>2, Zenon DEF Page, From
<1> QED
  BY <1>1, <1>3 DEF From, Rest

\* NextApplicationKeyID is the first key of the rest: no key lies between.
LEMMA NextKeyIsFirst ==
    ASSUME TypeOK, NEW start \in Nat, Rest(start) # {}
    PROVE  /\ NextKey(Rest(start)) \in Rest(start)
           /\ NextKey(Rest(start)) \in Keys
           /\ NextKey(Rest(start)) \in Nat
           /\ start <= NextKey(Rest(start))
           /\ \A j \in Rest(start) : NextKey(Rest(start)) <= j
<1>1. Rest(start) \in SUBSET Nat /\ Rest(start) \in SUBSET From(start)
  BY ListedKeys
<1>2. \E k \in Rest(start) : \A j \in Rest(start) : k <= j
  BY <1>1, FirstKey
<1>3. /\ NextKey(Rest(start)) \in Rest(start)
      /\ \A j \in Rest(start) : NextKey(Rest(start)) <= j
  BY <1>2 DEF NextKey
<1> QED
  BY <1>1, <1>3, ListedKeys DEF From

\* A page that is not the last has PageSize keys, all before the next start.
LEMMA PagesAreFull ==
    ASSUME TypeOK, NEW start \in Nat, NEW next \in Rest(start)
    PROVE  PageSize <= Cardinality(Before(From(start), next))
<1>1. next \in From(start) /\ next \notin Page(start) /\ next \in Nat
  BY ListedKeys DEF Rest
<1>2. Cardinality(Before(From(start), next)) \in Nat
  BY <1>1, ListedKeys, FinitelyManyBefore
<1>3. ~(Cardinality(Before(From(start), next)) < PageSize)
  BY <1>1, ListedKeys
<1> QED
  BY <1>2, <1>3, PagesAreNotEmpty

\* One page more, and at least PageSize keys more behind the lookup.
LEMMA NextPageIsBounded ==
    ASSUME TypeOK, ConnectionsAreBounded, NEW next \in Rest(call.start)
    PROVE  (call.open + 1) * PageSize <= Cardinality({k \in Keys : k < next})
<1> DEFINE start == call.start
           behind == Cardinality(Before(Keys, start))
           page == Cardinality(Before(From(start), next))
           ahead == Cardinality(Before(Keys, next))
<1>1. start \in Nat /\ call.open \in Nat /\ Keys \in SUBSET Nat
  <2>1. Keys \in SUBSET Nat /\ \A k \in Keys \cup {0} : k \in Nat
    BY KeysAreNumbered
  <2>2. start \in Keys \cup {0} /\ call.open \in Nat
    BY TypeParts DEF Calls
  <2> QED
    BY <2>1, <2>2, Zenon
<1>2. next \in Nat /\ start <= next
  BY <1>1, ListedKeys, KeysAreNumbered DEF From
<1>3. call.open * PageSize <= behind
  BY DEF ConnectionsAreBounded, Before
<1>4. PageSize <= page
  BY <1>1, PagesAreFull
<1>5. behind + page <= ahead
  <2>1. From(start) \in SUBSET Keys /\ \A j \in From(start) : start <= j
    BY <1>1, ListedKeys DEF From
  <2> QED
    BY <1>1, <1>2, <2>1, BeforeInTwoParts
<1>6. behind \in Nat /\ page \in Nat /\ ahead \in Nat
  BY <1>1, <1>2, ListedKeys, FinitelyManyBefore
<1>7. ahead = Cardinality({k \in Keys : k < next})
  BY DEF Before
<1> HIDE DEF start, behind, page, ahead
<1>8. (call.open + 1) * PageSize = call.open * PageSize + PageSize
  BY <1>1, PagesAreNotEmpty
<1>9. call.open * PageSize \in Nat
  BY <1>1, PagesAreNotEmpty
<1> QED
  BY <1>3, <1>4, <1>5, <1>6, <1>7, <1>8, <1>9, PagesAreNotEmpty

-----------------------------------------------------------------------------
(* The invariant.                                                          *)

\* A return ends the call with its answer and closes what it held open.
LEMMA ReturnsAnswer ==
    ASSUME TypeOK, NEW answer \in Answers \ {"pending"}, Return(answer)
    PROVE  /\ call' \in Calls
           /\ call'.pc = "idle" /\ call'.answer = answer /\ call'.open = 0
           /\ call'.op = call.op /\ call'.key = call.key
BY TypeParts DEF Return, Calls

\* A method that returns keeps the invariant, whatever it did to the keys.
LEMMA ReturnsKeepInv ==
    ASSUME IInv, NEW answer \in Answers \ {"pending"}, Return(answer),
           keys' \subseteq used', used' \subseteq Keys,
           UNCHANGED <<tokenAge, revoked>>
    PROVE  IInv'
<1>1. TypeOK'
  BY ReturnsAnswer, TypeParts DEF IInv, TypeOK, Calls
<1>2. ConnectionsAreBounded'
  <2>1. call'.open = 0 /\ call'.start \in Nat /\ Keys \in SUBSET Nat
    BY <1>1, ReturnsAnswer, KeysAreNumbered DEF IInv, TypeOK
  <2>2. Cardinality(Before(Keys, call'.start)) \in Nat
    BY <2>1, FinitelyManyBefore
  <2> QED
    BY <2>1, <2>2, PagesAreNotEmpty DEF ConnectionsAreBounded, Before
<1> QED
  BY <1>1, <1>2, ReturnsAnswer DEF IInv, TokensAreValid

\* Steps that leave the call alone, when no request is about to be sent.
LEMMA CallUnchangedKeepsInv ==
    ASSUME IInv, UNCHANGED call, TypeOK', call.pc = "request" => tokenAge' = tokenAge
    PROVE  IInv'
BY DEF IInv, TokensAreValid, ConnectionsAreBounded

\* The initial states.
LEMMA Initially == Init => IInv
<1> SUFFICES ASSUME Init PROVE IInv
  OBVIOUS
<1>1. Cardinality(Before(Keys, 0)) \in Nat /\ PageSize \in Nat
  <2>1. Keys \in SUBSET Nat
    BY KeysAreNumbered
  <2> QED
    BY <2>1, FinitelyManyBefore, PagesAreNotEmpty
<1>2. 0 * PageSize <= Cardinality(Before(Keys, 0))
  BY <1>1
<1>3. NoCall \in Calls /\ NoToken \in 0 .. NoToken
  BY TokensAreRefreshedEarly DEF NoCall, NoToken, Calls, Answers
<1>4. TypeOK
  BY <1>3, TypeParts DEF Init, NoCall
<1> QED
  BY <1>2, <1>4 DEF Init, IInv, TokensAreValid, ConnectionsAreBounded, NoCall, Before

\* One method call begins, and holds no connection yet.
LEMMA AskKeepsInv ==
    ASSUME IInv, NEW op \in Operations, NEW k \in Keys, Ask(op, k)
    PROVE  IInv'
<1>1. call' = [pc |-> "authorize", op |-> op, key |-> k, start |-> 0, open |-> 0,
               answer |-> "pending"]
  BY DEF Ask, NoCall
<1>2. TypeOK'
  BY <1>1 DEF IInv, TypeOK, Ask, Answers
<1>3. 0 * PageSize <= Cardinality(Before(Keys, 0))
  <2>1. Keys \in SUBSET Nat
    BY KeysAreNumbered
  <2> QED
    BY <2>1, FinitelyManyBefore, PagesAreNotEmpty
<1> QED
  BY <1>1, <1>2, <1>3 DEF IInv, TokensAreValid, ConnectionsAreBounded, Before

\* authorizeAccount lets a request go with a fresh token only, or the call
\* returns an error.
LEMMA AuthorizeKeepsInv ==
    ASSUME IInv, Authorize
    PROVE  IInv'
<1>1. UNCHANGED <<keys, used>> /\ keys \subseteq used /\ used \subseteq Keys
  BY DEF Authorize, IInv, TypeOK
<1>2. CASE /\ call' = [call EXCEPT !.pc = "request"]
           /\ \/ TokenIsFresh /\ UNCHANGED <<tokenAge, revoked>>
              \/ tokenAge' = 0 /\ revoked' = FALSE
  <2>1. call' \in Calls /\ call'.pc = "request" /\ call'.answer = call.answer
    BY <1>2, TypeParts DEF IInv, Calls
  <2>2. UNCHANGED <<call.op, call.key, call.start, call.open>>
    BY <1>2, TypeParts DEF IInv, Calls
  <2>3. tokenAge' \in Nat /\ tokenAge' < TokenLifetime /\ tokenAge' \in 0 .. NoToken
    BY <1>2, TokensAreRefreshedEarly DEF IInv, TypeOK, TokenIsFresh, NoToken
  <2>4. TypeOK'
    BY <1>1, <1>2, <2>1, <2>3, TypeParts DEF IInv, Authorize, TypeOK, Calls
  <2> QED
    BY <2>1, <2>2, <2>3, <2>4 DEF IInv, TokensAreValid, ConnectionsAreBounded, Authorize
<1>3. CASE Return("error") /\ UNCHANGED <<tokenAge, revoked>>
  BY <1>1, <1>3, ReturnsKeepInv DEF Answers
<1> QED
  BY <1>2, <1>3 DEF Authorize

\* The next page: the page just read was full, so one more body that stays
\* open is paid for by the keys the list has moved past.
LEMMA ListNextKeepsInv ==
    ASSUME IInv, call.pc = "request", Rest(call.start) # {},
           ListNext(Rest(call.start)), UNCHANGED <<keys, used, tokenAge, revoked>>
    PROVE  IInv'
<1> DEFINE next == NextKey(Rest(call.start))
<1>1. /\ call \in Calls /\ TypeOK /\ call.start \in Nat
      /\ call' = [call EXCEPT !.start = next, !.open = @ + 1]
  BY TypeParts, KeysAreNumbered DEF IInv, ListNext, Calls
<1>2. next \in Rest(call.start) /\ next \in Keys
  BY <1>1, NextKeyIsFirst
<1> HIDE DEF next
<1>3. /\ call'.start = next /\ call'.open = call.open + 1
      /\ call'.pc = "request" /\ call'.op = call.op /\ call'.key = call.key
      /\ call'.answer = call.answer
  BY <1>1 DEF Calls
<1>4. call' \in Calls
  <2>1. [call EXCEPT !.start = next] \in Calls
    BY <1>1, <1>2 DEF Calls
  <2>2. call' = [[call EXCEPT !.start = next] EXCEPT !.open = call.open + 1]
    BY <1>1
  <2>3. call.open + 1 \in Nat
    BY <1>1 DEF Calls
  <2> QED
    BY <2>1, <2>2, <2>3 DEF Calls
<1>5. (call.open + 1) * PageSize <= Cardinality({k \in Keys : k < next})
  BY <1>2, NextPageIsBounded DEF IInv
<1>6. TypeOK'
  BY <1>3, <1>4, TypeParts DEF IInv, TypeOK, Calls
<1> QED
  BY <1>3, <1>5, <1>6 DEF IInv, TokensAreValid, ConnectionsAreBounded

\* Every step keeps the invariant.
LEMMA StepsKeepInv ==
    ASSUME IInv, [Next]_vars
    PROVE  IInv'
<1>1. CASE UNCHANGED vars
  BY <1>1, CallUnchangedKeepsInv DEF vars, IInv, TypeOK
<1>2. CASE Others
  BY <1>2, CallUnchangedKeepsInv DEF Others, Make, Remove, IInv, TypeOK
<1>3. CASE Revoke
  BY <1>3, CallUnchangedKeepsInv DEF Revoke, IInv, TypeOK
<1>4. CASE HourPasses
  <2>1. tokenAge' \in 0 .. NoToken
    BY <1>4, TokensAreRefreshedEarly DEF HourPasses, IInv, TypeOK, NoToken
  <2> QED
    BY <1>4, <2>1, CallUnchangedKeepsInv DEF HourPasses, IInv, TypeOK
<1>5. ASSUME NEW op \in Operations, NEW k \in Keys, Ask(op, k) PROVE IInv'
  BY <1>5, AskKeepsInv
<1>6. CASE Authorize
  BY <1>6, AuthorizeKeepsInv
<1>7. CASE RequestFails
  BY <1>7, ReturnsKeepInv DEF RequestFails, Answers, IInv, TypeOK
<1>8. CASE CreateApplicationKey \/ DeleteApplicationKey
  <2>1. keys' \subseteq used' /\ used' \subseteq Keys
    BY <1>8 DEF CreateApplicationKey, DeleteApplicationKey, Make, Remove, IInv, TypeOK
  <2>2. /\ \E answer \in Answers \ {"pending"} : Return(answer)
        /\ UNCHANGED <<tokenAge, revoked>>
    BY <1>8 DEF CreateApplicationKey, DeleteApplicationKey, Answers
  <2> QED
    BY <2>1, <2>2, ReturnsKeepInv
<1>9. CASE GetApplicationKey
  <2>1. /\ UNCHANGED <<keys, used, tokenAge, revoked>> /\ call.pc = "request"
        /\ keys \subseteq used /\ used \subseteq Keys
    BY <1>9 DEF GetApplicationKey, Served, IInv, TypeOK
  <2>2. CASE \E answer \in Answers \ {"pending"} : Return(answer)
    BY <2>1, <2>2, ReturnsKeepInv
  <2>3. CASE Rest(call.start) # {} /\ ListNext(Rest(call.start))
    BY <2>1, <2>3, ListNextKeepsInv
  <2> QED
    BY <1>9, <2>2, <2>3 DEF GetApplicationKey, Answers
<1> QED
  BY <1>1, <1>2, <1>3, <1>4, <1>5, <1>6, <1>7, <1>8, <1>9 DEF Next, Client

\* The invariant holds in every state.
LEMMA Invariance == Spec => []IInv
<1>1. IInv /\ [Next]_vars => IInv'
  BY StepsKeepInv
<1> QED
  BY <1>1, Initially, PTL DEF Spec

\* Types, and: a call in progress has no answer yet, one that returned has
\* one, and no key ID is live that was never issued.
THEOREM CallTypes == Spec => []TypeOK
<1>1. IInv => TypeOK
  BY DEF IInv
<1> QED
  BY <1>1, Invariance, PTL

\* However long the client was idle, whatever failed before and whenever a
\* token was revoked, no request carries an empty or an expired token.
THEOREM TokensValid == Spec => []TokensAreValid
<1>1. IInv => TokensAreValid
  BY DEF IInv
<1> QED
  BY <1>1, Invariance, PTL

\* A lookup never holds more connections than pages fit before its start:
\* keys that come and go meanwhile do not make it read a page twice.
THEOREM ConnectionsBounded == Spec => []ConnectionsAreBounded
<1>1. IInv => ConnectionsAreBounded
  BY DEF IInv
<1> QED
  BY <1>1, Invariance, PTL

-----------------------------------------------------------------------------
(* ApplicationKeys implements KeyDirectory.                                *)

\* What the caller asked, in the terms of KeyDirectory.
Asked == IF call.op = "none" THEN [op |-> "none"]
         ELSE [op |-> call.op, key |-> call.key]

\* The pages read so far have gone past the key.
Settled == call.pc = "request" /\ call.op = "get" /\ call.start > call.key

\* The initial states are those of the directory.
LEMMA DirectoryStarts == Init => Directory!Init
BY DEF Init, NoCall, Directory!Init, AnswerSoFar

\* The call ends without a success: its answer is an error, and no key is
\* made or removed by this step.
LEMMA FailuresInDirectory ==
    ASSUME IInv, Return("error"), UNCHANGED <<keys, used>>
    PROVE  Directory!Next
<1>1. /\ call'.pc = "idle" /\ call'.answer = "error"
      /\ call'.op = call.op /\ call'.key = call.key
  BY ReturnsAnswer DEF IInv, Answers
<1>2. AnswerSoFar' = "error" /\ Asked' = Asked
  BY <1>1 DEF AnswerSoFar, Asked
<1> QED
  BY <1>2 DEF Directory!Next, Directory!Fail, Asked

\* The call takes effect and ends in the same step.
LEMMA EffectsInDirectory ==
    ASSUME IInv, call.pc = "request", ~Settled,
           NEW answer \in Answers \ {"pending"}, Return(answer),
           \/ /\ call.op = "create" /\ answer \in {"ok", "error"}
              /\ \E k \in Keys : Make(k)
           \/ call.op = "delete" /\ answer \in {"ok", "error"} /\ Remove(call.key)
           \/ /\ call.op = "get" /\ UNCHANGED <<keys, used>>
              /\ answer = IF call.key \in keys THEN "found" ELSE "notFound"
    PROVE  Directory!Next
<1>1. /\ call'.pc = "idle" /\ call'.answer = answer
      /\ call'.op = call.op /\ call'.key = call.key
  BY ReturnsAnswer DEF IInv
<1>2. /\ AnswerSoFar' = answer /\ Asked' = Asked
      /\ Asked.op = call.op /\ Asked.key = call.key
  BY <1>1 DEF AnswerSoFar, Asked
<1>3. AnswerSoFar = "pending"
  BY DEF Settled, AnswerSoFar, IInv, TypeOK
<1>4. CASE call.op = "create"
  BY <1>2, <1>3, <1>4 DEF Directory!Next, Directory!TakeEffect, Directory!Create,
     Directory!Make, Make, Asked
<1>5. CASE call.op = "delete"
  BY <1>2, <1>3, <1>5 DEF Directory!Next, Directory!TakeEffect, Directory!Delete,
     Directory!Remove, Remove, Asked
<1>6. CASE call.op = "get"
  BY <1>2, <1>3, <1>6 DEF Directory!Next, Directory!TakeEffect, Directory!Find, Asked
<1> QED
  BY <1>4, <1>5, <1>6

\* A step of the call that the directory does not see.
LEMMA HiddenInDirectory ==
    ASSUME UNCHANGED <<keys, used>>, Asked' = Asked, AnswerSoFar' = AnswerSoFar
    PROVE  UNCHANGED Directory!vars
BY DEF Directory!vars, Asked

\* One page of a lookup.  Either the answer was settled by an earlier page, or
\* this page settles it, or the key may still be on a later page.
LEMMA LookupsInDirectory ==
    ASSUME IInv, GetApplicationKey
    PROVE  Directory!Next \/ UNCHANGED Directory!vars
<1> DEFINE start == call.start
           next == NextKey(Rest(start))
<1>1. /\ call.pc = "request" /\ call.op = "get" /\ call.answer = "pending"
      /\ UNCHANGED <<keys, used>>
      /\ call.key \in Nat /\ start \in Nat /\ call \in Calls
      /\ TypeOK
  <2>1. TypeOK /\ call \in Calls
    BY TypeParts DEF IInv
  <2>2. call.pc = "request" /\ call.op = "get" /\ UNCHANGED <<keys, used>>
    BY DEF GetApplicationKey, Served
  <2>3. call.answer = "pending" /\ call.key \in Keys /\ start \in Keys \cup {0}
    BY <2>1, <2>2 DEF IInv, TypeOK, Calls
  <2>4. \A k \in Keys \cup {0} : k \in Nat
    BY KeysAreNumbered
  <2>5. call.key \in Nat /\ start \in Nat
    BY <2>3, <2>4, Zenon
  <2> QED
    BY <2>1, <2>2, <2>3, <2>5
<1>2. call.key \in keys /\ start <= call.key => call.key \in Page(start) \cup Rest(start)
  BY <1>1, ListedKeys DEF From
<1>3. CASE call.key \in Page(start)
  <2>1. Return("found")
    BY <1>3 DEF GetApplicationKey
  <2>2. call.key \in keys /\ start <= call.key
    BY <1>1, <1>3, ListedKeys DEF From
  <2>3. ~Settled
    BY <1>1, <2>2 DEF Settled
  <2> QED
    BY <1>1, <2>1, <2>2, <2>3, EffectsInDirectory DEF Answers
<1>4. CASE call.key \notin Page(start) /\ Rest(start) = {}
  <2>1. Return("notFound")
    BY <1>4 DEF GetApplicationKey
  <2>2. CASE Settled
    <3>1. /\ call'.pc = "idle" /\ call'.answer = "notFound"
          /\ call'.op = call.op /\ call'.key = call.key
      BY <1>1, <2>1, ReturnsAnswer DEF Answers
    <3>2. AnswerSoFar' = AnswerSoFar /\ Asked' = Asked
      BY <2>2, <3>1 DEF AnswerSoFar, Settled, Asked
    <3> QED
      BY <1>1, <3>2, HiddenInDirectory
  <2>3. CASE ~Settled
    <3>1. call.key \notin keys
      BY <1>1, <1>2, <1>4, <2>3 DEF Settled
    <3> QED
      BY <1>1, <2>1, <2>3, <3>1, EffectsInDirectory DEF Answers
  <2> QED
    BY <2>2, <2>3
<1>5. CASE call.key \notin Page(start) /\ Rest(start) # {}
  <2>1. /\ next \in Nat /\ start <= next
        /\ \A j \in Rest(start) : next <= j
    BY <1>1, <1>5, NextKeyIsFirst
  <2>2. call' = [call EXCEPT !.start = next, !.open = @ + 1]
    BY <1>5 DEF GetApplicationKey, ListNext
  <2> HIDE DEF next
  <2>3. /\ call'.pc = "request" /\ call'.op = "get" /\ call'.answer = "pending"
        /\ call'.key = call.key /\ call'.start = next
    BY <1>1, <2>2 DEF Calls
  <2>4. Asked' = Asked
    BY <1>1, <2>3 DEF Asked
  <2>5. CASE next > call.key /\ ~Settled
    <3>1. call.key \notin keys
      BY <1>1, <1>2, <1>5, <2>1, <2>5 DEF Settled
    <3>2. /\ AnswerSoFar = "pending" /\ AnswerSoFar' = "notFound"
          /\ Asked.op = "get" /\ Asked.key = call.key
      BY <1>1, <2>3, <2>5 DEF AnswerSoFar, Settled, Asked
    <3> QED
      BY <1>1, <2>4, <3>1, <3>2
         DEF Directory!Next, Directory!TakeEffect, Directory!Find, Asked
  <2>6. CASE ~(next > call.key) \/ Settled
    <3>1. AnswerSoFar' = AnswerSoFar
      BY <1>1, <2>1, <2>3, <2>6 DEF AnswerSoFar, Settled
    <3> QED
      BY <1>1, <2>4, <3>1, HiddenInDirectory
  <2> QED
    BY <2>5, <2>6
<1> QED
  BY <1>3, <1>4, <1>5

\* Every step is one of the directory or hidden from it: a lookup takes effect
\* when it reads the page on which it ends.
LEMMA StepsInDirectory ==
    ASSUME IInv, [Next]_vars
    PROVE  [Directory!Next]_Directory!vars
<1>1. CASE UNCHANGED vars
  <2>1. Asked' = Asked /\ AnswerSoFar' = AnswerSoFar
    BY <1>1 DEF vars, Asked, AnswerSoFar
  <2> QED
    BY <1>1, <2>1, HiddenInDirectory DEF vars
<1>2. CASE Others
  <2>1. Asked' = Asked /\ AnswerSoFar' = AnswerSoFar
    BY <1>2 DEF Others, Asked, AnswerSoFar
  <2> QED
    BY <1>2, <2>1 DEF Others, Make, Remove, Asked, Directory!Next,
       Directory!Others, Directory!Make, Directory!Remove
<1>3. CASE Revoke \/ HourPasses
  <2>1. UNCHANGED <<keys, used, call>>
    BY <1>3 DEF Revoke, HourPasses
  <2>2. Asked' = Asked /\ AnswerSoFar' = AnswerSoFar
    BY <2>1 DEF Asked, AnswerSoFar
  <2> QED
    BY <2>1, <2>2, HiddenInDirectory
<1>4. ASSUME NEW op \in Operations, NEW k \in Keys, Ask(op, k)
      PROVE  Directory!Next
  <2>1. call' = [pc |-> "authorize", op |-> op, key |-> k, start |-> 0,
                 open |-> 0, answer |-> "pending"]
    BY <1>4 DEF Ask, NoCall
  <2>2. Asked' = [op |-> op, key |-> k] /\ AnswerSoFar' = "pending"
    BY <2>1 DEF Asked, AnswerSoFar, Operations
  <2>3. AnswerSoFar # "pending" /\ UNCHANGED <<keys, used>>
    BY <1>4 DEF Ask, AnswerSoFar, IInv, TypeOK
  <2> QED
    BY <2>2, <2>3 DEF Directory!Next, Directory!Ask, Asked
<1>5. CASE Authorize
  <2>1. UNCHANGED <<keys, used>>
    BY <1>5 DEF Authorize
  <2>2. CASE Return("error")
    BY <2>1, <2>2, FailuresInDirectory
  <2>3. CASE call' = [call EXCEPT !.pc = "request"]
    <3>1. /\ call.pc = "authorize" /\ call.start = 0 /\ call \in Calls
          /\ call.key \in Nat
      <4>1. \A k \in Keys : k \in Nat
        BY KeysAreNumbered
      <4> QED
        BY <1>5, <4>1, TypeParts DEF Authorize, IInv
    <3>2. /\ call'.start = 0 /\ call'.key = call.key /\ call'.op = call.op
          /\ call'.answer = call.answer
      BY <2>3, <3>1 DEF Calls
    <3>3. Asked' = Asked /\ AnswerSoFar' = AnswerSoFar
      BY <3>1, <3>2 DEF Asked, AnswerSoFar
    <3> QED
      BY <2>1, <3>3, HiddenInDirectory
  <2> QED
    BY <1>5, <2>2, <2>3 DEF Authorize
<1>6. CASE RequestFails
  BY <1>6, FailuresInDirectory DEF RequestFails
<1>7. CASE CreateApplicationKey \/ DeleteApplicationKey
  <2>1. call.pc = "request" /\ ~Settled
    BY <1>7 DEF CreateApplicationKey, DeleteApplicationKey, Served, Settled
  <2> QED
    BY <1>7, <2>1, EffectsInDirectory
       DEF CreateApplicationKey, DeleteApplicationKey, Served, Answers
<1>8. CASE GetApplicationKey
  BY <1>8, LookupsInDirectory
<1> QED
  BY <1>1, <1>2, <1>3, <1>4, <1>5, <1>6, <1>7, <1>8 DEF Next, Client

\* Every method of the client takes effect at one moment between call and
\* return: a lookup that reads the list page by page, while keys come and go,
\* answers as if it had looked at all keys at once.
THEOREM ImplementsDirectory == Spec => CallsAreAtomic
<1>1. IInv /\ [Next]_vars => [Directory!Next]_Directory!vars
  BY StepsInDirectory
<1> QED
  BY <1>1, DirectoryStarts, Invariance, PTL DEF Spec, CallsAreAtomic, Directory!Spec
=============================================================================
