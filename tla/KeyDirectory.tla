---------------------------- MODULE KeyDirectory ----------------------------
(***************************************************************************)
(* What a call of the B2 key methods means to its caller while others      *)
(* create and delete keys too: it takes effect at one moment between call  *)
(* and return.  A lookup reports whether the key existed at that moment; a *)
(* deletion that succeeded did delete it then; a creation that succeeded   *)
(* made one key then.  An error says nothing: the effect may have happened *)
(* or not.                                                                 *)
(***************************************************************************)
CONSTANTS Keys, Operations

VARIABLES
    keys,    \* the keys that exist
    used,    \* the keys that were ever made: an ID is not given twice
    asked,   \* the call: [op, key]
    answer   \* "pending", then what the caller is going to be told

vars == <<keys, used, asked, answer>>

Init ==
    /\ keys \in SUBSET Keys
    /\ used = keys
    /\ asked = [op |-> "none"]
    /\ answer = "error"

Make(k) == k \notin used /\ keys' = keys \cup {k} /\ used' = used \cup {k}

Remove(k) == k \in keys /\ keys' = keys \ {k} /\ UNCHANGED used

Others == (\E k \in Keys : Make(k) \/ Remove(k)) /\ UNCHANGED <<asked, answer>>

Ask ==
    /\ answer # "pending"
    /\ \E op \in Operations, k \in Keys : asked' = [op |-> op, key |-> k]
    /\ answer' = "pending"
    /\ UNCHANGED <<keys, used>>

Create ==
    /\ asked.op = "create"
    /\ \E k \in Keys : Make(k)
    /\ answer' \in {"ok", "error"}

Delete ==
    /\ asked.op = "delete"
    /\ Remove(asked.key)
    /\ answer' \in {"ok", "error"}

Find ==
    /\ asked.op = "get"
    /\ answer' = IF asked.key \in keys THEN "found" ELSE "notFound"
    /\ UNCHANGED <<keys, used>>

TakeEffect == answer = "pending" /\ (Create \/ Delete \/ Find) /\ UNCHANGED asked

Fail ==
    /\ answer' = "error"
    /\ UNCHANGED <<keys, used, asked>>

Next == Others \/ Ask \/ TakeEffect \/ Fail

Spec == Init /\ [][Next]_vars
=============================================================================
