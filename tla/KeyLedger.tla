----------------------------- MODULE KeyLedger -----------------------------
(***************************************************************************)
(* What the user controller promises about application keys, whatever      *)
(* caches, crashes and lost answers it has to live with.  Of what it       *)
(* reports: an incarnation of a User comes to name one key, once, for the  *)
(* generation of its spec that is current at that moment, and never while  *)
(* it is being deleted.  Of what it hands out in secrets: only keys of     *)
(* generations that the User did live through before its deletion began,   *)
(* though a key may be handed out when its generation is long gone.        *)
(***************************************************************************)
EXTENDS Naturals

CONSTANT Users

VARIABLES
    ledger,  \* [Users -> [uid, gen, state, key]], state one of "absent",
             \* "live" and "deleting", key 0 until one is reported
    lived,   \* history: for every User, the <<uid, gen>> it has been "live" in
    handed   \* <<user, uid, key>> for every key handed out

vars == <<ledger, lived, handed>>

Init ==
    /\ ledger = [u \in Users |->
                   [uid |-> 0, gen |-> 0, state |-> "absent", key |-> 0]]
    /\ lived = [u \in Users |-> {}]
    /\ handed = {}

\* The User goes on as this entry says.
Becomes(u, entry) ==
    /\ ledger' = [ledger EXCEPT ![u] = entry]
    /\ lived' = [lived EXCEPT ![u] =
                   IF entry.state = "live" THEN @ \cup {<<entry.uid, entry.gen>>}
                   ELSE @]
    /\ UNCHANGED handed

Create(u) ==
    /\ ledger[u].state = "absent"
    /\ Becomes(u, [uid |-> ledger[u].uid + 1, gen |-> 1, state |-> "live", key |-> 0])

\* An edit, or the beginning of a deletion: both start a new generation.
Change(u) ==
    /\ ledger[u].state # "absent"
    /\ \E state \in {ledger[u].state, "deleting"} :
          Becomes(u, [uid |-> ledger[u].uid, gen |-> ledger[u].gen + 1,
                      state |-> state, key |-> ledger[u].key])

Report(u) ==
    /\ ledger[u].state = "live"
    /\ ledger[u].key = 0
    /\ Becomes(u, [ledger[u] EXCEPT !.key = ledger[u].gen])

Remove(u) ==
    /\ ledger[u].state # "absent"
    /\ Becomes(u, [ledger[u] EXCEPT !.state = "absent"])

HandOut(u) ==
    /\ \E generation \in lived[u] :
          handed' = handed \cup {<<u, generation[1], generation[2]>>}
    /\ UNCHANGED <<ledger, lived>>

Next == \E u \in Users :
           Create(u) \/ Change(u) \/ Report(u) \/ Remove(u) \/ HandOut(u)

Spec == Init /\ [][Next]_vars
=============================================================================
