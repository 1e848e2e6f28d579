------------------------------- MODULE OnceOnly -------------------------------
(***************************************************************************)
(* What an idempotency key promises: whatever is sent under a key, however *)
(* often, at most one request of the key takes effect, and every success   *)
(* that is answered is the answer of that one.                             *)
(***************************************************************************)
EXTENDS Sequences

CONSTANTS
    Keys,       \* <<principal, Idempotency-Key>> pairs
    Payloads    \* requests that may be sent under a key: operation and digest

VARIABLES
    performed,  \* key -> sequence of the requests that took effect
    answered    \* <<key, payload sent, payload whose response was answered>>

onceVars == <<performed, answered>>

OnceInit ==
    /\ performed = [k \in Keys |-> <<>>]
    /\ answered = {}

Perform(k, p) ==
    /\ performed[k] = <<>>
    /\ performed' = [performed EXCEPT ![k] = <<p>>]
    /\ UNCHANGED answered

AnswerOnce(k, p) ==
    /\ performed[k] = <<p>>
    /\ answered' = answered \cup {<<k, p, p>>}
    /\ UNCHANGED performed

OnceNext == \E k \in Keys, p \in Payloads : Perform(k, p) \/ AnswerOnce(k, p)

OnceSpec == OnceInit /\ [][OnceNext]_onceVars
=============================================================================
