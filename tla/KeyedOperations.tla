---------------------------- MODULE KeyedOperations ----------------------------
(***************************************************************************)
(* What the owner of an Idempotency-Key is promised: inside one window of   *)
(* the key, at most one request is performed, its answer is recorded in the *)
(* same step, and every other request is given that answer or none.         *)
(***************************************************************************)
EXTENDS Naturals, Sequences

CONSTANTS Keys, Requests, None

VARIABLES
    asked,      \* the key each request carries, or None
    windows,    \* per key, the request whose answer each window records, or None
    performed,  \* requests whose effect is in the database
    answer      \* the request whose answer each request was given, or None

keyedVars == <<asked, windows, performed, answer>>

KeyedInit ==
    /\ asked = [r \in Requests |-> None]
    /\ windows = [k \in Keys |-> <<>>]
    /\ performed = {}
    /\ answer = [r \in Requests |-> None]

Ask(r, k) ==
    /\ asked[r] = None
    /\ asked' = [asked EXCEPT ![r] = k]
    /\ UNCHANGED <<windows, performed, answer>>

OpenWindow(k) ==
    /\ windows' = [windows EXCEPT ![k] = Append(@, None)]
    /\ UNCHANGED <<asked, performed, answer>>

\* A request without an effect of its own leaves performed alone.
Perform(r, k, w) ==
    /\ asked[r] = k
    /\ windows[k][w] = None
    /\ answer[r] = None
    /\ windows' = [windows EXCEPT ![k][w] = r]
    /\ performed' \in {performed, performed \cup {r}}
    /\ answer' = [answer EXCEPT ![r] = r]
    /\ UNCHANGED asked

Repeat(r, k) ==
    /\ asked[r] = k
    /\ answer[r] = None
    /\ windows[k] # <<>>
    /\ windows[k][Len(windows[k])] # None
    /\ answer' = [answer EXCEPT ![r] = windows[k][Len(windows[k])]]
    /\ UNCHANGED <<asked, windows, performed>>

KeyedNext ==
    \/ \E r \in Requests, k \in Keys :
        \/ Ask(r, k)
        \/ Repeat(r, k)
        \/ \E w \in DOMAIN windows[k] : Perform(r, k, w)
    \/ \E k \in Keys : OpenWindow(k)

KeyedSpec == KeyedInit /\ [][KeyedNext]_keyedVars
=============================================================================
