--------------------------- MODULE VersionService ---------------------------
(***************************************************************************)
(* What a Checker promises the manifests it is given, with no cache, pool, *)
(* retry or file in sight: a client asks a set of questions; each one is   *)
(* settled once, by the registry it belongs to and about the package it    *)
(* names, no older than MaxAge, or by a failure; and every question that   *)
(* nobody answered flags its key, so that no answer is missing unnoticed.  *)
(* A client may vanish and start over.                                     *)
(***************************************************************************)
EXTENDS Integers

CONSTANTS
  Client,
  Question,      \* records with a key and a name
  Key,
  Home(_, _),    \* Home(c, q): the registry question q of client c belongs to
  MaxAge

VARIABLES
  wanted,        \* [Client -> SUBSET Question], questions not settled yet
  given,         \* [Client -> [Question -> Reply]]
  flagged        \* [Client -> SUBSET Key], keys that left a question open

vars == <<wanted, given, flagged>>

Nothing == [kind |-> "none"]

Init ==
  /\ wanted = [c \in Client |-> {}]
  /\ given = [c \in Client |-> [q \in Question |-> Nothing]]
  /\ flagged = [c \in Client |-> {}]

(* A new set of questions, once the last one is settled.                   *)
Ask(c) ==
  /\ wanted[c] = {}
  /\ wanted' \in [Client -> SUBSET Question]
  /\ \A d \in Client \ {c} : wanted'[d] = wanted[d]
  /\ given' = [given EXCEPT ![c] = [q \in Question |-> Nothing]]
  /\ flagged' = [flagged EXCEPT ![c] = {}]

Give(c, q, reply) ==
  /\ q \in wanted[c]
  /\ wanted' = [wanted EXCEPT ![c] = @ \ {q}]
  /\ given' = [given EXCEPT ![c][q] = reply]

Answer(c, q) ==
  /\ \E age \in 0 .. MaxAge - 1 :
       Give(c, q, [kind |-> "ok", from |-> Home(c, q), of |-> q.name, age |-> age])
  /\ UNCHANGED flagged

Absent(c, q) ==
  /\ Give(c, q, [kind |-> "absent"])
  /\ UNCHANGED flagged

Refuse(c, q) ==
  /\ Give(c, q, [kind |-> "unanswered"])
  /\ flagged' = [flagged EXCEPT ![c] = @ \cup {q.key}]

Vanish(c) ==
  /\ wanted' = [wanted EXCEPT ![c] = {}]
  /\ given' = [given EXCEPT ![c] = [q \in Question |-> Nothing]]
  /\ flagged' = [flagged EXCEPT ![c] = {}]

Next ==
  \E c \in Client :
    \/ Ask(c) \/ Vanish(c)
    \/ \E q \in Question : Answer(c, q) \/ Absent(c, q) \/ Refuse(c, q)

Spec == Init /\ [][Next]_vars
=============================================================================
