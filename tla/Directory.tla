------------------------------- MODULE Directory -------------------------------
(***************************************************************************)
(* What the chat server's tables are for, without ids, rows, sessions or   *)
(* failing statements: a set of account names, and who has whom as a       *)
(* contact.                                                                *)
(***************************************************************************)
CONSTANT Names

VARIABLES accounts, friends

vars == <<accounts, friends>>

Own(n)  == {n} \X Names
Ties(n) == Own(n) \union (Names \X {n})

Init == accounts = {} /\ friends = {}

\* A new account starts without contacts and as nobody's contact, whoever had
\* its name before.
Register(n) ==
    /\ n \notin accounts
    /\ accounts' = accounts \union {n}
    /\ UNCHANGED friends

Befriend(n, f) ==
    /\ {n, f} \subseteq accounts
    /\ friends' = friends \union {<<n, f>>}
    /\ UNCHANGED accounts

Unfriend(n, f) ==
    /\ friends' = friends \ {<<n, f>>}
    /\ UNCHANGED accounts

\* An account's deletion loses its contacts, then those who had it as a contact,
\* and the account itself only when both are gone.  It may stop on the way.
Leave(n) ==
    \/ friends' = friends \ Own(n) /\ UNCHANGED accounts
    \/ friends' = friends \ Ties(n) /\ accounts' \in {accounts, accounts \ {n}}

Next ==
    \E n \in Names :
        \/ Register(n)
        \/ Leave(n)
        \/ \E f \in Names : Befriend(n, f) \/ Unfriend(n, f)

Spec == Init /\ [][Next]_vars
================================================================================
