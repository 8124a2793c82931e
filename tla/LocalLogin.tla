----------------------------- MODULE LocalLogin ------------------------------
(***************************************************************************)
(* Exercise3: accounts in the user defaults.  The first login with an      *)
(* email creates the account, later ones need its password.  The system    *)
(* writes the defaults to disk in its own time.                            *)
(***************************************************************************)
EXTENDS Sequences

CONSTANTS
    Emails, BadEmails, Passwords, None

VARIABLES
    users,      \* savedArray as the app sees it
    saved,      \* and as it is on disk
    shown       \* the logged in screen's email, and the password given for it

vars == <<users, saved, shown>>

Account(email, password) == [email |-> email, password |-> password]
DoesEmailExist(email) == \E i \in DOMAIN users : users[i].email = email
IsValidEmail(email) == email \notin BadEmails

EmailCredentialsValid(email, password) == \E i \in DOMAIN users : users[i] = Account(email, password)

\* storeDataInNSUserDefaults:
Stored(user) == users' = Append(users, user)

LoginButtonPressed(email, password) ==
    /\ shown = None
    /\ IsValidEmail(email)
    /\ \/ /\ ~DoesEmailExist(email)
          /\ Stored(Account(email, password))
       \/ /\ DoesEmailExist(email)
          /\ EmailCredentialsValid(email, password)
          /\ UNCHANGED users
    /\ shown' = Account(email, password)
    /\ UNCHANGED saved

\* The navigation bar's button back to the login, titled "Logout".
Logout == shown # None /\ shown' = None /\ UNCHANGED <<users, saved>>

WriteDefaults == saved' = users /\ UNCHANGED <<users, shown>>
Relaunch == users' = saved /\ shown' = None /\ UNCHANGED saved

Init == users = <<>> /\ saved = <<>> /\ shown = None

Next ==
    \/ \E email \in Emails \union BadEmails, password \in Passwords :
            LoginButtonPressed(email, password)
    \/ Logout
    \/ WriteDefaults
    \/ Relaunch
-----------------------------------------------------------------------------
TypeOK ==
    /\ {users, saved} \subseteq Seq([email : Emails, password : Passwords])
    /\ shown = None \/ shown \in [email : Emails, password : Passwords]

\* An email has one password, and who is shown as logged in gave it.
OnePassword ==
    /\ \A i, j \in DOMAIN users : i # j => users[i].email # users[j].email
    /\ shown # None => \E i \in DOMAIN users : users[i] = shown
=============================================================================
