------------------------------ MODULE Accounts ------------------------------
(***************************************************************************)
(* Accounts, sessions and saved works: AuthService and BookmarkService     *)
(* over their Postgres tables, one await a step, and the browsers that     *)
(* call them.  Each statement is a transaction of its own; the schema's    *)
(* unique keys refuse what a stale look-up would let through.              *)
(***************************************************************************)
EXTENDS Naturals, FiniteSets

CONSTANTS
  Browsers,
  Emails,
  Passwords,
  Profiles,      \* <<Google subject, address>> that Google may vouch for
  SavedWorks,    \* works of the catalogue
  MaxCalls,      \* bound: requests a browser makes
  MaxLost,       \* bound: requests whose handler dies or whose answer is lost
  MaxOld         \* bound: sessions that expire

VARIABLES
  users,         \* app_user: id -> [email, password, subject]
  sessions,      \* session: token -> [user, old]
  bookmarks,     \* bookmark: <<user, work>>
  call,          \* browser -> the request in flight
  cookie,        \* browser -> session token
  nextToken,     \* ids and tokens are never reused
  calls, lost, expired,   \* what the bounds count
  proof          \* observer: token -> the credential it was given for

accountVars == <<users, sessions, bookmarks, call, cookie, nextToken, calls, lost, expired, proof>>

Unset == "none"
NoCall == [pc |-> "idle", kind |-> Unset, email |-> Unset, password |-> Unset, subject |-> Unset,
           work |-> Unset, token |-> 0, user |-> 0]

Subjects == {p[1] : p \in Profiles}
ASSUME ProfilesAssumption ==
  /\ \A p \in Profiles : p = <<p[1], p[2]>> /\ p[2] \in Emails
  /\ Unset \notin Subjects

Owner(email) == {u \in DOMAIN users : users[u].email = email}
Linked(subject) == {u \in DOMAIN users : users[u].subject = subject}
The(S) == CHOOSE x \in S : TRUE
With(f, x, v) == [y \in DOMAIN f \cup {x} |-> IF y = x THEN v ELSE f[y]]
Without(f, x) == [y \in DOMAIN f \ {x} |-> f[y]]

Goto(b, pc) == call' = [call EXCEPT ![b].pc = pc]
End(b) == call' = [call EXCEPT ![b] = NoCall]
tables == <<users, sessions, bookmarks>>
counters == <<calls, lost, expired>>

-----------------------------------------------------------------------------
(* A browser sends a request with the cookie it has. *)

Request(b, c) ==
  /\ call[b].pc = "idle" /\ calls[b] < MaxCalls
  /\ calls' = [calls EXCEPT ![b] = @ + 1]
  /\ call' = [call EXCEPT ![b] = [c EXCEPT !.token = cookie[b]]]
  /\ UNCHANGED <<tables, cookie, nextToken, lost, expired, proof>>

SendRegister(b, e, p) ==
  Request(b, [NoCall EXCEPT !.pc = "findEmail", !.kind = "register", !.email = e, !.password = p])
SendLogin(b, e, p) ==
  Request(b, [NoCall EXCEPT !.pc = "verify", !.kind = "login", !.email = e, !.password = p])
SendGoogle(b, s, e) ==
  Request(b, [NoCall EXCEPT !.pc = "findSubject", !.kind = "google", !.email = e, !.subject = s])
SendLogout(b) == cookie[b] # 0 /\ Request(b, [NoCall EXCEPT !.pc = "deleteSession", !.kind = "logout"])
SendBookmark(b, kind, w) ==
  cookie[b] # 0 /\ Request(b, [NoCall EXCEPT !.pc = "findSession", !.kind = kind, !.work = w])

-----------------------------------------------------------------------------
(* Ways in. *)

(* register: an address that is taken is a conflict. *)
RegisterLooksUp(b) ==
  /\ call[b].pc = "findEmail" /\ call[b].kind = "register"
  /\ IF Owner(call[b].email) # {} THEN End(b) ELSE Goto(b, "insertUser")
  /\ UNCHANGED <<tables, cookie, nextToken, counters, proof>>

(* loginWithPassword: one answer for a wrong password and no account. *)
VerifyPassword(b) ==
  /\ call[b].pc = "verify"
  /\ LET fit == {u \in Owner(call[b].email) : users[u].password = call[b].password}
     IN IF fit = {} THEN End(b)
        ELSE call' = [call EXCEPT ![b].pc = "startSession", ![b].user = The(fit)]
  /\ UNCHANGED <<tables, cookie, nextToken, counters, proof>>

(* loginWithGoogle: by subject first, then by address. *)
GoogleBySubject(b) ==
  /\ call[b].pc = "findSubject"
  /\ LET known == Linked(call[b].subject)
     IN call' = IF known = {} THEN [call EXCEPT ![b].pc = "findEmail"]
                ELSE [call EXCEPT ![b].pc = "startSession", ![b].user = The(known)]
  /\ UNCHANGED <<tables, cookie, nextToken, counters, proof>>

GoogleByEmail(b) ==
  /\ call[b].pc = "findEmail" /\ call[b].kind = "google"
  /\ LET known == Owner(call[b].email)
     IN call' = IF known = {} THEN [call EXCEPT ![b].pc = "insertUser"]
                ELSE [call EXCEPT ![b].pc = "linkUser", ![b].user = The(known)]
  /\ UNCHANGED <<tables, cookie, nextToken, counters, proof>>

(* The keys of app_user that an insert or update of row id must not meet.  *)
Taken(id, email, subject) ==
  \/ Owner(email) \ {id} # {}
  \/ subject # Unset /\ Linked(subject) \ {id} # {}

(* Mutant: the schema has no unique address. *)
InsertUserTwice(b) ==
  /\ call[b].pc = "insertUser"
  /\ users' = With(users, nextToken, [email |-> call[b].email, password |-> call[b].password,
                                      subject |-> call[b].subject])
  /\ nextToken' = nextToken + 1
  /\ call' = [call EXCEPT ![b].pc = "startSession", ![b].user = nextToken]
  /\ UNCHANGED <<sessions, bookmarks, cookie, counters, proof>>

(* Mutant: what the refused insert would have returned is signed in. *)
InsertUserUnchecked(b) ==
  /\ call[b].pc = "insertUser"
  /\ IF Taken(nextToken, call[b].email, call[b].subject) THEN UNCHANGED users
     ELSE users' = With(users, nextToken, [email |-> call[b].email, password |-> call[b].password,
                                           subject |-> call[b].subject])
  /\ nextToken' = nextToken + 1
  /\ call' = [call EXCEPT ![b].pc = "startSession", ![b].user = nextToken]
  /\ UNCHANGED <<sessions, bookmarks, cookie, counters, proof>>

(* A new account; if another request took the address or the subject since *)
(* the look-up, the insert fails and the reader is told of a server error. *)
(* The welcome mail is best effort and changes nothing.                    *)
InsertUser(b) ==
  /\ call[b].pc = "insertUser"
  /\ IF Taken(nextToken, call[b].email, call[b].subject)
     THEN End(b) /\ UNCHANGED <<users, nextToken>>
     ELSE /\ users' = With(users, nextToken, [email |-> call[b].email, password |-> call[b].password,
                                              subject |-> call[b].subject])
          /\ nextToken' = nextToken + 1
          /\ call' = [call EXCEPT ![b].pc = "startSession", ![b].user = nextToken]
  /\ UNCHANGED <<sessions, bookmarks, cookie, counters, proof>>

(* Mutant: linking writes the row the profile alone would make. *)
LinkUserAfresh(b) ==
  /\ call[b].pc = "linkUser"
  /\ users' = [users EXCEPT ![call[b].user].subject = call[b].subject, ![call[b].user].password = Unset]
  /\ Goto(b, "startSession")
  /\ UNCHANGED <<sessions, bookmarks, cookie, nextToken, counters, proof>>

(* withGoogleSubject and save: the row keeps its password. *)
LinkUser(b) ==
  /\ call[b].pc = "linkUser"
  /\ IF Taken(call[b].user, users[call[b].user].email, call[b].subject)
     THEN End(b) /\ UNCHANGED users
     ELSE /\ users' = [users EXCEPT ![call[b].user].subject = call[b].subject]
          /\ Goto(b, "startSession")
  /\ UNCHANGED <<sessions, bookmarks, cookie, nextToken, counters, proof>>

(* startSession, and the cookie that comes with the answer. *)
Credential(b) ==
  IF call[b].kind = "google" THEN <<"subject", call[b].subject, Unset>>
  ELSE <<"password", call[b].email, call[b].password>>
StartSession(b) ==
  /\ call[b].pc = "startSession"
  /\ sessions' = With(sessions, nextToken, [user |-> call[b].user, old |-> FALSE])
  /\ nextToken' = nextToken + 1
  /\ proof' = With(proof, nextToken, Credential(b))
  /\ \/ cookie' = [cookie EXCEPT ![b] = nextToken] /\ UNCHANGED lost
     \/ lost < MaxLost /\ lost' = lost + 1 /\ UNCHANGED cookie
  /\ End(b)
  /\ UNCHANGED <<users, bookmarks, calls, expired>>

-----------------------------------------------------------------------------
(* Signed in. *)

(* authenticate, before the handler of a bookmark request. *)
FindSession(b) ==
  /\ call[b].pc = "findSession"
  /\ IF call[b].token \notin DOMAIN sessions THEN End(b)
     ELSE IF sessions[call[b].token].old THEN Goto(b, "deleteOld")
     ELSE call' = [call EXCEPT ![b].pc = call[b].kind, ![b].user = sessions[call[b].token].user]
  /\ UNCHANGED <<tables, cookie, nextToken, counters, proof>>

(* Mutant: a visit renews the session it finds expired. *)
RenewOld(b) ==
  /\ call[b].pc = "deleteOld"
  /\ sessions' = [sessions EXCEPT ![call[b].token].old = FALSE]
  /\ End(b)
  /\ UNCHANGED <<users, bookmarks, cookie, nextToken, counters, proof>>

DeleteOld(b) ==
  /\ call[b].pc = "deleteOld"
  /\ sessions' = Without(sessions, call[b].token)
  /\ End(b)
  /\ UNCHANGED <<users, bookmarks, cookie, nextToken, counters, proof>>

AddSavedWork(b) ==
  /\ call[b].pc = "add"
  /\ bookmarks' = bookmarks \cup {<<call[b].user, call[b].work>>}
  /\ End(b)
  /\ UNCHANGED <<users, sessions, cookie, nextToken, counters, proof>>

RemoveSavedWork(b) ==
  /\ call[b].pc = "remove"
  /\ bookmarks' = bookmarks \ {<<call[b].user, call[b].work>>}
  /\ End(b)
  /\ UNCHANGED <<users, sessions, cookie, nextToken, counters, proof>>

(* logout: the row goes, then the cookie; the caller ignores the status of *)
(* the answer, and a lost one leaves the cookie.                           *)
Logout(b) ==
  /\ call[b].pc = "deleteSession"
  /\ sessions' = Without(sessions, call[b].token)
  /\ \/ cookie' = [cookie EXCEPT ![b] = 0] /\ UNCHANGED lost
     \/ lost < MaxLost /\ lost' = lost + 1 /\ UNCHANGED cookie
  /\ End(b)
  /\ UNCHANGED <<users, bookmarks, nextToken, calls, expired, proof>>

-----------------------------------------------------------------------------
(* The world. *)

(* The API dies, or a statement fails, in mid-request. *)
HandlerDies(b) ==
  /\ call[b].pc # "idle" /\ lost < MaxLost
  /\ lost' = lost + 1
  /\ End(b)
  /\ UNCHANGED <<tables, cookie, nextToken, calls, expired, proof>>

(* Thirty days go by.  Nothing calls deleteExpired. *)
SessionExpires(t) ==
  /\ ~sessions[t].old /\ expired < MaxOld
  /\ expired' = expired + 1
  /\ sessions' = [sessions EXCEPT ![t].old = TRUE]
  /\ UNCHANGED <<users, bookmarks, call, cookie, nextToken, calls, lost, proof>>

AccountsInit ==
  /\ users = << >> /\ sessions = << >> /\ bookmarks = {} /\ proof = << >>
  /\ call = [b \in Browsers |-> NoCall] /\ cookie = [b \in Browsers |-> 0]
  /\ nextToken = 1 /\ calls = [b \in Browsers |-> 0] /\ lost = 0 /\ expired = 0

Sends(b) ==
  \/ \E e \in Emails, p \in Passwords : SendRegister(b, e, p) \/ SendLogin(b, e, p)
  \/ \E p \in Profiles : SendGoogle(b, p[1], p[2])
  \/ SendLogout(b)
  \/ \E w \in SavedWorks, kind \in {"add", "remove"} : SendBookmark(b, kind, w)

Handles(b) ==
  \/ RegisterLooksUp(b) \/ VerifyPassword(b) \/ GoogleBySubject(b) \/ GoogleByEmail(b)
  \/ InsertUser(b) \/ LinkUser(b) \/ StartSession(b)
  \/ FindSession(b) \/ DeleteOld(b) \/ AddSavedWork(b) \/ RemoveSavedWork(b) \/ Logout(b)

AccountsNext ==
  \/ \E b \in Browsers : Sends(b) \/ Handles(b) \/ HandlerDies(b)
  \/ \E t \in DOMAIN sessions : SessionExpires(t)

AccountsSpec == AccountsInit /\ [][AccountsNext]_accountVars

-----------------------------------------------------------------------------
(* Types, and what a handler knows when it has come to a statement. *)
Issued == 1..(nextToken - 1)
Calls ==
  [pc : {"idle", "findEmail", "verify", "findSubject", "insertUser", "linkUser", "startSession",
         "deleteSession", "findSession", "deleteOld", "add", "remove"},
   kind : {Unset, "register", "login", "google", "logout", "add", "remove"},
   email : Emails \cup {Unset}, password : Passwords \cup {Unset}, subject : Subjects \cup {Unset},
   work : SavedWorks \cup {Unset}, token : Issued \cup {0}, user : (DOMAIN users) \cup {0}]
Credentials ==
  {<<"password", e, p>> : e \in Emails, p \in Passwords} \cup {<<"subject", s, Unset>> : s \in Subjects}

CallOK(c) ==
  /\ c \in Calls
  /\ c.kind \in {"register", "login"} => c.email \in Emails /\ c.password \in Passwords /\ c.subject = Unset
  /\ c.kind = "google" => <<c.subject, c.email>> \in Profiles
  /\ c.pc \in {"findEmail", "insertUser"} => c.kind \in {"register", "google"}
  /\ c.pc = "verify" => c.kind = "login"
  /\ c.pc \in {"findSubject", "linkUser"} => c.kind = "google"
  /\ c.pc = "startSession" => c.kind \in {"register", "login", "google"}
  /\ c.pc \in {"findSession", "deleteOld", "add", "remove"} => c.kind \in {"add", "remove"} /\ c.work \in SavedWorks
  /\ c.pc \in {"linkUser", "startSession", "add", "remove"} => c.user \in DOMAIN users
  /\ c.pc = "linkUser" => users[c.user].email = c.email

User == [email : Emails, password : Passwords \cup {Unset}, subject : Subjects \cup {Unset}]
UsersOK ==
  /\ DOMAIN users \subseteq Issued
  /\ \A u \in DOMAIN users :
       users[u] \in User /\ (users[u].subject # Unset => <<users[u].subject, users[u].email>> \in Profiles)
SessionsOK ==
  /\ DOMAIN sessions \subseteq DOMAIN proof /\ DOMAIN proof \subseteq Issued
  /\ \A t \in DOMAIN sessions : sessions[t] \in [user : DOMAIN users, old : BOOLEAN]
  /\ \A t \in DOMAIN proof : proof[t] \in Credentials
CallsOK == DOMAIN call = Browsers /\ \A b \in Browsers : CallOK(call[b])

AccountsTypeOK ==
  /\ nextToken \in Nat \ {0}
  /\ UsersOK /\ SessionsOK /\ CallsOK
  /\ bookmarks \subseteq (DOMAIN users) \X SavedWorks
  /\ cookie \in [Browsers -> Issued \cup {0}]

(* However registrations and Google sign-ins interleave, an address and a  *)
(* Google identity have one account, so a reader has one list of books.    *)
OneAccountEach ==
  \A u, v \in DOMAIN users :
    users[u].email = users[v].email \/ (users[u].subject = users[v].subject /\ users[u].subject # Unset)
      => u = v

(* A session leads to the account whose password or Google identity it was *)
(* given for, and that credential still opens the account: no later        *)
(* linking takes a way in away.                                            *)
Opens(given, u) ==
  IF given[1] = "password" THEN u.email = given[2] /\ u.password = given[3] ELSE u.subject = given[2]
SessionOpensOwnAccount == \A t \in DOMAIN sessions : Opens(proof[t], users[sessions[t].user])

(* Why it holds: what a handler is about to give a session for opens the   *)
(* account already; and an address Google vouches for belongs to one       *)
(* identity, so that linking never replaces one identity by another.       *)
OneIdentityPerAddress == \A p, q \in Profiles : p[2] = q[2] => p = q
CredentialsOpen ==
  \A b \in Browsers : call[b].pc = "startSession" => Opens(Credential(b), users[call[b].user])
AccountsInv == AccountsTypeOK /\ SessionOpensOwnAccount /\ CredentialsOpen

(* Signing out is real: a token whose row is gone never becomes valid      *)
(* again, and one that has expired is not revived.                         *)
SignedOutForGood ==
  [][\A t \in 1..(nextToken - 1) :
       /\ t \notin DOMAIN sessions => t \notin DOMAIN sessions'
       /\ t \in DOMAIN sessions \cap DOMAIN sessions' =>
            /\ sessions'[t].user = sessions[t].user
            /\ sessions[t].old => sessions'[t].old]_accountVars
=============================================================================
