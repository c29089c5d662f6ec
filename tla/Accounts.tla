------------------------------ MODULE Accounts ------------------------------
(***************************************************************************)
(* The accounts: pkg/auth/local.go, the user handlers of                   *)
(* internal/api/handler.go and the user records of pkg/storage/storage.go. *)
(*                                                                         *)
(* A record is abstracted to its role: that a password fits is a choice of *)
(* the client.  A handler takes one step for each transaction of the store *)
(* it makes, and a transaction may fail.  Tokens outlive the process: they *)
(* are signed with a secret of the configuration.                          *)
(***************************************************************************)
EXTENDS Naturals, FiniteSets

CONSTANTS Users,        \* user names
          Root,         \* the name "admin"
          Roles,
          Admin,        \* models.RoleAdmin
          NoUser,       \* no record
          Same,         \* a request that names no role
          UserRequests, \* goroutines that handle requests
          MaxTokens     \* bound on the tokens, made or being made, at a time

ASSUME AccountsAssumption ==
    /\ Root \in Users
    /\ Admin \in Roles
    /\ NoUser \notin Roles
    /\ Same \notin Roles
    /\ MaxTokens \in Nat

VARIABLES
    role,      \* role of a user, or NoUser
    up,        \* the process runs
    logins,    \* logins that have read the record: <<user, role>>
    tokens,    \* API tokens: <<user, role>>
    ureq,      \* the request a goroutine handles
    excuses    \* history: ways in which an administrator was removed unchecked

accountVars == <<role, up, logins, tokens, ureq, excuses>>

Exist == {u \in Users : role[u] # NoUser}
Admins == {u \in Users : role[u] = Admin}

NoRequest == [pc |-> "idle"]

(* A request is overtaken when the accounts change after it was let in,    *)
(* and stale when they change after it read them.                          *)
Admitted(u) == [pc |-> "admitted", by |-> u, overtaken |-> FALSE, stale |-> FALSE]

AccountsInit ==
    /\ role = [u \in Users |-> NoUser]
    /\ up = FALSE
    /\ logins = {}
    /\ tokens = {}
    /\ ureq = [q \in UserRequests |-> NoRequest]
    /\ excuses = {}

(* Without any user an administrator is made; not when a transaction fails.*)
NewLocalAuthenticator ==
    /\ ~up
    /\ up' = TRUE
    /\ \/ role' = IF Exist = {} THEN [role EXCEPT ![Root] = Admin] ELSE role
       \/ role' = role
    /\ UNCHANGED <<logins, tokens, ureq, excuses>>

(* The process stops, whatever it was doing.                               *)
ProcessStops ==
    /\ up
    /\ up' = FALSE
    /\ logins' = {}
    /\ ureq' = [q \in UserRequests |-> NoRequest]
    /\ UNCHANGED <<role, tokens, excuses>>

----------------------------------------------------------------------------
(* Tokens.                                                                 *)

(* Login reads the record; comparing the password takes its time.          *)
LoginReads(u) ==
    /\ up
    /\ u \in Exist
    /\ Cardinality(logins) + Cardinality(tokens) < MaxTokens
    /\ logins' = logins \cup {<<u, role[u]>>}
    /\ UNCHANGED <<role, up, tokens, ureq, excuses>>

LoginEnds(t, ok) ==
    /\ t \in logins
    /\ logins' = logins \ {t}
    /\ tokens' = IF ok THEN tokens \cup {t} ELSE tokens
    /\ UNCHANGED <<role, up, ureq, excuses>>

TokenExpires(t) ==
    /\ t \in tokens
    /\ tokens' = tokens \ {t}
    /\ UNCHANGED <<role, up, logins, ureq, excuses>>

(* Faulty: the role is taken from the token.                               *)
AdmitToken(q, t) ==
    /\ up
    /\ ureq[q] = NoRequest
    /\ t \in tokens
    /\ t[2] = Admin
    /\ ureq' = [ureq EXCEPT ![q] = Admitted(t[1])]
    /\ UNCHANGED <<role, up, logins, tokens, excuses>>

(* Middleware, then RequireRole(RoleAdmin).                                *)
Middleware(q, t) ==
    /\ up
    /\ ureq[q] = NoRequest
    /\ t \in tokens
    /\ role[t[1]] = t[2]
    /\ t[2] = Admin
    /\ ureq' = [ureq EXCEPT ![q] = Admitted(t[1])]
    /\ UNCHANGED <<role, up, logins, tokens, excuses>>

----------------------------------------------------------------------------
(* Requests.                                                               *)

AccountsKept == UNCHANGED <<role, up, logins, tokens, excuses>>

(* What the transaction of another request does to a request.              *)
Mark(r, changes) == [r EXCEPT !.overtaken = @ \/ changes, !.stale = @ \/ changes]

(* The transaction of request q, which ends it.                            *)
CommitUser(q, u, r, excuse) ==
    /\ role' = [role EXCEPT ![u] = r]
    /\ ureq' = [o \in UserRequests |->
                  IF o = q \/ ureq[o] = NoRequest THEN NoRequest
                  ELSE Mark(ureq[o], r # role[u])]
    /\ excuses' = IF role[u] = Admin /\ r # Admin THEN excuses \cup excuse ELSE excuses
    /\ UNCHANGED <<up, logins, tokens>>

(* AddUser saves the record whether there is one or not.                   *)
AddUser(q, u, r) ==
    /\ ureq[q].pc = "admitted"
    /\ CommitUser(q, u, r, {"replaced"})

(* EditUser and DeleteUser (r = NoUser) read the record; to take the role  *)
(* from an administrator the administrators are counted.                   *)
ReadUser(q, u, r) ==
    /\ ureq[q].pc = "admitted"
    /\ IF u \in Exist
         THEN LET demotes == role[u] = Admin /\ r \notin {Same, Admin}
              IN ureq' = [ureq EXCEPT ![q] =
                     [pc |-> IF demotes THEN "count" ELSE "save", by |-> ureq[q].by,
                      overtaken |-> ureq[q].overtaken, stale |-> FALSE, blind |-> FALSE,
                      user |-> u, role |-> IF r = Same THEN role[u] ELSE r]]
         ELSE ureq' = [ureq EXCEPT ![q] = NoRequest]
    /\ AccountsKept

ToSave(q, blind) == ureq' = [ureq EXCEPT ![q] = [ureq[q] EXCEPT !.pc = "save", !.blind = blind]]

(* Faulty: the administrator who is removed counts as the one who remains. *)
CountOff(q) ==
    /\ ureq[q].pc = "count"
    /\ \/ /\ Cardinality(Admins) >= 1
          /\ ToSave(q, FALSE)
       \/ /\ Cardinality(Admins) < 1
          /\ ureq' = [ureq EXCEPT ![q] = NoRequest]
    /\ AccountsKept

(* ListUsers; when it fails the request goes on.                           *)
CountAdmins(q) ==
    /\ ureq[q].pc = "count"
    /\ \/ /\ Cardinality(Admins) > 1
          /\ ToSave(q, FALSE)
       \/ /\ Cardinality(Admins) <= 1
          /\ ureq' = [ureq EXCEPT ![q] = NoRequest]
       \/ ToSave(q, TRUE)
    /\ AccountsKept

(* SaveUser writes the record that was read, DeleteUser deletes what is    *)
(* there.                                                                  *)
SaveUser(q) ==
    /\ ureq[q].pc = "save"
    /\ CommitUser(q, ureq[q].user, ureq[q].role,
              (IF ureq[q].stale THEN {"stale"} ELSE {}) \cup (IF ureq[q].blind THEN {"blind"} ELSE {}))

(* A transaction or a check of the input fails.                            *)
RequestFails(q) ==
    /\ ureq[q] # NoRequest
    /\ ureq' = [ureq EXCEPT ![q] = NoRequest]
    /\ AccountsKept

AccountsNext ==
    \/ NewLocalAuthenticator
    \/ ProcessStops
    \/ \E u \in Users : LoginReads(u)
    \/ \E t \in logins, ok \in BOOLEAN : LoginEnds(t, ok)
    \/ \E t \in tokens : TokenExpires(t)
    \/ \E q \in UserRequests :
         \/ \E t \in tokens : Middleware(q, t)
         \/ \E u \in Users, r \in Roles : AddUser(q, u, r)
         \/ \E u \in Users, r \in Roles \cup {Same, NoUser} : ReadUser(q, u, r)
         \/ CountAdmins(q) \/ SaveUser(q) \/ RequestFails(q)

AccountsSpec == AccountsInit /\ [][AccountsNext]_accountVars

----------------------------------------------------------------------------
(* Properties.                                                             *)

AdmittedRequests == [pc : {"admitted"}, by : Users, overtaken : BOOLEAN, stale : BOOLEAN]
ReadRequests ==
    [pc : {"count", "save"}, by : Users, overtaken : BOOLEAN, stale : BOOLEAN, blind : BOOLEAN,
     user : Users, role : Roles \cup {NoUser}]

AccountsTypeOK ==
    /\ role \in [Users -> Roles \cup {NoUser}]
    /\ up \in BOOLEAN
    /\ logins \subseteq Users \X Roles
    /\ tokens \subseteq Users \X Roles
    /\ ureq \in [UserRequests -> {NoRequest} \cup AdmittedRequests \cup ReadRequests]
    /\ excuses \subseteq {"replaced", "stale", "blind"}

(* DeleteUser and EditUser never leave accounts without an administrator,  *)
(* which no restart would mend: the initial one is made only when there    *)
(* are no accounts at all.  It takes one of three things to get there: a   *)
(* request that decided on accounts that others have changed since, a list *)
(* of users that could not be read, or AddUser with the name of an         *)
(* administrator, whose record it replaces.                                *)
AdminRemains == excuses = {} /\ Exist # {} => Admins # {}

(* A request in progress under the admin API is one of an administrator,   *)
(* however old the token is and whatever became of the account since,      *)
(* unless the accounts changed after the request was let in.               *)
RevokedCannotAct ==
    \A q \in UserRequests :
        ureq[q] # NoRequest => role[ureq[q].by] = Admin \/ ureq[q].overtaken
=============================================================================
