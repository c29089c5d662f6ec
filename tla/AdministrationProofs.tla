------------------------ MODULE AdministrationProofs ------------------------
(***************************************************************************)
(* Proofs about what the server keeps in its database: Accounts,           *)
(* Directory, Backup and Billing, for any sets of users, requests,         *)
(* cameras, tags and folders, any retention and any length of a run.       *)
(***************************************************************************)
EXTENDS Accounts, Directory, Backup, Billing, FiniteSetTheorems, TLAPS

(* Zenon proves what is first-order; the leaves with arithmetic, sequences *)
(* or records name the SMT solver.                                         *)
USE ZenonT(30)

----------------------------------------------------------------------------
(* Accounts.                                                               *)

(* A request that read the accounts, and has not been made stale since,    *)
(* knows what they hold: it counts because its user is an administrator,   *)
(* and it saves a lower role only where another administrator is left.     *)
ReadStillHolds(q) ==
    /\ ureq[q].pc = "count" /\ ~ureq[q].stale => role[ureq[q].user] = Admin
    /\ ureq[q].pc = "save" /\ ~ureq[q].stale /\ ~ureq[q].blind /\ ureq[q].role # Admin =>
          role[ureq[q].user] # Admin \/ \E a \in Users : a # ureq[q].user /\ role[a] = Admin

(* Requests live in a process.  Until an administrator was removed without *)
(* a check there is one, or there is nothing at all.                       *)
AccountsInv ==
    /\ AccountsTypeOK
    /\ \A q \in UserRequests : ureq[q] # NoRequest => up
    /\ \A q \in UserRequests : ureq[q] # NoRequest => ReadStillHolds(q)
    /\ excuses = {} =>
          \/ \E a \in Users : role[a] = Admin
          \/ /\ \A u \in Users : role[u] = NoUser
             /\ logins = {} /\ tokens = {}
             /\ \A q \in UserRequests : ureq[q] = NoRequest
    /\ RevokedCannotAct

LEMMA IdleRequest ==
    ASSUME NEW r \in {NoRequest} \cup AdmittedRequests \cup ReadRequests
    PROVE  /\ r.pc = "idle" <=> r = NoRequest
           /\ r.pc = "admitted" <=> r \in AdmittedRequests
           /\ r.pc \in {"count", "save"} <=> r \in ReadRequests
BY SMTT(20) DEF NoRequest, AdmittedRequests, ReadRequests

(* What the transaction of another request does to a request.              *)
LEMMA Marked ==
    ASSUME NEW r \in AdmittedRequests \cup ReadRequests, NEW b \in BOOLEAN
    PROVE  LET n == Mark(r, b)
           IN
           /\ n \in AdmittedRequests \cup ReadRequests
           /\ n.pc = r.pc /\ n.by = r.by
           /\ n.overtaken = (r.overtaken \/ b) /\ n.stale = (r.stale \/ b)
           /\ r \in ReadRequests => n.blind = r.blind /\ n.user = r.user /\ n.role = r.role
<1>1. CASE r \in AdmittedRequests
  BY <1>1 DEF AdmittedRequests, ReadRequests, Mark
<1>2. CASE r \in ReadRequests
  BY <1>2 DEF AdmittedRequests, ReadRequests, Mark
<1>3. QED
  BY <1>1, <1>2

(* Two administrators are one beside any user.                             *)
LEMMA AnotherAdmin ==
    ASSUME NEW u \in Users, Cardinality(Admins) > 1
    PROVE  \E a \in Users : a # u /\ role[a] = Admin
<1>1. SUFFICES ASSUME \A a \in Users : a # u => role[a] # Admin
               PROVE  FALSE
  OBVIOUS
<1>2. Admins = {} \/ Admins = {u}
  BY <1>1 DEF Admins
<1>3. Cardinality(Admins) \in {0, 1}
  BY <1>2, FS_EmptySet, FS_Singleton
<1>4. QED
  BY <1>3, SMTT(20)

(* A transaction keeps the invariant if it has an excuse, or leaves an     *)
(* administrator beside the one it removes.                                *)
LEMMA CommitKeepsInv ==
    ASSUME AccountsInv,
           NEW q \in UserRequests, ureq[q] # NoRequest,
           NEW u \in Users, NEW r \in Roles \cup {NoUser},
           NEW excuse \in SUBSET {"replaced", "stale", "blind"},
           CommitUser(q, u, r, excuse),
           role[u] = Admin /\ r # Admin /\ excuse = {} =>
               \E a \in Users : a # u /\ role[a] = Admin
    PROVE  AccountsInv'
<1> DEFINE changes == r # role[u]
<1> USE DEF AccountsInv
<1>1. /\ role' = [role EXCEPT ![u] = r]
      /\ ureq' = [o \in UserRequests |->
                    IF o = q \/ ureq[o] = NoRequest THEN NoRequest
                    ELSE Mark(ureq[o], r # role[u])]
      /\ excuses' = IF role[u] = Admin /\ r # Admin THEN excuses \cup excuse ELSE excuses
      /\ UNCHANGED <<up, logins, tokens>>
  BY DEF CommitUser
<1>2. ASSUME NEW o \in UserRequests, ureq'[o] # NoRequest
      PROVE  /\ ureq[o] # NoRequest /\ ureq[o] \in AdmittedRequests \cup ReadRequests
             /\ ureq'[o] \in AdmittedRequests \cup ReadRequests
             /\ ureq'[o].pc = ureq[o].pc /\ ureq'[o].by = ureq[o].by
             /\ ureq'[o].overtaken = (ureq[o].overtaken \/ changes)
             /\ ureq'[o].stale = (ureq[o].stale \/ changes)
             /\ ureq[o] \in ReadRequests =>
                   /\ ureq'[o].blind = ureq[o].blind
                   /\ ureq'[o].user = ureq[o].user
                   /\ ureq'[o].role = ureq[o].role
  <2>1. ureq[o] # NoRequest /\ ureq'[o] = Mark(ureq[o], changes)
    BY <1>1, <1>2
  <2>2. ureq[o] \in AdmittedRequests \cup ReadRequests
    BY <2>1 DEF AccountsTypeOK
  <2>3. changes \in BOOLEAN
    OBVIOUS
  <2> HIDE DEF changes
  <2>4. QED
    BY ONLY <2>1, <2>2, <2>3, Marked
<1>3. AccountsTypeOK'
  <2>1. ureq' \in [UserRequests -> {NoRequest} \cup AdmittedRequests \cup ReadRequests]
    BY <1>1, <1>2
  <2>2. /\ role' \in [Users -> Roles \cup {NoUser}]
        /\ up' \in BOOLEAN
        /\ logins' \subseteq Users \X Roles /\ tokens' \subseteq Users \X Roles
        /\ excuses' \subseteq {"replaced", "stale", "blind"}
    BY <1>1 DEF AccountsTypeOK
  <2>3. QED
    BY <2>1, <2>2 DEF AccountsTypeOK
<1>4. \A o \in UserRequests : ureq'[o] # NoRequest => up'
  BY <1>1, <1>2
<1>5. ~changes => role' = role
  BY <1>1 DEF AccountsTypeOK
<1>6. ASSUME NEW o \in UserRequests, ureq'[o] # NoRequest
      PROVE  ReadStillHolds(o)'
  <2>1. CASE changes
    BY <2>1, <1>2, <1>6 DEF ReadStillHolds
  <2>2. CASE ~changes
    <3>1. ureq'[o].pc \in {"count", "save"} => ureq[o] \in ReadRequests
      BY <1>2, <1>6, IdleRequest
    <3>2. ReadStillHolds(o)
      BY <1>2, <1>6
    <3>3. ureq'[o].stale = ureq[o].stale
      BY <2>2, <1>2, <1>6, SMTT(20) DEF AdmittedRequests, ReadRequests
    <3>4. QED
      BY <2>2, <1>2, <1>5, <1>6, <3>1, <3>2, <3>3, SMTT(20) DEF ReadStillHolds
  <2>3. QED
    BY <2>1, <2>2
<1>7. excuses' = {} => \E a \in Users : role'[a] = Admin
  <2>1. SUFFICES ASSUME excuses' = {}
                 PROVE  \E a \in Users : role'[a] = Admin
    OBVIOUS
  <2>2. excuses = {} /\ (role[u] = Admin /\ r # Admin => excuse = {})
    BY <2>1, <1>1
  <2>3. PICK a \in Users : role[a] = Admin
    BY <2>2
  <2>4. CASE a # u
    BY <2>3, <2>4, <1>1 DEF AccountsTypeOK
  <2>5. CASE a = u /\ r = Admin
    BY <2>5, <1>1 DEF AccountsTypeOK
  <2>6. CASE a = u /\ r # Admin
    <3>1. PICK b \in Users : b # u /\ role[b] = Admin
      BY <2>2, <2>3, <2>6
    <3>2. QED
      BY <3>1, <1>1 DEF AccountsTypeOK
  <2>7. QED
    BY <2>4, <2>5, <2>6
<1>8. RevokedCannotAct'
  <2>1. SUFFICES ASSUME NEW o \in UserRequests, ureq'[o] # NoRequest
                 PROVE  role'[ureq'[o].by] = Admin \/ ureq'[o].overtaken
    BY DEF RevokedCannotAct
  <2>2. role[ureq[o].by] = Admin \/ ureq[o].overtaken
    BY <1>2, <2>1 DEF RevokedCannotAct
  <2>3. QED
    BY <1>2, <1>5, <2>1, <2>2
<1>9. QED
  BY <1>3, <1>4, <1>6, <1>7, <1>8

(* A step in which request q goes on, or ends, and the accounts stay.      *)
LEMMA GoingOnKeepsInv ==
    ASSUME AccountsInv,
           NEW q \in UserRequests,
           NEW n \in {NoRequest} \cup AdmittedRequests \cup ReadRequests,
           ureq' = [ureq EXCEPT ![q] = n], AccountsKept,
           n # NoRequest =>
              /\ up /\ ReadStillHolds(q)'
              /\ role[n.by] = Admin \/ n.overtaken,
           n # NoRequest /\ excuses = {} => \E a \in Users : role[a] = Admin
    PROVE  AccountsInv'
<1> USE DEF AccountsInv, AccountsKept
<1>1. /\ ureq'[q] = n
      /\ \A o \in UserRequests \ {q} : ureq'[o] = ureq[o]
  BY DEF AccountsTypeOK
<1>2. AccountsTypeOK'
  BY DEF AccountsTypeOK
<1>3. \A o \in UserRequests : ureq'[o] # NoRequest => up'
  BY <1>1
<1>4. ASSUME NEW o \in UserRequests, ureq'[o] # NoRequest
      PROVE  ReadStillHolds(o)'
  BY <1>1, <1>4, SMTT(20) DEF ReadStillHolds
<1>5. RevokedCannotAct'
  BY <1>1, SMTT(20) DEF RevokedCannotAct
<1>6. excuses' = {} =>
          \/ \E a \in Users : role'[a] = Admin
          \/ /\ \A u \in Users : role'[u] = NoUser
             /\ logins' = {} /\ tokens' = {}
             /\ \A o \in UserRequests : ureq'[o] = NoRequest
  BY <1>1
<1>7. QED
  BY <1>2, <1>3, <1>4, <1>5, <1>6

LEMMA AccountsInitInv == AccountsInit => AccountsInv
BY AccountsAssumption DEF AccountsInit, AccountsInv, AccountsTypeOK, RevokedCannotAct

LEMMA AccountsNextInv == AccountsInv /\ [AccountsNext]_accountVars => AccountsInv'
<1> SUFFICES ASSUME AccountsInv, [AccountsNext]_accountVars
             PROVE  AccountsInv'
  OBVIOUS
<1>a. ASSUME NEW q \in UserRequests, ureq[q] # NoRequest
      PROVE  /\ up /\ ReadStillHolds(q)
             /\ role[ureq[q].by] = Admin \/ ureq[q].overtaken
             /\ excuses = {} => \E a \in Users : role[a] = Admin
             /\ ureq[q] \in AdmittedRequests \cup ReadRequests
  BY <1>a DEF AccountsInv, RevokedCannotAct, AccountsTypeOK
<1>b. AccountsTypeOK
  BY DEF AccountsInv
<1>1. CASE NewLocalAuthenticator
  <2>1. \A q \in UserRequests : ureq'[q] = NoRequest
    BY <1>1, <1>a DEF NewLocalAuthenticator
  <2>2. AccountsTypeOK'
    BY <1>1, AccountsAssumption DEF NewLocalAuthenticator, AccountsInv, AccountsTypeOK
  <2>3. excuses' = {} =>
            \/ \E a \in Users : role'[a] = Admin
            \/ /\ \A u \in Users : role'[u] = NoUser
               /\ logins' = {} /\ tokens' = {}
               /\ \A o \in UserRequests : ureq'[o] = NoRequest
    BY <1>1, AccountsAssumption DEF NewLocalAuthenticator, AccountsInv, AccountsTypeOK, Exist
  <2>4. QED
    BY <2>1, <2>2, <2>3 DEF AccountsInv, RevokedCannotAct
<1>2. CASE ProcessStops
  <2>1. \A q \in UserRequests : ureq'[q] = NoRequest
    BY <1>2 DEF ProcessStops
  <2>2. AccountsTypeOK'
    BY <1>2 DEF ProcessStops, AccountsInv, AccountsTypeOK
  <2>3. QED
    BY <1>2, <2>1, <2>2 DEF ProcessStops, AccountsInv, RevokedCannotAct
<1>3. ASSUME NEW u \in Users, LoginReads(u)
      PROVE  AccountsInv'
  <2>1. AccountsTypeOK'
    BY <1>3, SMTT(20) DEF LoginReads, AccountsInv, AccountsTypeOK, Exist
  <2>2. excuses' = {} => \E a \in Users : role'[a] = Admin
    BY <1>3 DEF LoginReads, AccountsInv, Exist
  <2>3. QED
    BY <1>3, <2>1, <2>2 DEF LoginReads, AccountsInv, ReadStillHolds, RevokedCannotAct
<1>4. ASSUME NEW t \in logins, NEW ok \in BOOLEAN, LoginEnds(t, ok)
      PROVE  AccountsInv'
  <2>1. AccountsTypeOK'
    BY <1>4 DEF LoginEnds, AccountsInv, AccountsTypeOK
  <2>2. QED
    BY <1>4, <2>1 DEF LoginEnds, AccountsInv, ReadStillHolds, RevokedCannotAct
<1>5. ASSUME NEW t \in tokens, TokenExpires(t)
      PROVE  AccountsInv'
  <2>1. AccountsTypeOK'
    BY <1>5 DEF TokenExpires, AccountsInv, AccountsTypeOK
  <2>2. QED
    BY <1>5, <2>1 DEF TokenExpires, AccountsInv, ReadStillHolds, RevokedCannotAct
<1>6. ASSUME NEW q \in UserRequests, NEW t \in tokens, Middleware(q, t)
      PROVE  AccountsInv'
  <2>1. t[1] \in Users
    BY <1>b DEF AccountsTypeOK
  <2>2. /\ Admitted(t[1]) \in AdmittedRequests /\ Admitted(t[1]) # NoRequest
        /\ Admitted(t[1]).by = t[1] /\ Admitted(t[1]).pc = "admitted"
    BY <2>1 DEF Admitted, AdmittedRequests, NoRequest
  <2>3. /\ ureq' = [ureq EXCEPT ![q] = Admitted(t[1])] /\ AccountsKept
        /\ up /\ role[t[1]] = Admin
    BY <1>6 DEF Middleware, AccountsKept
  <2>4. ureq'[q] = Admitted(t[1])
    BY <2>3, <1>b DEF AccountsTypeOK
  <2>5. ReadStillHolds(q)'
    BY <2>2, <2>4 DEF ReadStillHolds
  <2>6. QED
    BY <2>1, <2>2, <2>3, <2>5, GoingOnKeepsInv
<1>7. ASSUME NEW q \in UserRequests, NEW u \in Users, NEW r \in Roles, AddUser(q, u, r)
      PROVE  AccountsInv'
  <2>1. ureq[q] # NoRequest /\ CommitUser(q, u, r, {"replaced"})
    BY <1>7, SMTT(20) DEF AddUser, NoRequest
  <2>2. QED
    BY <2>1, CommitKeepsInv
<1>8. ASSUME NEW q \in UserRequests, NEW u \in Users, NEW r \in Roles \cup {Same, NoUser},
             ReadUser(q, u, r)
      PROVE  AccountsInv'
  <2> DEFINE n == [pc |-> IF role[u] = Admin /\ r \notin {Same, Admin} THEN "count" ELSE "save",
                   by |-> ureq[q].by, overtaken |-> ureq[q].overtaken, stale |-> FALSE,
                   blind |-> FALSE, user |-> u, role |-> IF r = Same THEN role[u] ELSE r]
  <2>1. ureq[q].pc = "admitted" /\ ureq[q] # NoRequest /\ AccountsKept
    BY <1>8, SMTT(20) DEF ReadUser, NoRequest
  <2>2. CASE u \notin Exist
    <3>1. ureq' = [ureq EXCEPT ![q] = NoRequest]
      BY <1>8, <2>2 DEF ReadUser
    <3>2. QED
      BY <2>1, <3>1, GoingOnKeepsInv
  <2>3. CASE u \in Exist
    <3>1. ureq' = [ureq EXCEPT ![q] = n]
      BY <1>8, <2>3 DEF ReadUser
    <3>2. ureq[q].by \in Users /\ ureq[q].overtaken \in BOOLEAN
      BY <2>1, <1>a, IdleRequest DEF AdmittedRequests
    <3>3. role[u] \in Roles \cup {NoUser}
      BY <1>b DEF AccountsTypeOK
    <3>4. n \in ReadRequests
      BY <3>2, <3>3 DEF ReadRequests
    <3>5. n # NoRequest
      BY DEF NoRequest
    <3>6. ureq'[q] = n
      BY <3>1, <1>b DEF AccountsTypeOK
    <3>7. role' = role
      BY <2>1 DEF AccountsKept
    <3>8. ReadStillHolds(q)'
      BY <3>6, <3>7, SMTT(20) DEF ReadStillHolds
    <3>9. up /\ (role[n.by] = Admin \/ n.overtaken)
      BY <2>1, <1>a
    <3> HIDE DEF n
    <3>10. QED
      BY <2>1, <1>a, <3>1, <3>4, <3>5, <3>8, <3>9, GoingOnKeepsInv
  <2>4. QED
    BY <2>2, <2>3
<1>9. ASSUME NEW q \in UserRequests, CountAdmins(q)
      PROVE  AccountsInv'
  <2>1. ureq[q] \in ReadRequests /\ ureq[q] # NoRequest /\ AccountsKept /\ ureq[q].pc = "count"
    BY <1>9, <1>a, IdleRequest DEF CountAdmins, NoRequest
  <2>2. role' = role
    BY <2>1 DEF AccountsKept
  <2>3. CASE ureq' = [ureq EXCEPT ![q] = NoRequest]
    BY <2>1, <2>3, GoingOnKeepsInv
  <2>4. ASSUME NEW blind \in BOOLEAN, ToSave(q, blind), Cardinality(Admins) > 1 \/ blind
        PROVE  AccountsInv'
    <3> DEFINE n == [ureq[q] EXCEPT !.pc = "save", !.blind = blind]
    <3>1. /\ n \in ReadRequests /\ n.pc = "save" /\ n.by = ureq[q].by
          /\ n.overtaken = ureq[q].overtaken /\ n.blind = blind
          /\ n.user = ureq[q].user /\ n.user \in Users
      BY <2>1 DEF ReadRequests
    <3>2. n # NoRequest
      BY <3>1 DEF NoRequest
    <3>3. ureq'[q] = n
      BY <2>4, <1>b DEF AccountsTypeOK, ToSave
    <3>4. ~blind => \E a \in Users : a # n.user /\ role[a] = Admin
      BY <2>4, <3>1, AnotherAdmin
    <3> HIDE DEF n
    <3>5. ReadStillHolds(q)'
      BY <2>2, <3>1, <3>3, <3>4 DEF ReadStillHolds
    <3>6. up /\ (role[n.by] = Admin \/ n.overtaken)
      BY <2>1, <1>a, <3>1
    <3>7. ureq' = [ureq EXCEPT ![q] = n]
      BY <2>4 DEF n, ToSave
    <3>8. QED
      BY <2>1, <1>a, <3>1, <3>2, <3>5, <3>6, <3>7, GoingOnKeepsInv
  <2>5. QED
    BY <1>9, <2>3, <2>4 DEF CountAdmins
<1>10. ASSUME NEW q \in UserRequests, SaveUser(q)
       PROVE  AccountsInv'
  <2> DEFINE excuse == (IF ureq[q].stale THEN {"stale"} ELSE {})
                          \cup (IF ureq[q].blind THEN {"blind"} ELSE {})
  <2>1. /\ ureq[q] \in ReadRequests /\ ureq[q] # NoRequest /\ ureq[q].pc = "save"
        /\ CommitUser(q, ureq[q].user, ureq[q].role, excuse)
    BY <1>10, <1>a, IdleRequest DEF SaveUser, NoRequest
  <2>2. ureq[q].user \in Users /\ ureq[q].role \in Roles \cup {NoUser}
    BY <2>1 DEF ReadRequests
  <2>3. excuse \in SUBSET {"replaced", "stale", "blind"}
    OBVIOUS
  <2>4. role[ureq[q].user] = Admin /\ ureq[q].role # Admin /\ excuse = {} =>
            \E a \in Users : a # ureq[q].user /\ role[a] = Admin
    BY <2>1, <1>a DEF ReadStillHolds
  <2> HIDE DEF excuse
  <2>5. QED
    BY <2>1, <2>2, <2>3, <2>4, CommitKeepsInv
<1>11. ASSUME NEW q \in UserRequests, RequestFails(q)
       PROVE  AccountsInv'
  BY <1>11, GoingOnKeepsInv DEF RequestFails
<1>12. CASE UNCHANGED accountVars
  BY <1>12 DEF accountVars, AccountsInv, AccountsTypeOK, ReadStillHolds, RevokedCannotAct
<1>13. QED
  BY <1>1, <1>2, <1>3, <1>4, <1>5, <1>6, <1>7, <1>8, <1>9, <1>10, <1>11, <1>12 DEF AccountsNext

(* Whatever requests do at the same time, and whenever the process stops:  *)
(* without one of the three accidents there is an administrator as long as *)
(* there are accounts.                                                     *)
THEOREM AdministratorRemains == AccountsSpec => []AdminRemains
<1>1. AccountsInv => AdminRemains
  BY DEF AccountsInv, AdminRemains, Admins, Exist
<1>2. QED
  BY AccountsInitInv, AccountsNextInv, <1>1, PTL DEF AccountsSpec

(* No token lets a request in that its user's account, as it is then, does *)
(* not allow.                                                              *)
THEOREM RevocationHolds == AccountsSpec => []RevokedCannotAct
<1>1. AccountsInv => RevokedCannotAct
  BY DEF AccountsInv
<1>2. QED
  BY AccountsInitInv, AccountsNextInv, <1>1, PTL DEF AccountsSpec

----------------------------------------------------------------------------
(* Backup.                                                                 *)

(* The last backup that succeeded is not on the list of what is too old,   *)
(* and its name is none that a later backup can take.                      *)
Keeper(f) ==
    /\ f.whole /\ f.modTime = succeeded
    /\ f \notin old
    /\ f.name <= begun
    /\ worker = "writes" => f.name # begun

BackupInv ==
    /\ BackupTypeOK
    /\ begun <= clock
    /\ succeeded # Never => \E f \in bakFiles : Keeper(f)

LEMMA BackupInitInv == BackupInit => BackupInv
BY SMTT(20) DEF BackupInit, BackupInv, BackupTypeOK, BakFile

LEMMA BackupNextInv == BackupInv /\ [BackupNext]_backupVars => BackupInv'
<1> SUFFICES ASSUME BackupInv, [BackupNext]_backupVars
             PROVE  BackupInv'
  OBVIOUS
<1> USE BackupAssumption DEF BackupInv, BackupTypeOK, Keeper
<1>1. CASE TimePasses
  BY <1>1, SMTT(20) DEF TimePasses
<1>2. CASE RunWorker
  <2>1. \A f \in bakFiles : Keeper(f) => Keeper(f)'
    BY <1>2, SMTT(20) DEF RunWorker, BakFile
  <2>2. QED
    BY <1>2, <2>1, SMTT(20) DEF RunWorker
<1>3. CASE WorkerStops
  BY <1>3 DEF WorkerStops
<1>4. CASE DoBackup
  <2>1. CASE UNCHANGED <<bakFiles, worker>>
    <3>1. \A f \in bakFiles : Keeper(f) => Keeper(f)'
      BY <1>4, <2>1, SMTT(20) DEF DoBackup, BakFile
    <3>2. QED
      BY <1>4, <2>1, <3>1, SMTT(20) DEF DoBackup
  <2>2. CASE /\ bakFiles' = {f \in bakFiles : f.name # clock}
                               \cup {[name |-> clock, modTime |-> clock, whole |-> FALSE]}
             /\ worker' = "writes"
    <3>1. bakFiles' \subseteq BakFile
      <4>1. [name |-> clock, modTime |-> clock, whole |-> FALSE] \in BakFile
        BY DEF BakFile
      <4>2. QED
        BY <2>2, <4>1
    <3>2. \A f \in bakFiles : Keeper(f) => f \in bakFiles' /\ Keeper(f)'
      BY <1>4, <2>2, SMTT(20) DEF DoBackup, BakFile
    <3>3. QED
      BY <1>4, <2>2, <3>1, <3>2, SMTT(20) DEF DoBackup
  <2>3. QED
    BY <1>4, <2>1, <2>2 DEF DoBackup
<1>5. CASE BackupFails
  BY <1>5 DEF BackupFails
<1>6. CASE BackupSucceeds
  <2>0. [name |-> begun, modTime |-> clock, whole |-> TRUE] \in BakFile
    BY DEF BakFile
  <2>1. PICK new \in BakFile : new = [name |-> begun, modTime |-> clock, whole |-> TRUE]
    BY <2>0
  <2>2. /\ bakFiles' = {f \in bakFiles : f.name # begun} \cup {new}
        /\ succeeded' = clock /\ worker' = "cleans" /\ UNCHANGED <<clock, begun>>
        /\ old' = IF Retention = 0 THEN {} ELSE {f \in bakFiles' : f.modTime < clock - Retention}
    BY <1>6, <2>1 DEF BackupSucceeds
  <2>3. new \notin old'
    BY <2>1, <2>2, SMTT(20)
  <2>4. Keeper(new)' /\ new \in bakFiles'
    BY <2>1, <2>2, <2>3, SMTT(20)
  <2>5. bakFiles' \subseteq BakFile /\ old' \subseteq BakFile
    BY <2>1, <2>2
  <2>6. QED
    BY <2>2, <2>4, <2>5
<1>7. ASSUME NEW g \in old, RemoveOld(g)
      PROVE  BackupInv'
  <2>1. \A f \in bakFiles : Keeper(f) => f \in bakFiles' /\ Keeper(f)'
    BY <1>7 DEF RemoveOld
  <2>2. QED
    BY <1>7, <2>1 DEF RemoveOld
<1>8. CASE CleanupEnds
  BY <1>8 DEF CleanupEnds
<1>9. CASE UNCHANGED backupVars
  BY <1>9 DEF backupVars
<1>10. QED
  BY <1>1, <1>2, <1>3, <1>4, <1>5, <1>6, <1>7, <1>8, <1>9 DEF BackupNext

(* Neither a failed backup, nor a crash, nor retention takes the last good *)
(* backup away.                                                            *)
THEOREM LastBackupKept == BackupSpec => []BackupKept
<1>1. BackupInv => BackupKept
  BY DEF BackupInv, BackupKept, Keeper
<1>2. QED
  BY BackupInitInv, BackupNextInv, <1>1, PTL DEF BackupSpec

----------------------------------------------------------------------------
(* Directory.                                                              *)

Ids == Tags \cup Folders
CameraRecords == [DirCameras -> Refs \cup {NoRecord}]
CleanRequests == [pc : {"clean"}, id : Ids, left : SUBSET DirCameras]
ListsRequests == [pc : {"lists"}, tags : SUBSET Tags, folders : SUBSET Folders, gone : SUBSET Ids]

(* What a request r knows.  The lists it read are those of now but for the *)
(* ids it notes as gone.                                                   *)
RequestSound(r) ==
    /\ r.pc \in {"save", "list"} => r.id \in Ids
    /\ r.pc = "clean" => r \in CleanRequests
    /\ r.pc = "lists" => r \in ListsRequests /\ r.tags \cup r.folders \subseteq Defined \cup r.gone
    /\ r.pc \in {"exportTags", "exportFolders"} => r.cams \in CameraRecords
    /\ r.pc = "exportFolders" => r.tags \subseteq Tags

BackupSound ==
    backup # NoBackup =>
        backup.cams \in CameraRecords /\ backup.tags \subseteq Tags /\ backup.folders \subseteq Folders

DirInv ==
    /\ DirTypeOK
    /\ dreq = [q \in DirRequests |-> dreq[q]]
    /\ \A q \in DirRequests : RequestSound(dreq[q])
    /\ BackupSound
    /\ RefsResolve

(* A deletion q will take id out of camera c.                              *)
Covers(q, c, id) ==
    \/ dreq[q].pc = "list" /\ dreq[q].id = id
    \/ dreq[q].pc = "clean" /\ dreq[q].id = id /\ c \in dreq[q].left

LEMMA IdsOfRecord ==
    ASSUME NEW rec \in Refs \cup {NoRecord}
    PROVE  /\ IdsOf(rec) \subseteq Ids
           /\ rec # NoRecord => rec.tags \subseteq Tags /\ rec.folder \in Folders \cup {NoFolder}
BY DirectoryAssumption DEF IdsOf, Refs, Ids

(* A request that reads, or ends after the reading, leaves nothing behind. *)
LEMMA ReadingKeepsInv ==
    ASSUME DirInv, NEW q \in DirRequests, NEW r,
           dreq[q].pc \notin {"list", "clean"},
           SetReq(q, r), RequestSound(r)',
           UNCHANGED <<tags, folders, cams, config, broken>>,
           BackupSound'
    PROVE  DirInv'
<1> USE DEF DirInv, SetReq
<1>1. /\ dreq'[q] = r
      /\ \A o \in DirRequests \ {q} : dreq'[o] = dreq[o]
      /\ dreq' = [o \in DirRequests |-> dreq'[o]]
  OBVIOUS
<1>2. Defined' = Defined
  BY DEF Defined
<1>3. \A o \in DirRequests : RequestSound(dreq[o])'
  BY <1>1, <1>2 DEF RequestSound
<1>4. RefsResolve'
  BY <1>1, <1>2, SMTT(20) DEF RefsResolve
<1>5. DirTypeOK'
  BY DEF DirTypeOK
<1>6. QED
  BY <1>1, <1>3, <1>4, <1>5

(* More records, other references in the cameras: what is referred to must *)
(* be there, be an accident's, or have been there and be covered before.   *)
LEMMA RecordsKeepInv ==
    ASSUME DirInv,
           DirTypeOK', UNCHANGED <<backup, dreq>>, Defined \subseteq Defined', broken \subseteq broken',
           \A c \in DirCameras :
               IdsOf(cams'[c]) \subseteq IdsOf(cams[c]) \cup Defined' \cup broken'
    PROVE  DirInv'
<1> USE DEF DirInv
<1>1. \A o \in DirRequests : RequestSound(dreq[o])'
  BY DEF RequestSound
<1>2. RefsResolve'
  BY SMTT(20) DEF RefsResolve
<1>3. BackupSound'
  BY DEF BackupSound
<1>4. QED
  BY <1>1, <1>2, <1>3

(* A record goes, and its deletion begins.                                 *)
LEMMA DroppingKeepsInv ==
    ASSUME DirInv, NEW q \in DirRequests, NEW id \in Ids,
           DropRecord(q, id), Defined' = Defined \ {id}, DirTypeOK'
    PROVE  DirInv'
<1> USE DEF DirInv
<1>1. /\ dreq[q] = DirIdle /\ UNCHANGED <<cams, config, backup, broken>>
      /\ dreq' = [o \in DirRequests |-> IF o = q THEN [pc |-> "list", id |-> id]
                    ELSE IF dreq[o].pc = "lists" /\ id \in dreq[o].tags \cup dreq[o].folders
                           THEN WithGone(dreq[o], id)
                    ELSE dreq[o]]
  BY DEF DropRecord, Forget
<1>2. ASSUME NEW r \in ListsRequests
      PROVE  /\ WithGone(r, id) \in ListsRequests
             /\ WithGone(r, id).pc = "lists"
             /\ WithGone(r, id).tags = r.tags /\ WithGone(r, id).folders = r.folders
             /\ WithGone(r, id).gone = r.gone \cup {id}
  BY DEF ListsRequests, WithGone
<1>3. ASSUME NEW o \in DirRequests
      PROVE  RequestSound(dreq[o])'
  <2>1. CASE o = q
    BY <1>1, <2>1 DEF RequestSound
  <2>2. CASE /\ o # q /\ dreq[o].pc = "lists"
             /\ id \in dreq[o].tags \cup dreq[o].folders
    <3>1. dreq'[o] = WithGone(dreq[o], id)
      BY <1>1, <2>2
    <3>2. dreq[o] \in ListsRequests /\ dreq[o].tags \cup dreq[o].folders \subseteq Defined \cup dreq[o].gone
      BY <2>2 DEF RequestSound
    <3>3. QED
      BY <1>2, <3>1, <3>2, SMTT(20) DEF RequestSound
  <2>3. CASE o # q /\ ~(dreq[o].pc = "lists" /\ id \in dreq[o].tags \cup dreq[o].folders)
    <3>1. dreq'[o] = dreq[o]
      BY <1>1, <2>3
    <3>2. QED
      BY <2>3, <3>1 DEF RequestSound
  <2>4. QED
    BY <2>1, <2>2, <2>3
<1>4. RefsResolve'
  <2>1. SUFFICES ASSUME NEW c \in DirCameras, NEW i \in IdsOf(cams[c]) \ (Defined' \cup broken)
                 PROVE  \E o \in DirRequests : Covers(o, c, i)'
    BY <1>1, SMTT(20) DEF RefsResolve, Covers
  <2>2. CASE i = id
    BY <1>1, <2>2 DEF Covers
  <2>3. CASE i # id
    <3>1. PICK o \in DirRequests : Covers(o, c, i)
      BY <2>1, <2>3 DEF RefsResolve, Covers
    <3>2. o # q /\ dreq[o].pc # "lists"
      BY <1>1, <3>1, SMTT(20) DEF Covers, DirIdle
    <3>3. dreq'[o] = dreq[o]
      BY <1>1, <3>2
    <3>4. QED
      BY <3>1, <3>3 DEF Covers
  <2>4. QED
    BY <2>2, <2>3
<1>5. BackupSound'
  BY <1>1 DEF BackupSound
<1>6. QED
  BY <1>1, <1>3, <1>4, <1>5

LEMMA DirInitInv == DirInit => DirInv
<1> SUFFICES ASSUME DirInit
             PROVE  DirInv
  OBVIOUS
<1>1. DirTypeOK
  BY DEF DirInit, DirTypeOK
<1>2. \A q \in DirRequests : RequestSound(dreq[q])
  BY DEF DirInit, RequestSound, DirIdle
<1>3. RefsResolve
  BY DEF DirInit, RefsResolve, IdsOf
<1>4. QED
  BY <1>1, <1>2, <1>3 DEF DirInv, DirInit, BackupSound

LEMMA MigrateKeepsInv ==
    ASSUME DirInv, NEW saved \in BOOLEAN, Migrate(saved)
    PROVE  DirInv'
<1> USE DEF DirInv
<1> DEFINE new == [tags |-> config.tags, folder |-> NoFolder]
<1>1. config.cams \subseteq DirCameras /\ config.tags \subseteq Tags
  BY DirectoryAssumption, SMTT(20) DEF DirTypeOK, Cleaned
<1>2. new \in Refs /\ new # NoRecord /\ IdsOf(new) = config.tags
  BY <1>1, DirectoryAssumption, SMTT(20) DEF Refs, IdsOf
<1>3. /\ cams' = IF KnownCameras = {}
                   THEN [c \in DirCameras |-> IF c \in config.cams THEN new ELSE NoRecord]
                   ELSE cams
      /\ tags' = IF tags = {} THEN config.tags ELSE tags
      /\ config' = IF saved THEN Cleaned ELSE config
      /\ dreq' = [q \in DirRequests |-> DirIdle]
      /\ UNCHANGED <<folders, backup>>
      /\ broken' = broken \cup {dreq[q].id : q \in {p \in DirRequests : dreq[p].pc \in {"list", "clean"}}}
                           \cup (IF KnownCameras = {} /\ tags # {} THEN config.tags \ tags ELSE {})
  BY DEF Migrate
<1> HIDE DEF new
<1>4. \A q \in DirRequests : dreq[q].pc \in {"list", "clean"} => dreq[q].id \in Ids
  BY DEF RequestSound, CleanRequests
<1>5. DirTypeOK'
  <2>1. cams' \in [DirCameras -> Refs \cup {NoRecord}]
    BY <1>2, <1>3 DEF DirTypeOK
  <2>2. broken' \subseteq Tags \cup Folders
    BY <1>1, <1>3, <1>4 DEF DirTypeOK, Ids
  <2>3. tags' \subseteq Tags /\ folders' \subseteq Folders /\ config' \in {Config, Cleaned}
    BY <1>1, <1>3 DEF DirTypeOK
  <2>4. QED
    BY <2>1, <2>2, <2>3 DEF DirTypeOK
<1>6. \A q \in DirRequests : RequestSound(dreq[q])'
  BY <1>3 DEF RequestSound, DirIdle
<1>7. RefsResolve'
  <2>1. ASSUME NEW c \in DirCameras
        PROVE  IdsOf(cams'[c]) \subseteq Defined' \cup broken'
    <3>1. CASE KnownCameras = {}
      <4>1. cams'[c] = new \/ cams'[c] = NoRecord
        BY <1>3, <3>1
      <4>2. IdsOf(cams'[c]) \subseteq config.tags
        BY <1>2, <4>1 DEF IdsOf
      <4>3. config.tags \subseteq tags' \cup broken'
        BY <1>3, <3>1
      <4>4. QED
        BY <4>2, <4>3 DEF Defined
    <3>2. CASE KnownCameras # {}
      <4>1. cams' = cams /\ Defined \subseteq Defined' /\ broken \subseteq broken'
        BY <1>3, <3>2 DEF Defined
      <4>2. ASSUME NEW i \in IdsOf(cams[c]) \ (Defined \cup broken)
            PROVE  i \in broken'
        BY <1>3, <4>2, SMTT(20) DEF RefsResolve
      <4>3. QED
        BY <4>1, <4>2
    <3>3. QED
      BY <3>1, <3>2
  <2>2. QED
    BY <2>1 DEF RefsResolve
<1>8. BackupSound'
  BY <1>3 DEF BackupSound
<1>9. QED
  BY <1>3, <1>5, <1>6, <1>7, <1>8

(* The deletion takes its id out of one camera, or fails to.               *)
LEMMA CleaningKeepsInv ==
    ASSUME DirInv, NEW q \in DirRequests, NEW c \in DirCameras, CleanCamera(q, c)
    PROVE  DirInv'
<1> USE DEF DirInv
<1> DEFINE id == dreq[q].id
<1>1. /\ dreq[q] \in CleanRequests /\ id \in Ids
      /\ dreq' = [dreq EXCEPT ![q] = WithoutCamera(dreq[q], c)]
      /\ UNCHANGED <<tags, folders, config, backup>>
  BY DEF CleanCamera, RequestSound, SetReq, CleanRequests
<1>2. /\ WithoutCamera(dreq[q], c) \in CleanRequests
      /\ WithoutCamera(dreq[q], c).pc = "clean" /\ WithoutCamera(dreq[q], c).id = id
      /\ WithoutCamera(dreq[q], c).left = dreq[q].left \ {c}
  BY <1>1 DEF CleanRequests, WithoutCamera
<1>3. /\ dreq'[q] = WithoutCamera(dreq[q], c)
      /\ \A o \in DirRequests \ {q} : dreq'[o] = dreq[o]
      /\ dreq' = [o \in DirRequests |-> dreq'[o]]
  BY <1>1
<1>4. /\ cams' \in CameraRecords /\ broken \subseteq broken' /\ broken' \subseteq Ids
      /\ \A d \in DirCameras : IdsOf(cams'[d]) \subseteq IdsOf(cams[d])
      /\ id \in IdsOf(cams'[c]) => id \in broken'
  <2>1. CASE cams[c] = NoRecord /\ UNCHANGED <<cams, broken>>
    BY <2>1 DEF DirTypeOK, CameraRecords, IdsOf, Ids
  <2>2. CASE UNCHANGED cams /\ broken' = broken \cup {id}
    BY <1>1, <2>2 DEF DirTypeOK, CameraRecords, Ids
  <2>3. CASE /\ cams[c] # NoRecord /\ UNCHANGED broken
             /\ cams' = [cams EXCEPT ![c] = CleanedRecord(c, id)]
    <3>1. cams[c] \in Refs
      BY <2>3 DEF DirTypeOK
    <3>2. /\ CleanedRecord(c, id) \in Refs /\ CleanedRecord(c, id) # NoRecord
          /\ id \in Tags => /\ CleanedRecord(c, id).tags = cams[c].tags \ {id}
                            /\ CleanedRecord(c, id).folder = cams[c].folder
          /\ id \notin Tags => /\ CleanedRecord(c, id).tags = cams[c].tags
                               /\ CleanedRecord(c, id).folder = NoFolder
      BY <3>1, DirectoryAssumption, SMTT(20) DEF CleanedRecord, WithoutTag, WithoutFolder, Refs
    <3>3. cams[c].tags \subseteq Tags /\ cams[c].folder \in Folders \cup {NoFolder}
      BY <3>1 DEF Refs
    <3>4. cams'[c] = CleanedRecord(c, id) /\ \A d \in DirCameras \ {c} : cams'[d] = cams[d]
      BY <2>3 DEF DirTypeOK
    <3>5. IdsOf(cams'[c]) \subseteq IdsOf(cams[c]) /\ id \notin IdsOf(cams'[c])
      BY <1>1, <2>3, <3>2, <3>3, <3>4, DirectoryAssumption DEF IdsOf, Ids
    <3>6. cams' \in CameraRecords
      BY <2>3, <3>2 DEF DirTypeOK, CameraRecords
    <3>7. QED
      BY <2>3, <3>4, <3>5, <3>6 DEF DirTypeOK, Ids
  <2>4. QED
    BY <2>1, <2>2, <2>3 DEF CleanCamera
<1> HIDE DEF id
<1>5. DirTypeOK'
  BY <1>1, <1>4 DEF DirTypeOK, CameraRecords, Ids
<1>6. Defined' = Defined
  BY <1>1 DEF Defined
<1>7. \A o \in DirRequests : RequestSound(dreq[o])'
  BY <1>2, <1>3, <1>6 DEF RequestSound
<1>8. RefsResolve'
  <2>1. SUFFICES ASSUME NEW d \in DirCameras, NEW i \in IdsOf(cams'[d]) \ (Defined \cup broken')
                 PROVE  \E o \in DirRequests : Covers(o, d, i)'
    BY <1>6 DEF RefsResolve, Covers
  <2>2. PICK o \in DirRequests : Covers(o, d, i)
    BY <1>4, <2>1 DEF RefsResolve, Covers
  <2>3. CASE o # q
    BY <1>3, <2>2, <2>3 DEF Covers
  <2>4. CASE o = q
    <3>1. dreq[q].pc = "clean" /\ i = id /\ d \in dreq[q].left
      BY <1>1, <2>2, <2>4 DEF Covers, CleanRequests, id
    <3>2. d # c
      BY <1>4, <2>1, <3>1
    <3>3. QED
      BY <1>2, <1>3, <3>1, <3>2 DEF Covers
  <2>5. QED
    BY <2>3, <2>4
<1>9. BackupSound'
  BY <1>1 DEF BackupSound
<1>10. QED
  BY <1>3, <1>5, <1>7, <1>8, <1>9

LEMMA DirNextInv == DirInv /\ [DirNext]_dirVars => DirInv'
<1> SUFFICES ASSUME DirInv, [DirNext]_dirVars
             PROVE  DirInv'
  OBVIOUS
<1>a. DirTypeOK /\ BackupSound /\ \A q \in DirRequests : RequestSound(dreq[q])
  BY DEF DirInv
<1>b. UNCHANGED backup => BackupSound'
  BY <1>a DEF BackupSound
<1>c. RequestSound(DirIdle)'
  BY DEF RequestSound, DirIdle
<1>1. ASSUME NEW saved \in BOOLEAN, Migrate(saved)
      PROVE  DirInv'
  BY <1>1, MigrateKeepsInv
<1>2. ASSUME NEW id \in Tags, AddTag(id)
      PROVE  DirInv'
  <2>1. DirTypeOK' /\ Defined \subseteq Defined' /\ UNCHANGED <<cams, backup, dreq, broken>>
    BY <1>2, <1>a DEF AddTag, SaveTag, DirTypeOK, Defined
  <2>2. QED
    BY <2>1, RecordsKeepInv
<1>3. ASSUME NEW id \in Folders, AddFolder(id)
      PROVE  DirInv'
  <2>1. DirTypeOK' /\ Defined \subseteq Defined' /\ UNCHANGED <<cams, backup, dreq, broken>>
    BY <1>3, <1>a DEF AddFolder, SaveFolder, DirTypeOK, Defined
  <2>2. QED
    BY <2>1, RecordsKeepInv
<1>4. ASSUME NEW c \in DirCameras, DeleteCameraRecord(c)
      PROVE  DirInv'
  <2>1. /\ DirTypeOK' /\ UNCHANGED <<tags, folders, backup, dreq, broken>>
        /\ \A d \in DirCameras : cams'[d] = IF d = c THEN NoRecord ELSE cams[d]
    BY <1>4, <1>a DEF DeleteCameraRecord, DirTypeOK
  <2>2. \A d \in DirCameras : IdsOf(cams'[d]) \subseteq IdsOf(cams[d])
    BY <2>1 DEF IdsOf
  <2>3. QED
    BY <2>1, <2>2, RecordsKeepInv DEF Defined
<1>5. CASE RestoreJSON
  <2>1. /\ backup # NoBackup /\ UNCHANGED <<config, backup, dreq>>
        /\ cams' = [c \in DirCameras |-> IF backup.cams[c] = NoRecord THEN cams[c] ELSE backup.cams[c]]
        /\ tags' = tags \cup backup.tags /\ folders' = folders \cup backup.folders
        /\ broken' = broken \cup Torn(backup)
    BY <1>5 DEF RestoreJSON
  <2>2. backup.cams \in CameraRecords /\ backup.tags \subseteq Tags /\ backup.folders \subseteq Folders
    BY <2>1, <1>a DEF BackupSound
  <2>3. \A c \in DirCameras : IdsOf(backup.cams[c]) \subseteq Ids
    BY <2>2, IdsOfRecord DEF CameraRecords
  <2>4. Torn(backup) \subseteq Ids
    BY <2>3 DEF Torn
  <2>5. cams' \in [DirCameras -> Refs \cup {NoRecord}]
    BY <2>1, <2>2, <1>a DEF DirTypeOK, CameraRecords
  <2>6. DirTypeOK'
    BY <2>1, <2>2, <2>4, <2>5, <1>a DEF DirTypeOK, Ids
  <2>7. Defined \subseteq Defined' /\ broken \subseteq broken'
    BY <2>1 DEF Defined
  <2>8. ASSUME NEW c \in DirCameras
        PROVE  IdsOf(cams'[c]) \subseteq IdsOf(cams[c]) \cup Defined' \cup broken'
    <3>1. cams'[c] = cams[c] \/ cams'[c] = backup.cams[c]
      BY <2>1
    <3>2. IdsOf(backup.cams[c]) \subseteq backup.tags \cup backup.folders \cup Torn(backup)
      BY DEF Torn
    <3>3. QED
      BY <2>1, <3>1, <3>2 DEF Defined
  <2>9. QED
    BY <2>1, <2>6, <2>7, <2>8, RecordsKeepInv
<1>6. ASSUME NEW q \in DirRequests, NEW id \in Ids, GetRecord(q, id)
      PROVE  DirInv'
  <2>1. /\ dreq[q].pc = "idle" /\ SetReq(q, [pc |-> "save", id |-> id])
        /\ UNCHANGED <<tags, folders, cams, config, backup, broken>>
    BY <1>6, SMTT(20) DEF GetRecord, DirIdle
  <2>2. RequestSound([pc |-> "save", id |-> id])'
    BY DEF RequestSound
  <2>3. QED
    BY <2>1, <2>2, <1>b, ReadingKeepsInv
<1>7. ASSUME NEW q \in DirRequests, NEW id \in Tags, DeleteTag(q, id)
      PROVE  DirInv'
  <2>1. DropRecord(q, id) /\ DirTypeOK'
    BY <1>7, <1>a DEF DeleteTag, DropRecord, DirTypeOK
  <2>2. Defined' = Defined \ {id} /\ id \in Ids
    BY <1>7, <1>a, DirectoryAssumption DEF DeleteTag, Defined, DirTypeOK, Ids
  <2>3. QED
    BY <2>1, <2>2, DroppingKeepsInv
<1>8. ASSUME NEW q \in DirRequests, NEW id \in Folders, DeleteFolder(q, id)
      PROVE  DirInv'
  <2>1. DropRecord(q, id) /\ DirTypeOK'
    BY <1>8, <1>a DEF DeleteFolder, DropRecord, DirTypeOK
  <2>2. Defined' = Defined \ {id} /\ id \in Ids
    BY <1>8, <1>a, DirectoryAssumption DEF DeleteFolder, Defined, DirTypeOK, Ids
  <2>3. QED
    BY <2>1, <2>2, DroppingKeepsInv
<1>9. ASSUME NEW q \in DirRequests, EditSave(q)
      PROVE  DirInv'
  <2>1. PICK id \in Ids : id = dreq[q].id
    BY <1>9, <1>a DEF EditSave, RequestSound
  <2>2. /\ dreq[q].pc = "save" /\ SaveRecord(id) /\ SetReq(q, DirIdle)
        /\ UNCHANGED <<cams, config, backup, broken>>
    BY <1>9, <2>1 DEF EditSave
  <2>3. DirTypeOK' /\ Defined \subseteq Defined'
    BY <2>2, <1>a, DirectoryAssumption
       DEF SaveRecord, SaveTag, SaveFolder, DirTypeOK, Defined, Ids
  <2>4. \A o \in DirRequests : dreq'[o] = dreq[o] \/ (o = q /\ dreq'[o] = DirIdle)
    BY <2>2 DEF SetReq, DirInv
  <2>5. \A o \in DirRequests : RequestSound(dreq[o])'
    BY <2>3, <2>4, <1>a, SMTT(20) DEF RequestSound, DirIdle
  <2>6. RefsResolve'
    <3>1. SUFFICES ASSUME NEW c \in DirCameras, NEW i \in IdsOf(cams[c]) \ (Defined' \cup broken)
                   PROVE  \E o \in DirRequests : Covers(o, c, i)'
      BY <2>2 DEF RefsResolve, Covers
    <3>2. PICK o \in DirRequests : Covers(o, c, i)
      BY <2>3, <3>1 DEF DirInv, RefsResolve, Covers
    <3>3. dreq'[o] = dreq[o]
      BY <2>2, <2>4, <3>2 DEF Covers
    <3>4. QED
      BY <3>2, <3>3 DEF Covers
  <2>7. dreq' = [o \in DirRequests |-> dreq'[o]]
    BY <2>2 DEF SetReq, DirInv
  <2>8. QED
    BY <2>2, <2>3, <2>5, <2>6, <2>7, <1>b DEF DirInv
<1>10. ASSUME NEW q \in DirRequests, ListForCleaning(q)
       PROVE  DirInv'
  <2>1. PICK id \in Ids : id = dreq[q].id
    BY <1>10, <1>a DEF ListForCleaning, RequestSound
  <2> DEFINE left == {c \in KnownCameras : id \in Tags \/ cams[c].folder = id}
  <2>2. /\ dreq[q].pc = "list" /\ UNCHANGED <<tags, folders, cams, config, backup>>
        /\ \/ dreq' = [dreq EXCEPT ![q] = [pc |-> "clean", id |-> id, left |-> left]] /\ UNCHANGED broken
           \/ dreq' = [dreq EXCEPT ![q] = DirIdle] /\ broken' = broken \cup {id}
    BY <1>10, <2>1 DEF ListForCleaning, SetReq
  <2>3. /\ \A o \in DirRequests \ {q} : dreq'[o] = dreq[o]
        /\ dreq' = [o \in DirRequests |-> dreq'[o]]
        /\ Defined' = Defined /\ broken \subseteq broken'
        /\ \/ /\ dreq'[q].pc = "clean" /\ dreq'[q].id = id /\ dreq'[q].left = left
              /\ dreq'[q] = [pc |-> "clean", id |-> id, left |-> left]
           \/ dreq'[q] = DirIdle /\ id \in broken'
    <3> HIDE DEF left
    <3>1. q \in DOMAIN dreq /\ DOMAIN dreq = DirRequests
      BY DEF DirInv
    <3>2. PICK r : r = [pc |-> "clean", id |-> id, left |-> left]
      OBVIOUS
    <3>3. r.pc = "clean" /\ r.id = id /\ r.left = left
      BY <3>2
    <3>4. /\ \/ dreq' = [dreq EXCEPT ![q] = r] /\ UNCHANGED broken
             \/ dreq' = [dreq EXCEPT ![q] = DirIdle] /\ broken' = broken \cup {id}
          /\ UNCHANGED <<tags, folders>>
      BY <2>2, <3>2
    <3>5. /\ \A o \in DirRequests \ {q} : dreq'[o] = dreq[o]
          /\ dreq' = [o \in DirRequests |-> dreq'[o]]
          /\ dreq'[q] = r \/ (dreq'[q] = DirIdle /\ id \in broken')
      BY <3>1, <3>4
    <3>6. Defined' = Defined /\ broken \subseteq broken'
      BY <3>4 DEF Defined
    <3>7. QED
      BY <3>2, <3>3, <3>5, <3>6
  <2>4. left \subseteq DirCameras
    BY DEF KnownCameras
  <2>5. \A c \in DirCameras : id \in IdsOf(cams[c]) => c \in left
    <3>1. SUFFICES ASSUME NEW c \in DirCameras, id \in IdsOf(cams[c])
                   PROVE  c \in left
      OBVIOUS
    <3>2. cams[c] # NoRecord /\ cams[c] \in Refs
      BY <3>1, <1>a DEF IdsOf, DirTypeOK
    <3>3. cams[c].tags \subseteq Tags
      BY <3>2 DEF Refs
    <3>4. QED
      BY <3>1, <3>2, <3>3 DEF IdsOf, KnownCameras
  <2> HIDE DEF left
  <2>6. \A o \in DirRequests : RequestSound(dreq[o])'
    <3>1. [pc |-> "clean", id |-> id, left |-> left] \in CleanRequests
      BY <2>4 DEF CleanRequests
    <3>2. RequestSound(dreq[q])'
      BY <2>3, <3>1, SMTT(20) DEF RequestSound, DirIdle
    <3>3. QED
      BY <2>3, <3>2, <1>a DEF RequestSound
  <2>7. RefsResolve'
    <3>1. SUFFICES ASSUME NEW c \in DirCameras, NEW i \in IdsOf(cams[c]) \ (Defined \cup broken')
                   PROVE  \E o \in DirRequests : Covers(o, c, i)'
      BY <2>2, <2>3 DEF RefsResolve, Covers
    <3>2. PICK o \in DirRequests : Covers(o, c, i)
      BY <2>3, <3>1 DEF DirInv, RefsResolve, Covers
    <3>3. CASE o # q
      BY <2>3, <3>2, <3>3 DEF Covers
    <3>4. CASE o = q
      <4>1. i = id
        BY <2>1, <2>2, <3>2, <3>4 DEF Covers
      <4>2. QED
        BY <2>3, <2>5, <3>1, <4>1 DEF Covers
    <3>5. QED
      BY <3>3, <3>4
  <2>8. DirTypeOK'
    BY <2>2, <1>a DEF DirTypeOK, Ids
  <2>9. QED
    BY <2>2, <2>3, <2>6, <2>7, <2>8, <1>b DEF DirInv
<1>11. ASSUME NEW q \in DirRequests, NEW c \in DirCameras, CleanCamera(q, c)
       PROVE  DirInv'
  BY <1>11, CleaningKeepsInv
<1>12. ASSUME NEW q \in DirRequests, DeleteEnds(q)
       PROVE  DirInv'
  <2>1. /\ dreq[q].pc = "clean" /\ dreq[q].left = {} /\ SetReq(q, DirIdle)
        /\ UNCHANGED <<tags, folders, cams, config, backup, broken>>
    BY <1>12 DEF DeleteEnds
  <2>2. /\ dreq'[q] = DirIdle /\ \A o \in DirRequests \ {q} : dreq'[o] = dreq[o]
        /\ dreq' = [o \in DirRequests |-> dreq'[o]]
        /\ Defined' = Defined
    BY <2>1 DEF SetReq, DirInv, Defined
  <2>3. \A o \in DirRequests : RequestSound(dreq[o])'
    BY <2>2, <1>a, SMTT(20) DEF RequestSound, DirIdle
  <2>4. RefsResolve'
    BY <2>1, <2>2, SMTT(20) DEF DirInv, RefsResolve
  <2>5. DirTypeOK'
    BY <2>1, <1>a DEF DirTypeOK
  <2>6. QED
    BY <2>1, <2>2, <2>3, <2>4, <2>5, <1>b DEF DirInv
<1>13. ASSUME NEW q \in DirRequests, ReadLists(q)
       PROVE  DirInv'
  <2>1. PICK r : r = [pc |-> "lists", tags |-> tags, folders |-> folders, gone |-> {}]
    OBVIOUS
  <2>2. /\ dreq[q].pc = "idle" /\ SetReq(q, r)
        /\ UNCHANGED <<tags, folders, cams, config, backup, broken>>
    BY <1>13, <2>1, SMTT(20) DEF ReadLists, DirIdle
  <2>3. r \in ListsRequests
    BY <2>1, <1>a DEF ListsRequests, DirTypeOK
  <2>4. RequestSound(r)'
    BY <2>1, <2>2, <2>3 DEF RequestSound, Defined
  <2>5. QED
    BY <2>2, <2>4, <1>b, ReadingKeepsInv
<1>14. ASSUME NEW q \in DirRequests, ExportCameras(q)
       PROVE  DirInv'
  <2>1. PICK r : r = [pc |-> "exportTags", cams |-> cams]
    OBVIOUS
  <2>2. /\ dreq[q].pc = "idle" /\ SetReq(q, r)
        /\ UNCHANGED <<tags, folders, cams, config, backup, broken>>
    BY <1>14, <2>1, SMTT(20) DEF ExportCameras, DirIdle
  <2>3. RequestSound(r)'
    BY <2>1, <1>a DEF RequestSound, DirTypeOK, CameraRecords
  <2>4. QED
    BY <2>2, <2>3, <1>b, ReadingKeepsInv
<1>15. ASSUME NEW q \in DirRequests, ExportTags(q)
       PROVE  DirInv'
  <2>1. PICK r : r = [pc |-> "exportFolders", cams |-> dreq[q].cams, tags |-> tags]
    OBVIOUS
  <2>2. /\ dreq[q].pc = "exportTags" /\ SetReq(q, r)
        /\ UNCHANGED <<tags, folders, cams, config, backup, broken>>
    BY <1>15, <2>1 DEF ExportTags
  <2>3. RequestSound(r)'
    BY <2>1, <2>2, <1>a DEF RequestSound, DirTypeOK
  <2>4. QED
    BY <2>2, <2>3, <1>b, ReadingKeepsInv
<1>16. ASSUME NEW q \in DirRequests, ExportFolders(q)
       PROVE  DirInv'
  <2>1. /\ dreq[q].pc = "exportFolders" /\ SetReq(q, DirIdle)
        /\ backup' = [cams |-> dreq[q].cams, tags |-> dreq[q].tags, folders |-> folders]
        /\ UNCHANGED <<tags, folders, cams, config, broken>>
    BY <1>16 DEF ExportFolders
  <2>2. dreq[q].cams \in CameraRecords /\ dreq[q].tags \subseteq Tags
    BY <2>1, <1>a DEF RequestSound
  <2>3. BackupSound'
    BY <2>1, <2>2, <1>a DEF BackupSound, DirTypeOK
  <2>4. QED
    BY <2>1, <2>3, <1>c, ReadingKeepsInv
<1>17. ASSUME NEW q \in DirRequests, NEW c \in DirCameras, NEW rec \in Refs, SaveRefs(q, c, rec)
       PROVE  DirInv'
  <2>1. /\ dreq[q].pc = "lists" /\ rec.tags \subseteq dreq[q].tags
        /\ rec.folder \in dreq[q].folders \cup {NoFolder}
        /\ cams' = [cams EXCEPT ![c] = rec]
        /\ broken' = broken \cup (IdsOf(rec) \cap dreq[q].gone)
        /\ SetReq(q, DirIdle)
        /\ UNCHANGED <<tags, folders, config, backup>>
    BY <1>17 DEF SaveRefs
  <2>2. /\ dreq'[q] = DirIdle /\ \A o \in DirRequests \ {q} : dreq'[o] = dreq[o]
        /\ dreq' = [o \in DirRequests |-> dreq'[o]]
        /\ Defined' = Defined /\ broken \subseteq broken'
    BY <2>1 DEF SetReq, DirInv, Defined
  <2>3. /\ dreq[q] \in ListsRequests
        /\ dreq[q].tags \cup dreq[q].folders \subseteq Defined \cup dreq[q].gone
    BY <2>1, <1>a DEF RequestSound
  <2>4. IdsOf(rec) \subseteq Ids /\ IdsOf(rec) \subseteq dreq[q].tags \cup dreq[q].folders
    BY <2>1, DirectoryAssumption DEF IdsOf, Refs, Ids
  <2>5. IdsOf(rec) \subseteq Defined \cup broken'
    BY <2>1, <2>3, <2>4
  <2>6. DirTypeOK'
    BY <2>1, <2>4, <1>a DEF DirTypeOK, Ids
  <2>7. \A o \in DirRequests : RequestSound(dreq[o])'
    BY <2>2, <1>a, SMTT(20) DEF RequestSound, DirIdle
  <2>8. RefsResolve'
    <3>1. SUFFICES ASSUME NEW d \in DirCameras, NEW i \in IdsOf(cams'[d]) \ (Defined \cup broken')
                   PROVE  \E o \in DirRequests : Covers(o, d, i)'
      BY <2>2 DEF RefsResolve, Covers
    <3>2. d # c /\ cams'[d] = cams[d]
      BY <2>1, <2>5, <3>1, <1>a DEF DirTypeOK
    <3>3. PICK o \in DirRequests : Covers(o, d, i)
      BY <2>2, <3>1, <3>2 DEF DirInv, RefsResolve, Covers
    <3>4. dreq'[o] = dreq[o]
      BY <2>1, <2>2, <3>3 DEF Covers
    <3>5. QED
      BY <3>3, <3>4 DEF Covers
  <2>9. QED
    BY <2>1, <2>2, <2>6, <2>7, <2>8, <1>b DEF DirInv
<1>18. CASE UNCHANGED dirVars
  BY <1>18, SMTT(20) DEF dirVars, DirInv, DirTypeOK, RequestSound, BackupSound, RefsResolve, Defined
<1>19. CASE DirNext
  BY <1>1, <1>2, <1>3, <1>4, <1>5, <1>6, <1>7, <1>8, <1>9, <1>10, <1>11, <1>12, <1>13, <1>14,
     <1>15, <1>16, <1>17, <1>19, <1>a DEF DirNext, EditTag, EditFolder, Ids
<1>20. QED
  BY <1>18, <1>19

(* No reference is left without its record except by the accidents the     *)
(* property lists: whatever the deletions, the edits, the exports, the     *)
(* restores and the restarts, and in whatever order their transactions     *)
(* run.                                                                    *)
THEOREM ReferencesResolve == DirSpec => []RefsResolve
<1>1. DirInv => RefsResolve
  BY DEF DirInv
<1>2. QED
  BY <1>1, DirInitInv, DirNextInv, PTL DEF DirSpec

----------------------------------------------------------------------------
(* Billing, while the records of all cameras fit into one transaction.     *)
(* The invariant counts a byte once: it is in the record, in the pending   *)
(* deltas, in what the next collection will add, or lost to a restart.     *)
(* With one transaction per flush a byte moves from the deltas to the      *)
(* record in the step that empties the deltas.                             *)

OneTransaction == Cardinality(Cameras) <= ChunkSize

(* A byte is counted at most once, and a steady camera's bytes exactly     *)
(* once; a steady camera has its stream and its record.                    *)
Bookkeeping ==
    /\ \A c \in Cameras : Accounted(c) <= total[c]
    /\ \A c \in Cameras : steady[c] =>
           /\ Accounted(c) = total[c]
           /\ c \in active /\ c \in known
           /\ bytes[c] >= lastBytes[c]
    /\ task = "flushing" => todo = {c \in Cameras : pendingDelta[c] > 0}

BillingInv == TypeOK /\ Bookkeeping

(* The flush takes all cameras at once.                                    *)
LEMMA WholeChunk ==
    ASSUME OneTransaction, todo \subseteq Cameras, NEW chunk, IsChunk(chunk)
    PROVE  chunk = todo
<1>1. IsFiniteSet(todo) /\ Cardinality(todo) <= Cardinality(Cameras)
  BY CamerasAssumption, FS_Subset
<1>2. Cardinality(todo) \in Nat /\ Cardinality(Cameras) \in Nat
  BY <1>1, CamerasAssumption, FS_CardinalityType
<1>3. Cardinality(todo) <= ChunkSize
  BY <1>1, <1>2, ChunkSizeAssumption, SMTT(20) DEF OneTransaction
<1> QED BY <1>3 DEF IsChunk

(* The growth of a counter is a natural number.                            *)
LEMMA GrowthType ==
    ASSUME TypeOK, NEW c \in Cameras
    PROVE  Growth(c) \in Nat
<1>1. bytes[c] \in Nat /\ lastBytes[c] \in Nat
  BY DEF TypeOK
<1> QED BY <1>1, SMTT(20) DEF Growth

(* Initially nothing was received.                                         *)
LEMMA InitBookkeeping == Init => BillingInv
<1> SUFFICES ASSUME Init PROVE BillingInv
  OBVIOUS
<1>1. TypeOK
  BY BoundsAssumption DEF Init, TypeOK
<1>2. \A c \in Cameras : Accounted(c) = 0 /\ total[c] = 0
  BY SMTT(20) DEF Init, Accounted, Growth
<1>3. Bookkeeping
  BY <1>2, SMTT(20) DEF Init, Bookkeeping
<1> QED BY <1>1, <1>3 DEF BillingInv

(* Types are preserved.                                                    *)
LEMMA NextType ==
    ASSUME TypeOK, [Next]_vars
    PROVE  TypeOK'
<1> USE DEF TypeOK
<1>1. ASSUME NEW c \in Cameras, Receive(c) PROVE TypeOK'
  BY <1>1, SMTT(20) DEF Receive, recordVars, taskVars
<1>2. ASSUME NEW c \in Cameras, Restart(c) PROVE TypeOK'
  BY <1>2 DEF Restart, recordVars, taskVars
<1>3. ASSUME NEW c \in Cameras, DeleteRecord(c) PROVE TypeOK'
  BY <1>3 DEF DeleteRecord, recordVars, taskVars
<1>4. ASSUME NEW c \in Cameras, RemoveStream(c) PROVE TypeOK'
  BY <1>4 DEF RemoveStream, recordVars, taskVars
<1>5. CASE NewMonth
  BY <1>5, BoundsAssumption, SMTT(20) DEF NewMonth, streamVars, recordVars, taskVars
<1>6. CASE Wake
  <2>1. \A c \in Cameras : Growth(c) \in Nat
    BY GrowthType
  <2>2. pendingDelta' \in [Cameras -> Nat]
    BY <1>6, <2>1, SMTT(20) DEF Wake, Collect
  <2>3. lastBytes' \in [Cameras -> Nat]
    BY <1>6 DEF Wake, Collect
  <2>4. todo' \subseteq Cameras
    BY <1>6 DEF Wake
  <2>5. final' \in BOOLEAN
    BY <1>6 DEF Wake
  <2>6. task' \in {"waiting", "flushing", "finished"}
    BY <1>6 DEF Wake, Rest
  <2> QED BY <1>6, <2>2, <2>3, <2>4, <2>5, <2>6 DEF Wake, streamVars, recordVars
<1>7. CASE FlushFails
  <2>1. task' \in {"waiting", "flushing", "finished"}
    BY <1>7 DEF FlushFails, Rest
  <2> QED BY <1>7, <2>1 DEF FlushFails, streamVars, recordVars
<1>8. ASSUME NEW chunk \in SUBSET Cameras, FlushChunk(chunk) PROVE TypeOK'
  <2>1. /\ trafficUsed' \in [Cameras -> Nat]
        /\ resetMonth' \in [Cameras -> Nat]
        /\ charged' \in [Cameras -> Nat]
    BY <1>8, SMTT(20) DEF FlushChunk, CommitChunk
  <2>2. task' \in {"waiting", "flushing", "finished"}
    BY <1>8 DEF FlushChunk, Rest
  <2>3. pendingDelta' \in [Cameras -> Nat]
    BY <1>8, SMTT(20) DEF FlushChunk
  <2> QED BY <1>8, <2>1, <2>2, <2>3 DEF FlushChunk, streamVars
<1>9. CASE Shutdown
  BY <1>9 DEF Shutdown, streamVars, recordVars, taskVars
<1>10. CASE Exit
  BY <1>10 DEF Exit, streamVars, recordVars, taskVars
<1>11. CASE Gone \/ UNCHANGED vars
  BY <1>11 DEF Gone, vars, streamVars, recordVars, taskVars
<1> QED BY <1>1, <1>2, <1>3, <1>4, <1>5, <1>6, <1>7, <1>8, <1>9, <1>10, <1>11 DEF Next

(* A step that leaves the counters alone keeps the books.                  *)
LEMMA BooksUntouched ==
    ASSUME Bookkeeping, UNCHANGED <<active, known, bytes, total, steady, lastBytes,
                                    pendingDelta, charged>>,
           task' = "flushing" => task = "flushing" /\ UNCHANGED todo
    PROVE  Bookkeeping'
<1>1. \A c \in Cameras : Accounted(c)' = Accounted(c)
  BY DEF Accounted, Growth
<1>2. \A c \in Cameras : Accounted(c)' <= total'[c]
  BY <1>1 DEF Bookkeeping
<1>3. \A c \in Cameras : steady'[c] =>
           /\ Accounted(c)' = total'[c]
           /\ c \in active' /\ c \in known'
           /\ bytes'[c] >= lastBytes'[c]
  BY <1>1 DEF Bookkeeping
<1>4. task' = "flushing" => todo' = {c \in Cameras : pendingDelta'[c] > 0}
  BY DEF Bookkeeping
<1> QED BY <1>2, <1>3, <1>4 DEF Bookkeeping

(* Every step counts a byte at most once.                                  *)
LEMMA NextBookkeeping ==
    ASSUME OneTransaction, BillingInv, [Next]_vars
    PROVE  Bookkeeping'
<1>a. TypeOK /\ Bookkeeping
  BY DEF BillingInv
<1>b. \A c \in Cameras : /\ bytes[c] \in Nat /\ lastBytes[c] \in Nat
                         /\ pendingDelta[c] \in Nat /\ charged[c] \in Nat
                         /\ total[c] \in Nat /\ steady[c] \in BOOLEAN
  BY <1>a DEF TypeOK
<1>1. ASSUME NEW c \in Cameras, Receive(c) PROVE Bookkeeping'
  <2>1. \A d \in Cameras : d # c => Accounted(d)' = Accounted(d) /\ total'[d] = total[d]
    BY <1>1, <1>a DEF Receive, Accounted, Growth, recordVars, taskVars, TypeOK
  <2>2. /\ total'[c] = total[c] + 1 /\ bytes'[c] = bytes[c] + 1
        /\ c \in active /\ c \in active'
        /\ UNCHANGED <<steady, lastBytes, pendingDelta, charged, active, known, task, todo>>
    BY <1>1, <1>a DEF Receive, recordVars, taskVars, TypeOK
  <2>3. Accounted(c)' <= Accounted(c) + 1
    <3>1. /\ bytes[c] \in Nat /\ lastBytes[c] \in Nat /\ pendingDelta[c] \in Nat
          /\ charged[c] \in Nat
      BY <1>b
    <3>2. Growth(c)' <= Growth(c) + 1 /\ Growth(c) \in Nat /\ Growth(c)' \in Nat
      BY <2>2, <3>1, SMTT(20) DEF Growth
    <3>3. /\ Accounted(c) = charged[c] + pendingDelta[c] + Growth(c)
          /\ Accounted(c)' = charged[c] + pendingDelta[c] + Growth(c)'
      BY <2>2 DEF Accounted
    <3> QED BY <3>1, <3>2, <3>3, SMTT(20)
  <2>4. bytes[c] >= lastBytes[c] => Accounted(c)' = Accounted(c) + 1
    BY <2>2, <1>b, SMTT(20) DEF Accounted, Growth
  <2>5. Accounted(c) \in Nat /\ Accounted(c)' \in Nat
    BY <2>2, <1>b, SMTT(20) DEF Accounted, Growth
  <2>6. \A d \in Cameras : Accounted(d)' <= total'[d]
    BY <2>1, <2>2, <2>3, <2>5, <1>a, <1>b, SMTT(20) DEF Bookkeeping
  <2>7. \A d \in Cameras : steady'[d] =>
           /\ Accounted(d)' = total'[d]
           /\ d \in active' /\ d \in known'
           /\ bytes'[d] >= lastBytes'[d]
    <3> SUFFICES ASSUME NEW d \in Cameras, steady'[d]
                 PROVE  /\ Accounted(d)' = total'[d]
                        /\ d \in active' /\ d \in known'
                        /\ bytes'[d] >= lastBytes'[d]
      OBVIOUS
    <3>1. steady[d] /\ Accounted(d) = total[d] /\ d \in active /\ d \in known
                    /\ bytes[d] >= lastBytes[d]
      BY <2>2, <1>a DEF Bookkeeping
    <3>2. bytes'[d] >= lastBytes'[d]
      BY <1>1, <1>a, <1>b, <2>2, <3>1, SMTT(20) DEF Receive, TypeOK
    <3>3. Accounted(d)' = total'[d]
      BY <2>1, <2>2, <2>4, <3>1
    <3> QED BY <2>2, <3>1, <3>2, <3>3
  <2>8. task' = "flushing" => todo' = {d \in Cameras : pendingDelta'[d] > 0}
    BY <2>2, <1>a DEF Bookkeeping
  <2> QED BY <2>6, <2>7, <2>8 DEF Bookkeeping
<1>2. ASSUME NEW c \in Cameras, Restart(c) PROVE Bookkeeping'
  <2>1. /\ ~steady'[c] /\ bytes'[c] = 0
        /\ UNCHANGED <<total, lastBytes, pendingDelta, charged, active, known, task, todo>>
    BY <1>2, <1>a DEF Restart, recordVars, taskVars, TypeOK
  <2>2. \A d \in Cameras : d # c => bytes'[d] = bytes[d] /\ steady'[d] = steady[d]
    BY <1>2, <1>a DEF Restart, TypeOK
  <2>3. \A d \in Cameras : d # c => Accounted(d)' = Accounted(d)
    BY <2>1, <2>2 DEF Accounted, Growth
  <2>4. Accounted(c)' <= Accounted(c) /\ Accounted(c) \in Nat /\ Accounted(c)' \in Nat
    BY <2>1, <1>b, SMTT(20) DEF Accounted, Growth
  <2>5. \A d \in Cameras : Accounted(d)' <= total'[d]
    BY <2>1, <2>3, <2>4, <1>a, <1>b, SMTT(20) DEF Bookkeeping
  <2>6. \A d \in Cameras : steady'[d] =>
           /\ Accounted(d)' = total'[d]
           /\ d \in active' /\ d \in known'
           /\ bytes'[d] >= lastBytes'[d]
    BY <2>1, <2>2, <2>3, <1>a DEF Bookkeeping
  <2>7. task' = "flushing" => todo' = {d \in Cameras : pendingDelta'[d] > 0}
    BY <2>1, <1>a DEF Bookkeeping
  <2> QED BY <2>5, <2>6, <2>7 DEF Bookkeeping
<1>3. ASSUME NEW c \in Cameras, DeleteRecord(c) PROVE Bookkeeping'
  <2>1. /\ ~steady'[c]
        /\ known' = known \ {c}
        /\ UNCHANGED <<total, bytes, lastBytes, pendingDelta, charged, active, task, todo>>
    BY <1>3, <1>a DEF DeleteRecord, recordVars, taskVars, TypeOK
  <2>2. \A d \in Cameras : d # c => steady'[d] = steady[d]
    BY <1>3, <1>a DEF DeleteRecord, TypeOK
  <2>3. \A d \in Cameras : Accounted(d)' = Accounted(d)
    BY <2>1 DEF Accounted, Growth
  <2>4. \A d \in Cameras : steady'[d] =>
           /\ Accounted(d)' = total'[d]
           /\ d \in active' /\ d \in known'
           /\ bytes'[d] >= lastBytes'[d]
    BY <2>1, <2>2, <2>3, <1>a DEF Bookkeeping
  <2> QED BY <2>1, <2>3, <2>4, <1>a DEF Bookkeeping
<1>4. ASSUME NEW c \in Cameras, RemoveStream(c) PROVE Bookkeeping'
  <2>1. /\ c \notin known
        /\ active' = active \ {c}
        /\ UNCHANGED <<total, bytes, lastBytes, pendingDelta, charged, known, steady, task, todo>>
    BY <1>4 DEF RemoveStream, recordVars, taskVars
  <2>2. \A d \in Cameras : Accounted(d) \in Nat /\ Accounted(d)' \in Nat
                           /\ Accounted(d)' <= Accounted(d)
    <3> SUFFICES ASSUME NEW d \in Cameras
                 PROVE  /\ Accounted(d) \in Nat /\ Accounted(d)' \in Nat
                        /\ Accounted(d)' <= Accounted(d)
      OBVIOUS
    <3>1. Growth(d) \in Nat /\ Growth(d)' = Growth(d)
      BY <2>1, <1>b, SMTT(20) DEF Growth
    <3>2. charged[d] \in Nat /\ pendingDelta[d] \in Nat
      BY <1>b
    <3>3. /\ Accounted(d) = charged[d] + pendingDelta[d] + (IF d \in active THEN Growth(d) ELSE 0)
          /\ Accounted(d)' = charged[d] + pendingDelta[d]
                                + (IF d \in active \ {c} THEN Growth(d) ELSE 0)
      BY <2>1, <3>1 DEF Accounted
    <3> QED BY <3>1, <3>2, <3>3, SMTT(20)
  <2>3. \A d \in Cameras : d # c => Accounted(d)' = Accounted(d)
    BY <2>1 DEF Accounted, Growth
  <2>4. ~steady[c]
    BY <2>1, <1>a DEF Bookkeeping
  <2>5. \A d \in Cameras : Accounted(d)' <= total'[d]
    <3> SUFFICES ASSUME NEW d \in Cameras PROVE Accounted(d)' <= total'[d]
      OBVIOUS
    <3>1. Accounted(d) <= total[d] /\ total'[d] = total[d] /\ total[d] \in Nat
      BY <2>1, <1>a, <1>b DEF Bookkeeping
    <3>2. /\ Accounted(d) \in Nat /\ Accounted(d)' \in Nat
          /\ Accounted(d)' <= Accounted(d)
      BY <2>2
    <3> QED BY <3>1, <3>2, SMTT(20)
  <2>6. \A d \in Cameras : steady'[d] =>
           /\ Accounted(d)' = total'[d]
           /\ d \in active' /\ d \in known'
           /\ bytes'[d] >= lastBytes'[d]
    BY <2>1, <2>3, <2>4, <1>a DEF Bookkeeping
  <2> QED BY <2>1, <2>5, <2>6, <1>a DEF Bookkeeping
<1>5. CASE NewMonth
  BY <1>5, <1>a, BooksUntouched DEF NewMonth, streamVars, recordVars, taskVars
<1>6. CASE Wake
  <2>1. /\ UNCHANGED <<active, known, bytes, total, steady, charged>>
        /\ todo' = {c \in Cameras : pendingDelta'[c] > 0}
        /\ \A c \in Cameras : c \in active => /\ pendingDelta'[c] = pendingDelta[c] + Growth(c)
                                              /\ lastBytes'[c] = bytes[c]
        /\ \A c \in Cameras : c \notin active => pendingDelta'[c] = pendingDelta[c]
    BY <1>6 DEF Wake, Collect, streamVars, recordVars
  <2>2. \A c \in Cameras : c \in active => Growth(c)' = 0
    BY <2>1, <1>b, SMTT(20) DEF Growth
  <2>3. \A c \in Cameras : Accounted(c)' = Accounted(c)
    <3> SUFFICES ASSUME NEW c \in Cameras PROVE Accounted(c)' = Accounted(c)
      OBVIOUS
    <3>1. Growth(c) \in Nat
      BY <1>a, GrowthType
    <3>2. CASE c \in active
      <4>1. Accounted(c)' = charged[c] + (pendingDelta[c] + Growth(c)) + 0
        BY <2>1, <2>2, <3>2 DEF Accounted
      <4>2. Accounted(c) = charged[c] + pendingDelta[c] + Growth(c)
        BY <3>2 DEF Accounted
      <4>3. charged[c] \in Nat /\ pendingDelta[c] \in Nat
        BY <1>b
      <4>4. \A x, y, z \in Nat : x + (y + z) + 0 = x + y + z
        BY SMTT(20)
      <4> QED BY <4>1, <4>2, <4>3, <4>4, <3>1, SMTT(20)
    <3>3. CASE c \notin active
      BY <2>1, <3>3 DEF Accounted
    <3> QED BY <3>2, <3>3
  <2>4. \A c \in Cameras : Accounted(c)' <= total'[c]
    BY <2>1, <2>3, <1>a DEF Bookkeeping
  <2>5. \A c \in Cameras : steady'[c] =>
           /\ Accounted(c)' = total'[c]
           /\ c \in active' /\ c \in known'
           /\ bytes'[c] >= lastBytes'[c]
    BY <2>1, <2>3, <1>a, <1>b, SMTT(20) DEF Bookkeeping
  <2> QED BY <2>1, <2>4, <2>5 DEF Bookkeeping
<1>7. CASE FlushFails
  <2>1. task' # "flushing"
    BY <1>7 DEF FlushFails, Rest
  <2> QED BY <1>7, <1>a, <2>1, BooksUntouched DEF FlushFails, streamVars, recordVars
<1>8. ASSUME NEW chunk \in SUBSET Cameras, FlushChunk(chunk) PROVE Bookkeeping'
  <2>1. chunk = todo
    BY <1>8, <1>a, WholeChunk DEF FlushChunk, TypeOK
  <2>2. /\ todo' = {} /\ task' # "flushing"
        /\ UNCHANGED <<active, known, bytes, total, steady, lastBytes>>
        /\ \A c \in Cameras : pendingDelta'[c] = 0
    BY <1>8, <2>1 DEF FlushChunk, Rest, streamVars
  <2>3. \A c \in Cameras : charged'[c] = IF c \in todo \cap known
                                           THEN charged[c] + pendingDelta[c] ELSE charged[c]
    BY <1>8, <2>1 DEF FlushChunk, CommitChunk
  <2>4. todo = {c \in Cameras : pendingDelta[c] > 0}
    BY <1>8, <1>a DEF FlushChunk, Bookkeeping
  <2>5. \A c \in Cameras : /\ Accounted(c)' <= Accounted(c)
                           /\ c \in known => Accounted(c)' = Accounted(c)
    <3> SUFFICES ASSUME NEW c \in Cameras
                 PROVE  /\ Accounted(c)' <= Accounted(c)
                        /\ c \in known => Accounted(c)' = Accounted(c)
      OBVIOUS
    <3> DEFINE grows == IF c \in active THEN Growth(c) ELSE 0
    <3>1. grows \in Nat
      BY <1>a, GrowthType
    <3>2. Accounted(c) = charged[c] + pendingDelta[c] + grows
      BY DEF Accounted
    <3>3. Accounted(c)' = charged'[c] + 0 + grows
      BY <2>2 DEF Accounted, Growth
    <3>4. charged'[c] \in Nat /\ charged'[c] <= charged[c] + pendingDelta[c]
                              /\ (c \in known => charged'[c] = charged[c] + pendingDelta[c])
      BY <2>3, <2>4, <1>b, SMTT(20)
    <3> HIDE DEF grows
    <3> QED BY <3>1, <3>2, <3>3, <3>4, <1>b, SMTT(20)
  <2>6. \A c \in Cameras : Accounted(c) \in Nat /\ Accounted(c)' \in Nat
    <3> SUFFICES ASSUME NEW c \in Cameras PROVE Accounted(c) \in Nat /\ Accounted(c)' \in Nat
      OBVIOUS
    <3>1. Growth(c) \in Nat /\ Growth(c)' \in Nat
      BY <1>b, <2>2, SMTT(20) DEF Growth
    <3>2. charged'[c] \in Nat
      BY <2>3, <1>b, SMTT(20)
    <3> QED BY <3>1, <3>2, <2>2, <1>b, SMTT(20) DEF Accounted
  <2>7. \A c \in Cameras : Accounted(c)' <= total'[c]
    BY <2>2, <2>5, <2>6, <1>a, <1>b, SMTT(20) DEF Bookkeeping
  <2>8. \A c \in Cameras : steady'[c] =>
           /\ Accounted(c)' = total'[c]
           /\ c \in active' /\ c \in known'
           /\ bytes'[c] >= lastBytes'[c]
    BY <2>2, <2>5, <1>a DEF Bookkeeping
  <2> QED BY <2>2, <2>7, <2>8 DEF Bookkeeping
<1>9. CASE Shutdown
  BY <1>9, <1>a, BooksUntouched DEF Shutdown, streamVars, recordVars, taskVars
<1>10. CASE Exit
  BY <1>10, <1>a, BooksUntouched DEF Exit, streamVars, recordVars, taskVars
<1>11. CASE Gone \/ UNCHANGED vars
  BY <1>11, <1>a, BooksUntouched DEF Gone, vars, streamVars, recordVars, taskVars
<1> QED BY <1>1, <1>2, <1>3, <1>4, <1>5, <1>6, <1>7, <1>8, <1>9, <1>10, <1>11 DEF Next

(* What is charged is part of what is accounted for.                       *)
LEMMA BooksBalance == BillingInv => NeverOverbilled /\ SteadyIsExact
<1> SUFFICES ASSUME BillingInv PROVE NeverOverbilled /\ SteadyIsExact
  OBVIOUS
<1>1. \A c \in Cameras : charged[c] <= total[c]
  <2> SUFFICES ASSUME NEW c \in Cameras PROVE charged[c] <= total[c]
    OBVIOUS
  <2>1. Growth(c) \in Nat /\ charged[c] \in Nat /\ pendingDelta[c] \in Nat /\ total[c] \in Nat
    BY GrowthType DEF BillingInv, TypeOK
  <2>2. Accounted(c) <= total[c]
    BY DEF BillingInv, Bookkeeping
  <2> QED BY <2>1, <2>2, SMTT(20) DEF Accounted
<1> QED BY <1>1 DEF NeverOverbilled, SteadyIsExact, BillingInv, Bookkeeping

(* The invariant holds in every state, when one transaction takes all      *)
(* records.                                                                *)
LEMMA BillingInvariance == OneTransaction => (Spec => []BillingInv)
<1> SUFFICES ASSUME OneTransaction PROVE Spec => []BillingInv
  OBVIOUS
<1>1. BillingInv /\ [Next]_vars => BillingInv'
  BY NextType, NextBookkeeping DEF BillingInv
<1> QED BY <1>1, InitBookkeeping, PTL DEF Spec

(* BatchUpdateTraffic and the billing task: with at most ChunkSize cameras *)
(* no camera is ever charged for more than it received, however many       *)
(* flushes fail and are repeated.                                          *)
THEOREM NoOverbilling == OneTransaction => (Spec => []NeverOverbilled)
<1> SUFFICES ASSUME OneTransaction PROVE Spec => []NeverOverbilled
  OBVIOUS
<1> QED BY BillingInvariance, BooksBalance, PTL

(* Nor is a byte of an undisturbed stream lost: record, pending delta and  *)
(* the counter's growth add up to what was received.                       *)
THEOREM ExactAccounting == OneTransaction => (Spec => []SteadyIsExact)
<1> SUFFICES ASSUME OneTransaction PROVE Spec => []SteadyIsExact
  OBVIOUS
<1> QED BY BillingInvariance, BooksBalance, PTL
=============================================================================
