------------------------------ MODULE Accounts ------------------------------
(***************************************************************************)
(* Management accounts and their tokens (routers/users.py, routers/auth.py,*)
(* services/auth.py; the login accounts of tenants, routers/tenants.py).   *)
(* A request checks its token against the account's row and then works     *)
(* with that copy of it; changes of platform accounts lock all their rows. *)
(***************************************************************************)
EXTENDS Integers, FiniteSets

CONSTANTS
    Admins,        \* platform administrators, some of them yet to be created
    Tenants,       \* login accounts of tenants
    Handlers,
    Passwords, Initial,    \* of the accounts that exist at first
    Default,               \* DEFAULT_ADMIN_PASSWORD
    NoPassword,            \* of an account that does not exist
    MaxVersion             \* bound on token_version

Users == Admins \cup Tenants

ASSUME AccountsAssumption ==
    /\ Admins \cap Tenants = {} /\ {Initial, Default} \subseteq Passwords /\ NoPassword \notin Passwords
    /\ MaxVersion \in Nat

VARIABLES
    account,    \* rows of table admins
    minted,     \* tokens issued, [user, version]
    request,    \* requests past get_current_admin, and the row they read
    locking     \* the request whose transaction locks the platform accounts, {} for none

accountVars == <<account, minted, request, locking>>

Absent == [password |-> NoPassword, active |-> FALSE, must |-> FALSE, version |-> 0]
Rows == [password : Passwords, active : BOOLEAN, must : BOOLEAN, version : 0..MaxVersion] \cup {Absent}
Exists(u)    == account[u].password # NoPassword
ActiveAdmins == {u \in Admins : Exists(u) /\ account[u].active}
Idle == [doing |-> "nothing", user |-> {}, row |-> Absent]
Token(u, v) == [user |-> u, version |-> v]
Works(t) == account[t.user].active /\ t.version = account[t.user].version     \* get_current_admin
Unlocked(u) == locking = {} \/ u \notin Admins       \* an UPDATE waits for the rows' locks
Bumped(u, pw, must) == [password |-> pw, active |-> account[u].active, must |-> must,
                        version |-> account[u].version + 1]
Bump(u, pw, must) == [account EXCEPT ![u] = Bumped(u, pw, must)]
Answered(r) == request' = [request EXCEPT ![r] = Idle]

InitAccounts ==
    /\ account \in [Users -> {Absent} \cup [password : {Initial}, active : {TRUE}, must : {FALSE}, version : {0}]]
    /\ ActiveAdmins # {} /\ minted = {} /\ request = [r \in Handlers |-> Idle] /\ locking = {}

----------------------------------------------------------------------------
(* login, change_password *)

\* The default password has to be changed, whatever the row says
Login(r, u, pw) ==
    /\ request[r] = Idle /\ Exists(u) /\ account[u].active /\ account[u].password = pw
    /\ minted' = minted \cup {Token(u, account[u].version)}
    /\ IF pw = Default /\ ~account[u].must
       THEN request' = [request EXCEPT ![r] = [doing |-> "marks", user |-> {u}, row |-> Absent]]
       ELSE UNCHANGED request
    /\ UNCHANGED <<account, locking>>

MarkDefault(r) ==
    /\ request[r].doing = "marks"
    /\ \E u \in request[r].user :
         Unlocked(u) /\ account' = IF Exists(u) THEN [account EXCEPT ![u].must = TRUE] ELSE account
    /\ Answered(r) /\ UNCHANGED <<minted, locking>>

\* get_current_admin, for a change of the password; require_platform_admin for the rest
Enter(r, t) ==
    /\ request[r] = Idle /\ Works(t)
    /\ \E op \in {"change"} \cup (IF t.user \in Admins /\ ~account[t.user].must
                                  THEN {"reset", "update", "delete", "create"} ELSE {}) :
         request' = [request EXCEPT ![r] = [doing |-> op, user |-> {t.user},
                                            row |-> IF op = "change" THEN account[t.user] ELSE Absent]]
    /\ UNCHANGED <<account, minted, locking>>

\* Mutant of ChangePassword: the version is counted on from the row that was read
ChangeFromRow(r, old, new) ==
    /\ request[r].doing = "change" /\ request[r].row.password = old /\ new \notin {old, Default}
    /\ \E u \in request[r].user :
         /\ Unlocked(u) /\ account[u].version < MaxVersion
         /\ account' = IF ~Exists(u) THEN account
                       ELSE [account EXCEPT ![u] = [@ EXCEPT !.password = new, !.must = FALSE,
                                                             !.version = request[r].row.version + 1]]
    /\ request' = [request EXCEPT ![r] = [@ EXCEPT !.doing = "refresh", !.row = Absent]] /\ UNCHANGED <<minted, locking>>

\* The old password is compared with the row that was read
ChangePassword(r, old, new) ==
    /\ request[r].doing = "change" /\ request[r].row.password = old /\ new \notin {old, Default}
    /\ \E u \in request[r].user :
         /\ Unlocked(u) /\ account[u].version < MaxVersion
         /\ account' = IF Exists(u) THEN Bump(u, new, FALSE) ELSE account
    /\ request' = [request EXCEPT ![r] = [@ EXCEPT !.doing = "refresh", !.row = Absent]] /\ UNCHANGED <<minted, locking>>

RefreshVersion(r) ==
    /\ request[r].doing = "refresh" /\ Answered(r)
    /\ \E u \in request[r].user :
         minted' = IF Exists(u) THEN minted \cup {Token(u, account[u].version)} ELSE minted
    /\ UNCHANGED <<account, locking>>

----------------------------------------------------------------------------
(* create_admin, reset_admin_password and reset_password, update_admin, delete_admin *)

CreateAdmin(r, u, pw) ==
    /\ request[r].doing = "create" /\ Answered(r) /\ u \in Admins /\ ~Exists(u)
    /\ \A t \in minted : t.user # u       \* ids are not used twice
    /\ account' = [account EXCEPT ![u] = [password |-> pw, active |-> TRUE, must |-> TRUE, version |-> 0]]
    /\ UNCHANGED <<minted, locking>>

ResetPassword(r, u, pw) ==
    /\ request[r].doing = "reset" /\ Answered(r) /\ Unlocked(u)
    /\ account[u].version < MaxVersion
    /\ account' = IF Exists(u) THEN Bump(u, pw, TRUE) ELSE account
    /\ UNCHANGED <<minted, locking>>

\* select_for_update of every platform account: the rows as they are committed
LockAdmins(r) ==
    /\ request[r].doing \in {"update", "delete"} /\ locking = {} /\ locking' = {r}
    /\ UNCHANGED <<account, minted, request>>

MayDisable(r, u) ==
    /\ u \notin request[r].user
    /\ account[u].active => Cardinality(ActiveAdmins) > 1

\* A request that is refused ends its transaction
Refuse(r) ==
    /\ locking = {r} /\ locking' = {} /\ Answered(r) /\ UNCHANGED <<account, minted>>

\* Any of is_active and password may be sent
UpdateAdmin(r, u, pw) ==
    /\ request[r].doing = "update" /\ locking = {r} /\ u \in Admins /\ Exists(u)
    /\ \E sent \in {{}, {TRUE}, {FALSE}} :
         /\ FALSE \in sent => MayDisable(r, u)
         /\ LET ends == pw # NoPassword \/ FALSE \in sent
                old  == account[u]
            IN  /\ ends => old.version < MaxVersion
                /\ account' = [account EXCEPT ![u] =
                      [password |-> IF pw = NoPassword THEN old.password ELSE pw,
                       active   |-> IF sent = {} THEN old.active ELSE sent = {TRUE},
                       must     |-> old.must \/ pw # NoPassword,
                       version  |-> IF ends THEN old.version + 1 ELSE old.version]]
    /\ locking' = {} /\ Answered(r) /\ UNCHANGED minted

DeleteAdmin(r, u) ==
    /\ request[r].doing = "delete" /\ locking = {r} /\ u \in Admins /\ Exists(u) /\ MayDisable(r, u)
    /\ account' = [account EXCEPT ![u] = Absent]
    /\ locking' = {} /\ Answered(r) /\ UNCHANGED minted

NextAccounts ==
    \E r \in Handlers :
       \/ \E u \in Users, pw \in Passwords :
             Login(r, u, pw) \/ CreateAdmin(r, u, pw) \/ ResetPassword(r, u, pw)
       \/ \E t \in minted : Enter(r, t)
       \/ \E old, new \in Passwords : ChangePassword(r, old, new)
       \/ MarkDefault(r) \/ RefreshVersion(r) \/ LockAdmins(r) \/ Refuse(r)
       \/ \E u \in Admins, pw \in Passwords \cup {NoPassword} : UpdateAdmin(r, u, pw)
       \/ \E u \in Admins : DeleteAdmin(r, u)

SpecAccounts == InitAccounts /\ [][NextAccounts]_accountVars

----------------------------------------------------------------------------
(* Properties *)

TypeOKAccounts ==
    /\ account \in [Users -> Rows] /\ minted \subseteq [user : Users, version : 0..MaxVersion]
    /\ request \in [Handlers -> [doing : {"nothing", "marks", "change", "refresh", "create", "reset", "update", "delete"},
                                 user : SUBSET Users, row : Rows]]
    /\ locking \in {{}} \cup {{r} : r \in Handlers}

\* "At least one active platform administrator is required": administrators who
\* disable or delete each other at the same time leave one.
AdminRemains == ActiveAdmins # {}

\* "Every token issued before this point stops working": a change of an
\* account's password, by its owner or by an administrator, its disabling and
\* its deletion end every token issued so far, for ever, whatever other changes
\* run at the same time.
Dead(t) == ~Exists(t.user) \/ t.version # account[t.user].version
TokensEnd == [][
    /\ \A u \in Users : account'[u].password # account[u].password \/ (account[u].active /\ ~account'[u].active)
          => \A t \in minted : t.user = u => Dead(t)'
    /\ \A t \in minted : Dead(t) => Dead(t)']_accountVars

\* Neither the last administrator nor an end of tokens is lost to changes of
\* accounts that run at the same time
AccountsSound == [][AdminRemains']_accountVars /\ TokensEnd
=============================================================================
