----------------------------- MODULE Accounts ------------------------------
(***************************************************************************)
(* User accounts: registering, logging in, and what administrators do to   *)
(* the accounts of others.                                                 *)
(*                                                                         *)
(* Every handler checks first and writes later, with other handlers in     *)
(* between: a registration looks for the address and for the name before   *)
(* it inserts the row, an administrator is looked up before the command    *)
(* runs.  Only the unique indexes of the table see both ends.              *)
(***************************************************************************)
EXTENDS Integers

CONSTANTS
  Founders,      \* users with a row in the beginning, all administrators
  Registrations, \* POST /api/auth/register; the id of the row it may insert
  Logins,        \* POST /api/auth/login
  Commands,      \* requests of administrators
  EmailOf,       \* users.email, stripped and in lower case; of a login, what it names
  NameOf,        \* users.username, stripped
  NoUser

Users    == Founders \cup Registrations
Sessions == Registrations \cup Logins

ASSUME AccountAssumption ==
  /\ Founders \cap Registrations = {}
  /\ Users \cap Logins = {}
  /\ NoUser \notin Users

ASSUME FounderAssumption ==
  \A u, v \in Founders : EmailOf[u] = EmailOf[v] \/ NameOf[u] = NameOf[v] => u = v

VARIABLES
  account, \* whether a user's row exists
  blocked, \* users.is_blocked
  admins,  \* users.is_admin
  session, \* where a registration or a login stands
  found,   \* the row a login has read
  tokens,  \* users for whom an access token has been issued
  command  \* the command an administrator has been let in for

table    == <<account, blocked, admins>>
visit    == <<session, found>>
accounts == <<table, visit, tokens, command>>

Row   == {"absent", "present", "deleted"}
Stage == {"start", "email", "username", "insert", "payload",
          "token", "refused", "conflict", "error"}

Verb == {"block", "unblock", "promote", "revoke", "delete"}

NoCommand == [by |-> NoUser, verb |-> "none", to |-> NoUser]
Order     == [by : Users, verb : Verb, to : Users]

AccountsTypeOK ==
  /\ account \in [Users -> Row]
  /\ blocked \subseteq Users
  /\ admins \subseteq Users
  /\ session \in [Sessions -> Stage]
  /\ found \in [Logins -> Users \cup {NoUser}]
  /\ tokens \subseteq Users
  /\ command \in [Commands -> Order \cup {NoCommand}]

AccountsInit ==
  /\ account = [u \in Users |-> IF u \in Founders THEN "present" ELSE "absent"]
  /\ blocked = {}
  /\ admins = Founders
  /\ session = [s \in Sessions |-> "start"]
  /\ found = [l \in Logins |-> NoUser]
  /\ tokens = Founders
  /\ command = [c \in Commands |-> NoCommand]

Present == {u \in Users : account[u] = "present"}

-----------------------------------------------------------------------------
(* Registering *)

Move(s, stage) == session' = [session EXCEPT ![s] = stage]

\* The lengths and the agreement.
BeginRegistration(r) ==
  /\ session[r] = "start"
  /\ Move(r, "email") \/ Move(r, "refused")
  /\ UNCHANGED <<table, found, tokens, command>>

CheckEmail(r) ==
  /\ session[r] = "email"
  /\ Move(r, IF \E u \in Present : EmailOf[u] = EmailOf[r] THEN "conflict" ELSE "username")
  /\ UNCHANGED <<table, found, tokens, command>>

CheckUsername(r) ==
  /\ session[r] = "username"
  /\ Move(r, IF \E u \in Present : NameOf[u] = NameOf[r] THEN "conflict" ELSE "insert")
  /\ UNCHANGED <<table, found, tokens, command>>

Rivals(r) == {u \in Present : EmailOf[u] = EmailOf[r] \/ NameOf[u] = NameOf[r]}

\* UserRepository.create, whose columns are unique.
InsertUser(r) ==
  /\ session[r] = "insert"
  /\ IF Rivals(r) = {}
       THEN account' = [account EXCEPT ![r] = "present"] /\ Move(r, "payload")
       ELSE UNCHANGED account /\ Move(r, "error")
  /\ UNCHANGED <<blocked, admins, found, tokens, command>>

-----------------------------------------------------------------------------
(* Logging in *)

\* The row is read once; the password may be wrong.
ReadCredentials(l) ==
  /\ session[l] = "start"
  /\ \/ \E u \in Present \ blocked :
          /\ EmailOf[u] = EmailOf[l]
          /\ found' = [found EXCEPT ![l] = u]
          /\ Move(l, "payload")
     \/ UNCHANGED found /\ Move(l, "refused")
  /\ UNCHANGED <<table, tokens, command>>

\* _auth_payload signs a token and reads the usage, which may fail: the client
\* gets no token although a registration's row exists.
AnswerSession(s) ==
  LET u == IF s \in Logins THEN found[s] ELSE s IN
  /\ session[s] = "payload"
  /\ \/ tokens' = tokens \cup {u} /\ Move(s, "token")
     \/ UNCHANGED tokens /\ Move(s, "error")
  /\ UNCHANGED <<table, found, command>>

-----------------------------------------------------------------------------
(* Administrators *)

\* current_user_id, the dependency of every other route.
Authorised(u) == u \in tokens /\ u \in Present \ blocked

\* require_admin, and that nobody may revoke or delete himself.  A blocked
\* administrator is still one.  (Plausible bug first: that is forgotten.)
OrderAnyone(c, a, v, u) ==
  /\ command[c] = NoCommand
  /\ a \in tokens /\ a \in Present /\ a \in admins
  /\ command' = [command EXCEPT ![c] = [by |-> a, verb |-> v, to |-> u]]
  /\ UNCHANGED <<table, visit, tokens>>

OrderCommand(c, a, v, u) ==
  /\ command[c] = NoCommand
  /\ a \in tokens /\ a \in Present /\ a \in admins
  /\ v \in {"revoke", "delete"} => u # a
  /\ command' = [command EXCEPT ![c] = [by |-> a, verb |-> v, to |-> u]]
  /\ UNCHANGED <<table, visit, tokens>>

\* UPDATE users or DELETE FROM users WHERE id = u; no row, no effect.
SetField(v, u) ==
  /\ blocked' = CASE v = "block"   -> blocked \cup {u}
                  [] v = "unblock" -> blocked \ {u}
                  [] OTHER         -> blocked
  /\ admins' = CASE v = "promote"            -> admins \cup {u}
                 [] v \in {"revoke", "delete"} -> admins \ {u}
                 [] OTHER                    -> admins

RunCommand(c) ==
  LET v == command[c].verb
      u == command[c].to
  IN
  /\ command[c] # NoCommand
  /\ command' = [command EXCEPT ![c] = NoCommand]
  /\ IF u \in Present
       THEN /\ SetField(v, u)
            /\ account' = [account EXCEPT ![u] = IF v = "delete" THEN "deleted" ELSE @]
       ELSE UNCHANGED table
  /\ UNCHANGED <<visit, tokens>>

-----------------------------------------------------------------------------
(* Properties *)

\* Two accounts never share an address or a name, although two registrations
\* of one name may both pass the two checks (auth_service.py:73-75).
UniqueAccounts ==
  \A u, v \in Present : EmailOf[u] = EmailOf[v] \/ NameOf[u] = NameOf[v] => u = v

\* The last administrator is lost only to a race: "Cannot revoke your own admin
\* rights" and "Cannot delete your own account here" (admin.py:87, 94) keep the
\* actor an administrator, unless another command, let in before, got him first.
LastAdminFallsToARace ==
  [][admins # {} /\ admins' = {} =>
       \E c \in Commands :
         command[c] # command'[c] /\ command[c].by \notin admins]_accounts

-----------------------------------------------------------------------------
(* The inductive invariant *)

NobodyOrdersHimself ==
  \A c \in Commands :
    command[c] # NoCommand /\ command[c].verb \in {"revoke", "delete"} => command[c].by # command[c].to

LoginsHaveRows == \A l \in Logins : session[l] = "payload" => found[l] \in Users

AccountsInv == AccountsTypeOK /\ UniqueAccounts /\ NobodyOrdersHimself /\ LoginsHaveRows

=============================================================================
