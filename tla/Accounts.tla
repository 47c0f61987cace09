------------------------------ MODULE Accounts ------------------------------
(***************************************************************************)
(* Signing in, sessions, and the administration of members and roles.      *)
(*                                                                         *)
(* A login reads the account, compares the password and writes the         *)
(* account; a request with a cookie reads the session, the account with       *)
(* its role and warehouses, and the permissions of the role.  Each of      *)
(* these is a statement of its own, and others run in between.  An update  *)
(* of a member or of a role is a transaction that locks the row and        *)
(* replaces the rows that hang on it.  Module Attempts limits the logins   *)
(* from one address before they come here.                                 *)
(*                                                                         *)
(* quiet is a history variable: whether nothing has been written, and no   *)
(* time has passed, since a request arrived.  wrong is another: the wrong  *)
(* passwords there have been for an account since it was signed in last.   *)
(***************************************************************************)
EXTENDS Naturals, FiniteSets

CONSTANTS
  People,           \* members
  Browsers,         \* each with a cookie, and one call at a time
  Sessions,         \* sessions that can be created
  Roles, Rights,    \* roles besides "admin", and permissions
  Stores,           \* warehouses a member can be assigned
  RoleRequests, ScopeRequests, RightRequests,  \* what administrators ask for:
                    \* roles and warehouses of members, permissions of roles
  Editors,          \* administrators at work at once
  MaxFailedLogins,
  Lockout, SessionTtl,  \* in ticks
  MaxTime,          \* where time stops
  Nil               \* no value

ASSUME LockoutAssumption ==
  MaxFailedLogins \in Nat \ {0} /\ Lockout \in Nat \ {0} /\ SessionTtl \in Nat /\ MaxTime \in Nat
ASSUME EditAssumption ==
  /\ RoleRequests \subseteq Roles \cup {"admin"}
  /\ Nil \notin [who : People, end : Nat, revoked : BOOLEAN]

VARIABLES
  account,          \* member -> role, whether active, failures, locked until
  scope, rights,    \* member -> warehouses, role -> permissions
  sessionRow,       \* session -> member, end, whether revoked; or Nil
  now,
  cookie, call,     \* browser -> its token, the call it makes
  edit,             \* administrator -> his transaction
  quiet, wrong
accountVars == <<account, scope, rights, sessionRow, now, cookie, call, edit, quiet, wrong>>
tables == <<account, scope, rights, sessionRow>>

NoCall == [pc |-> "idle"]
NoEdit == [pc |-> "idle"]
AllRoles == Roles \cup {"admin"}
LoginSteps == {"verify", "success", "session"}
RequestSteps == {"token", "user", "permit", "granted"}

AccountTypeOK ==
  /\ \A p \in People : account[p] \in
       [role : AllRoles, active : BOOLEAN, fails : Nat, locked : 0..(MaxTime + Lockout)]
  /\ \A s \in Sessions : sessionRow[s] = Nil \/
       sessionRow[s] \in [who : People, end : Nat, revoked : BOOLEAN]
  /\ \A b \in Browsers : /\ call[b].pc \in {"idle"} \cup LoginSteps \cup RequestSteps
                         /\ cookie[b] # Nil => sessionRow[cookie[b].sid] # Nil

In(b, pc) == call[b].pc = pc
Step(b, pc) == call' = [call EXCEPT ![b].pc = pc]
End(b) == call' = [call EXCEPT ![b] = NoCall]
(* A row that a transaction has updated keeps other writers waiting.       *)
RowFree(kind, x) ==
  {a \in Editors : edit[a].pc = "replacing" /\ edit[a].kind = kind /\ edit[a].at = x} = {}

(***************************************************************************)
(* Signing in.                                                             *)
(***************************************************************************)
FindByUsername(b, p) ==
  /\ In(b, "idle")
  /\ call' = [call EXCEPT ![b] = [pc |-> "verify", who |-> p, saw |-> account[p], stores |-> scope[p]]]
  /\ UNCHANGED <<tables, now, cookie, edit, wrong>>

(* Broken variant: the count is computed from the account that was read.    *)
CountsWhatItRead(b, p) == account' = [account EXCEPT
  ![p].fails = call[b].saw.fails + 1,
  ![p].locked = IF call[b].saw.fails + 1 >= MaxFailedLogins THEN now + Lockout ELSE @]
(* One UPDATE: the count, and the lock when it comes to the limit.         *)
RecordFailedLogin(b, p) == account' = [account EXCEPT
  ![p].fails = @ + 1, ![p].locked = IF account[p].fails + 1 >= MaxFailedLogins THEN now + Lockout ELSE @]
PasswordWrong(b) == LET p == call[b].who IN
  /\ In(b, "verify") /\ RowFree("member", p) /\ account[p].fails <= MaxFailedLogins
  /\ RecordFailedLogin(b, p) /\ wrong' = [wrong EXCEPT ![p] = @ + 1] /\ End(b)
  /\ UNCHANGED <<scope, rights, sessionRow, now, cookie, edit>>
(* The account is judged as it was when it was read.                       *)
PasswordRight(b) ==
  /\ In(b, "verify")
  /\ IF call[b].saw.active /\ call[b].saw.locked <= now THEN Step(b, "success") ELSE End(b)
  /\ UNCHANGED <<tables, now, cookie, edit, wrong>>
RecordSuccessfulLogin(b) == LET p == call[b].who IN
  /\ In(b, "success") /\ RowFree("member", p)
  /\ account' = [account EXCEPT ![p].fails = 0, ![p].locked = 0]
  /\ wrong' = [wrong EXCEPT ![p] = 0] /\ Step(b, "session")
  /\ UNCHANGED <<scope, rights, sessionRow, now, cookie, edit>>
(* The token tells the role and the warehouses as they were read.          *)
CreateSession(b, s) ==
  /\ In(b, "session") /\ sessionRow[s] = Nil
  /\ sessionRow' = [sessionRow EXCEPT ![s] = [who |-> call[b].who, end |-> now + SessionTtl, revoked |-> FALSE]]
  /\ cookie' = [cookie EXCEPT ![b] = [sid |-> s, role |-> call[b].saw.role, stores |-> call[b].stores]]
  /\ End(b) /\ UNCHANGED <<account, scope, rights, now, edit, wrong>>
CallDies(b) ==
  /\ ~In(b, "idle") /\ End(b)
  /\ UNCHANGED <<tables, now, cookie, edit, wrong>>

(***************************************************************************)
(* Requests.                                                               *)
(***************************************************************************)
Open(s) == sessionRow[s] # Nil /\ ~sessionRow[s].revoked /\ sessionRow[s].end > now
Ask(b, want, w) ==
  /\ In(b, "idle") /\ cookie[b] # Nil
  /\ call' = [call EXCEPT ![b] = [pc |-> "token", sid |-> cookie[b].sid, want |-> want, store |-> w]]
  /\ UNCHANGED <<tables, now, cookie, edit, wrong>>
FindSession(b) ==
  /\ In(b, "token") /\ IF Open(call[b].sid) THEN Step(b, "user") ELSE End(b)
  /\ UNCHANGED <<tables, now, cookie, edit, wrong>>
Owner(b) == sessionRow[call[b].sid].who
(* Broken variant: the claims of the token are believed.                    *)
TokenClaims(b) == [role |-> cookie[b].role, stores |-> cookie[b].stores]
(* Role and warehouses are read again, whatever the token says.            *)
Identity(b) == [role |-> account[Owner(b)].role, stores |-> scope[Owner(b)]]
FindById(b) ==
  /\ In(b, "user")
  /\ IF account[Owner(b)].active
     THEN call' = [call EXCEPT ![b] = [pc |-> "permit", sid |-> @.sid, want |-> @.want,
                                       store |-> @.store, auth |-> Identity(b)]]
     ELSE End(b)
  /\ UNCHANGED <<tables, now, cookie, edit, wrong>>
(* A request that names no warehouse is in everybody's scope.              *)
InScope(w, stores) == w = Nil \/ w \in stores
Can(b) == LET auth == call[b].auth IN
  \/ auth.role = "admin"
  \/ call[b].want \in rights[auth.role] /\ InScope(call[b].store, auth.stores)
RequirePermission(b) ==
  /\ In(b, "permit") /\ IF Can(b) THEN Step(b, "granted") ELSE End(b)
  /\ UNCHANGED <<tables, now, cookie, edit, wrong>>
Respond(b) ==
  /\ In(b, "granted") /\ End(b)
  /\ UNCHANGED <<tables, now, cookie, edit, wrong>>
Logout(b) ==
  /\ In(b, "idle") /\ cookie[b] # Nil
  /\ sessionRow' = [sessionRow EXCEPT ![cookie[b].sid].revoked = TRUE]
  /\ cookie' = [cookie EXCEPT ![b] = Nil]
  /\ UNCHANGED <<account, scope, rights, now, call, edit, wrong>>

(***************************************************************************)
(* Administration.                                                         *)
(***************************************************************************)
(* Broken variant: the rows are replaced without an update of the row       *)
(* they hang on.                                                            *)
NeverLocked(kind, x) == TRUE
(* UPDATE of the row, which waits for whoever has updated it, and DELETE   *)
(* of the rows that hang on it, as far as they are committed by now.       *)
Unlocked(kind, x) == RowFree(kind, x)
UpdateMember(a, p, role, new) ==
  /\ edit[a].pc = "idle" /\ Unlocked("member", p)
  /\ edit' = [edit EXCEPT ![a] = [pc |-> "replacing", kind |-> "member", at |-> p,
                                  role |-> role, new |-> new, gone |-> scope[p]]]
  /\ UNCHANGED <<tables, now, cookie, call, wrong>>
UpdateRole(a, r, new) ==
  /\ edit[a].pc = "idle" /\ Unlocked("role", r)
  /\ edit' = [edit EXCEPT ![a] = [pc |-> "replacing", kind |-> "role", at |-> r,
                                  new |-> new, gone |-> rights[r]]]
  /\ UNCHANGED <<tables, now, cookie, call, wrong>>
CommitEdit(a) == LET e == edit[a] IN
  /\ e.pc = "replacing"
  /\ IF e.kind = "member"
     THEN /\ account' = [account EXCEPT ![e.at].role = e.role]
          /\ scope' = [scope EXCEPT ![e.at] = (@ \ e.gone) \cup e.new] /\ UNCHANGED rights
     ELSE rights' = [rights EXCEPT ![e.at] = (@ \ e.gone) \cup e.new] /\ UNCHANGED <<account, scope>>
  /\ edit' = [edit EXCEPT ![a] = NoEdit]
  /\ UNCHANGED <<sessionRow, now, cookie, call, wrong>>
RollBackEdit(a) ==
  /\ edit[a].pc # "idle" /\ edit' = [edit EXCEPT ![a] = NoEdit]
  /\ UNCHANGED <<tables, now, cookie, call, wrong>>
ToggleMemberActive(p, yes) ==
  /\ RowFree("member", p) /\ account[p].active # yes
  /\ account' = [account EXCEPT ![p].active = yes]
  /\ UNCHANGED <<scope, rights, sessionRow, now, cookie, call, edit, wrong>>

Tick ==
  /\ now < MaxTime /\ now' = now + 1
  /\ UNCHANGED <<tables, cookie, call, edit, wrong>>

(***************************************************************************)
(* The specification.                                                      *)
(***************************************************************************)
History ==
  LET calm == <<tables, now>>' = <<tables, now>>
      asks(b) == call'[b].pc \in RequestSteps
  IN  quiet' = [b \in Browsers |-> asks(b) /\ (In(b, "idle") \/ (quiet[b] /\ calm))]

AccountInit ==
  /\ account \in [People -> [role : AllRoles, active : {TRUE}, fails : {0}, locked : {0}]]
  /\ scope \in [People -> ScopeRequests] /\ rights \in [Roles -> RightRequests]
  /\ sessionRow = [s \in Sessions |-> Nil] /\ now = 0
  /\ cookie = [b \in Browsers |-> Nil] /\ call = [b \in Browsers |-> NoCall]
  /\ edit = [a \in Editors |-> NoEdit] /\ quiet = [b \in Browsers |-> FALSE]
  /\ wrong = [p \in People |-> 0]

Login(b) ==
  \/ (\E p \in People : FindByUsername(b, p)) \/ PasswordWrong(b) \/ PasswordRight(b)
  \/ RecordSuccessfulLogin(b) \/ \E s \in Sessions : CreateSession(b, s)
Request(b) ==
  \/ \E want \in Rights, w \in Stores \cup {Nil} : Ask(b, want, w)
  \/ FindSession(b) \/ FindById(b) \/ RequirePermission(b) \/ Respond(b) \/ Logout(b)
Administration ==
  \/ \E a \in Editors :
       \/ \E p \in People, role \in RoleRequests, new \in ScopeRequests : UpdateMember(a, p, role, new)
       \/ \E r \in Roles, new \in RightRequests : UpdateRole(a, r, new)
       \/ CommitEdit(a) \/ RollBackEdit(a)
  \/ \E p \in People, yes \in BOOLEAN : ToggleMemberActive(p, yes)
AccountNext ==
  /\ \/ \E b \in Browsers : Login(b) \/ Request(b) \/ CallDies(b)
     \/ Administration \/ Tick
  /\ History
AccountSpec == AccountInit /\ [][AccountNext]_accountVars

(***************************************************************************)
(* Properties.                                                             *)
(***************************************************************************)
(* A request that nobody interferes with is granted on what holds now: its *)
(* session is open, the account active, the role and the warehouses are    *)
(* those of today, and the role has the permission (authContext.js:35-36,  *)
(* authService.js:105-129).  The token may be hours old.                   *)
AnswersAreCurrent == \A b \in Browsers : In(b, "granted") /\ quiet[b] =>
  LET who == Owner(b)  role == account[who].role IN
  /\ Open(call[b].sid) /\ account[who].active
  /\ role # "admin" => /\ call[b].want \in rights[role]
                       /\ InScope(call[b].store, scope[who])

(* Two administrators who save a member or a role at once leave what one   *)
(* of them has asked for, not a mixture (members.js:146-244 and            *)
(* roles.js:96-162 of the repository).                                     *)
OneRequestDecides ==
  /\ \A p \in People : scope[p] \in ScopeRequests
  /\ \A r \in Roles : rights[r] \in RightRequests

(* No wrong password goes uncounted when several are tried at once, and an *)
(* account that has come to the limit has been locked                      *)
(* (authRepository.js:73-87).                                              *)
EveryFailureCounts == \A p \in People :
  account[p].fails = wrong[p] /\ (wrong[p] >= MaxFailedLogins => account[p].locked > 0)
=============================================================================
