--------------------------- MODULE AccountProofs ---------------------------
(***************************************************************************)
(* Concurrent logins, requests and edits of members and roles (Accounts),  *)
(* for any number of members, roles, browsers and administrators; and the  *)
(* limit on logins (Attempts).                                             *)
(***************************************************************************)
EXTENDS Accounts, Attempts, TLAPS

(* A row that is being edited is edited by one, who has read what it is    *)
(* now; a login is one of a member.                                        *)
Edits(a, kind, x) == edit[a].pc = "replacing" /\ edit[a].kind = kind /\ edit[a].at = x
EditOf(a) ==
  \/ edit[a] = NoEdit
  \/ \E p \in People, role \in RoleRequests, new \in ScopeRequests :
       edit[a] = [pc |-> "replacing", kind |-> "member", at |-> p, role |-> role, new |-> new,
                  gone |-> scope[p]]
  \/ \E r \in Roles, new \in RightRequests :
       edit[a] = [pc |-> "replacing", kind |-> "role", at |-> r, new |-> new, gone |-> rights[r]]
OneEdits == \A a, b \in Editors : \A kind \in {"member", "role"} : \A x :
  Edits(a, kind, x) /\ Edits(b, kind, x) => a = b
IndEdits ==
  /\ scope \in [People -> ScopeRequests] /\ rights \in [Roles -> RightRequests]
  /\ edit = [a \in Editors |-> edit[a]]
  /\ \A a \in Editors : EditOf(a)
  /\ OneEdits

LEMMA EditsStart == AccountInit => IndEdits
<1> SUFFICES ASSUME AccountInit PROVE IndEdits
  OBVIOUS
<1>1. edit = [a \in Editors |-> NoEdit]
      BY DEF AccountInit
<1>2. OneEdits
      BY <1>1 DEF OneEdits, Edits, NoEdit
<1> QED  BY <1>1, <1>2 DEF AccountInit, IndEdits, EditOf

LEMMA EditStands ==
  ASSUME NEW b, EditOf(b), edit'[b] = edit[b], UNCHANGED <<scope, rights>>
  PROVE  EditOf(b)'
BY DEF EditOf

(* Whoever finds the row free is the only one to edit it.                  *)
LEMMA EditBegins ==
  ASSUME IndEdits, NEW a \in Editors, NEW kind \in {"member", "role"}, NEW x, NEW e,
         Unlocked(kind, x), edit' = [edit EXCEPT ![a] = e], e.pc = "replacing", e.kind = kind, e.at = x,
         UNCHANGED <<scope, rights>>, EditOf(a)'
  PROVE  IndEdits'
<1>1. /\ edit'[a] = e
      /\ \A b \in Editors \ {a} : edit'[b] = edit[b]
      /\ edit' = [b \in Editors |-> edit'[b]]
      BY DEF IndEdits
<1>2. \A b \in Editors : ~Edits(b, kind, x)
      BY DEF Unlocked, RowFree, Edits
<1>3. OneEdits'
  <2> SUFFICES ASSUME NEW b \in Editors, NEW c \in Editors, NEW k \in {"member", "role"}, NEW y,
                      Edits(b, k, y)', Edits(c, k, y)'
               PROVE  b = c
    BY DEF OneEdits
  <2>1. CASE b # a /\ c # a
    BY <1>1, <2>1 DEF IndEdits, OneEdits, Edits
  <2>2. CASE b = a \/ c = a
    BY <1>1, <1>2, <2>2 DEF Edits
  <2> QED  BY <2>1, <2>2
<1>4. \A b \in Editors : EditOf(b)'
      BY <1>1, EditStands DEF IndEdits
<1> QED  BY <1>1, <1>3, <1>4 DEF IndEdits

(* An edit that ends without a trace.                                      *)
LEMMA EditEnds ==
  ASSUME IndEdits, NEW a \in Editors, edit' = [edit EXCEPT ![a] = NoEdit]
  PROVE  OneEdits' /\ edit' = [b \in Editors |-> edit'[b]] /\ edit'[a] = NoEdit
         /\ \A b \in Editors \ {a} : edit'[b] = edit[b]
<1>1. /\ edit'[a] = NoEdit
      /\ \A b \in Editors \ {a} : edit'[b] = edit[b]
      /\ edit' = [b \in Editors |-> edit'[b]]
      BY DEF IndEdits
<1>2. OneEdits'
      BY <1>1 DEF IndEdits, OneEdits, Edits, NoEdit
<1> QED  BY <1>1, <1>2

LEMMA EditsStep == IndEdits /\ [AccountNext]_accountVars => IndEdits'
<1> SUFFICES ASSUME IndEdits, [AccountNext]_accountVars PROVE IndEdits'
  OBVIOUS
<1>1. ASSUME UNCHANGED <<scope, rights, edit>> PROVE IndEdits'
  BY <1>1 DEF IndEdits, EditOf, OneEdits, Edits
<1>2. CASE UNCHANGED accountVars
  BY <1>1, <1>2 DEF accountVars
<1>3. ASSUME NEW b \in Browsers, Login(b) \/ Request(b) \/ CallDies(b) PROVE IndEdits'
  <2>1. CASE Login(b)
    BY <1>1, <2>1 DEF Login, FindByUsername, PasswordWrong, PasswordRight, RecordSuccessfulLogin,
                      CreateSession, tables
  <2>2. CASE Request(b)
    BY <1>1, <2>2 DEF Request, Ask, FindSession, FindById, RequirePermission, Respond, Logout, tables
  <2>3. CASE CallDies(b)
    BY <1>1, <2>3 DEF CallDies, tables
  <2> QED  BY <1>3, <2>1, <2>2, <2>3
<1>4. CASE Tick
  BY <1>1, <1>4 DEF Tick, tables
<1>5. ASSUME NEW p \in People, NEW yes \in BOOLEAN, ToggleMemberActive(p, yes) PROVE IndEdits'
  BY <1>1, <1>5 DEF ToggleMemberActive
<1>6. ASSUME NEW a \in Editors, NEW p \in People, NEW role \in RoleRequests, NEW new \in ScopeRequests,
             UpdateMember(a, p, role, new)
      PROVE  IndEdits'
  <2> DEFINE e == [pc |-> "replacing", kind |-> "member", at |-> p, role |-> role, new |-> new,
                   gone |-> scope[p]]
  <2>1. /\ edit' = [edit EXCEPT ![a] = e] /\ UNCHANGED <<scope, rights>> /\ Unlocked("member", p)
        BY <1>6 DEF UpdateMember, tables
  <2>2. EditOf(a)'
        BY <2>1 DEF EditOf, IndEdits
  <2>3. e.pc = "replacing" /\ e.kind = "member" /\ e.at = p
        OBVIOUS
  <2> HIDE DEF e
  <2> QED  BY <2>1, <2>2, <2>3, EditBegins
<1>7. ASSUME NEW a \in Editors, NEW r \in Roles, NEW new \in RightRequests, UpdateRole(a, r, new)
      PROVE  IndEdits'
  <2> DEFINE e == [pc |-> "replacing", kind |-> "role", at |-> r, new |-> new, gone |-> rights[r]]
  <2>1. /\ edit' = [edit EXCEPT ![a] = e] /\ UNCHANGED <<scope, rights>> /\ Unlocked("role", r)
        BY <1>7 DEF UpdateRole, tables
  <2>2. EditOf(a)'
        BY <2>1 DEF EditOf, IndEdits
  <2>3. e.pc = "replacing" /\ e.kind = "role" /\ e.at = r
        OBVIOUS
  <2> HIDE DEF e
  <2> QED  BY <2>1, <2>2, <2>3, EditBegins
<1>8. ASSUME NEW a \in Editors, CommitEdit(a) PROVE IndEdits'
  <2>1. /\ OneEdits' /\ edit' = [b \in Editors |-> edit'[b]] /\ edit'[a] = NoEdit
        /\ \A b \in Editors \ {a} : edit'[b] = edit[b]
        BY <1>8, EditEnds DEF CommitEdit
  <2>2. CASE edit[a] = NoEdit
    BY <1>8, <2>2 DEF CommitEdit, NoEdit
  <2>3. ASSUME NEW p \in People, NEW role \in RoleRequests, NEW new \in ScopeRequests,
               edit[a] = [pc |-> "replacing", kind |-> "member", at |-> p, role |-> role, new |-> new,
                          gone |-> scope[p]]
        PROVE  IndEdits'
    <3>1. /\ scope' = [scope EXCEPT ![p] = (@ \ scope[p]) \cup new] /\ UNCHANGED rights
          BY <1>8, <2>3 DEF CommitEdit
    <3>2. (scope[p] \ scope[p]) \cup new = new
          OBVIOUS
    <3>3. scope' = [scope EXCEPT ![p] = new]
          BY <3>1, <3>2
    <3>4. scope' \in [People -> ScopeRequests] /\ rights' \in [Roles -> RightRequests]
          BY <3>1, <3>3 DEF IndEdits
    <3>5. ASSUME NEW b \in Editors PROVE EditOf(b)'
      <4>1. CASE b = a
        BY <2>1, <4>1 DEF EditOf
      <4>2. CASE b # a
        <5>1. ~Edits(b, "member", p)
              BY <2>3, <4>2 DEF IndEdits, OneEdits, Edits
        <5>2. edit'[b] = edit[b] /\ EditOf(b)
              BY <2>1, <4>2 DEF IndEdits
        <5>3. CASE edit[b] = NoEdit
          BY <5>2, <5>3 DEF EditOf
        <5>4. ASSUME NEW q \in People, NEW rl \in RoleRequests, NEW nw \in ScopeRequests,
                     edit[b] = [pc |-> "replacing", kind |-> "member", at |-> q, role |-> rl,
                                new |-> nw, gone |-> scope[q]]
              PROVE  EditOf(b)'
          <6>1. q # p
                BY <5>1, <5>4 DEF Edits
          <6>2. scope'[q] = scope[q]
                BY <3>3, <6>1 DEF IndEdits
          <6> QED  BY <5>2, <5>4, <6>2 DEF EditOf
        <5>5. ASSUME NEW r \in Roles, NEW nw \in RightRequests,
                     edit[b] = [pc |-> "replacing", kind |-> "role", at |-> r, new |-> nw, gone |-> rights[r]]
              PROVE  EditOf(b)'
          BY <3>1, <5>2, <5>5 DEF EditOf
        <5> QED  BY <5>2, <5>3, <5>4, <5>5 DEF EditOf
      <4> QED  BY <4>1, <4>2
    <3> QED  BY <2>1, <3>4, <3>5 DEF IndEdits
  <2>4. ASSUME NEW r \in Roles, NEW new \in RightRequests,
               edit[a] = [pc |-> "replacing", kind |-> "role", at |-> r, new |-> new, gone |-> rights[r]]
        PROVE  IndEdits'
    <3>1. /\ rights' = [rights EXCEPT ![r] = (@ \ rights[r]) \cup new] /\ UNCHANGED scope
          BY <1>8, <2>4 DEF CommitEdit
    <3>2. (rights[r] \ rights[r]) \cup new = new
          OBVIOUS
    <3>3. rights' = [rights EXCEPT ![r] = new]
          BY <3>1, <3>2
    <3>4. scope' \in [People -> ScopeRequests] /\ rights' \in [Roles -> RightRequests]
          BY <3>1, <3>3 DEF IndEdits
    <3>5. ASSUME NEW b \in Editors PROVE EditOf(b)'
      <4>1. CASE b = a
        BY <2>1, <4>1 DEF EditOf
      <4>2. CASE b # a
        <5>1. ~Edits(b, "role", r)
              BY <2>4, <4>2 DEF IndEdits, OneEdits, Edits
        <5>2. edit'[b] = edit[b] /\ EditOf(b)
              BY <2>1, <4>2 DEF IndEdits
        <5>3. CASE edit[b] = NoEdit
          BY <5>2, <5>3 DEF EditOf
        <5>4. ASSUME NEW q \in Roles, NEW nw \in RightRequests,
                     edit[b] = [pc |-> "replacing", kind |-> "role", at |-> q, new |-> nw, gone |-> rights[q]]
              PROVE  EditOf(b)'
          <6>1. q # r
                BY <5>1, <5>4 DEF Edits
          <6>2. rights'[q] = rights[q]
                BY <3>3, <6>1 DEF IndEdits
          <6> QED  BY <5>2, <5>4, <6>2 DEF EditOf
        <5>5. ASSUME NEW p \in People, NEW rl \in RoleRequests, NEW nw \in ScopeRequests,
                     edit[b] = [pc |-> "replacing", kind |-> "member", at |-> p, role |-> rl,
                                new |-> nw, gone |-> scope[p]]
              PROVE  EditOf(b)'
          BY <3>1, <5>2, <5>5 DEF EditOf
        <5> QED  BY <5>2, <5>3, <5>4, <5>5 DEF EditOf
      <4> QED  BY <4>1, <4>2
    <3> QED  BY <2>1, <3>4, <3>5 DEF IndEdits
  <2> QED  BY <2>2, <2>3, <2>4 DEF IndEdits, EditOf
<1>9. ASSUME NEW a \in Editors, RollBackEdit(a) PROVE IndEdits'
  <2>1. /\ OneEdits' /\ edit' = [b \in Editors |-> edit'[b]] /\ edit'[a] = NoEdit
        /\ \A b \in Editors \ {a} : edit'[b] = edit[b]
        BY <1>9, EditEnds DEF RollBackEdit
  <2>2. UNCHANGED <<scope, rights>>
        BY <1>9 DEF RollBackEdit, tables
  <2>3. \A b \in Editors \ {a} : EditOf(b)'
        BY <2>1, <2>2, EditStands DEF IndEdits
  <2>4. EditOf(a)'
        BY <2>1 DEF EditOf
  <2> QED  BY <2>1, <2>2, <2>3, <2>4 DEF IndEdits
<1> QED  BY <1>2, <1>3, <1>4, <1>5, <1>6, <1>7, <1>8, <1>9 DEF AccountNext, Administration

(* Two administrators who save a member or a role at once leave what one   *)
(* of them has asked for, not a mixture (members.js:146-244 and            *)
(* roles.js:96-162 of the repository).                                     *)
THEOREM EditsAreWhole == AccountSpec => []OneRequestDecides
<1>1. IndEdits => OneRequestDecides
      BY DEF IndEdits, OneRequestDecides
<1> QED  BY <1>1, EditsStart, EditsStep, PTL DEF AccountSpec

(* Why no failure is lost: the count is one statement, so it is what the   *)
(* history says, and the statement that comes to the limit locks.          *)
AccountRow == [role : AllRoles, active : BOOLEAN, fails : Nat, locked : Nat]
CallShape == call = [b \in Browsers |-> call[b]] /\ \A b \in Browsers :
  /\ "pc" \in DOMAIN call[b] /\ call[b] = [f \in DOMAIN call[b] |-> call[b][f]]
  /\ call[b].pc \in LoginSteps => "who" \in DOMAIN call[b] /\ call[b].who \in People
IndFails ==
  /\ now \in Nat /\ account \in [People -> AccountRow] /\ wrong \in [People -> Nat]
  /\ EveryFailureCounts /\ CallShape

LEMMA FailsStart == AccountInit => IndFails
<1> SUFFICES ASSUME AccountInit PROVE IndFails
  OBVIOUS
<1>1. call = [b \in Browsers |-> NoCall]
      BY DEF AccountInit
<1>2. CallShape
      BY <1>1 DEF CallShape, NoCall, LoginSteps
<1>3. account \in [People -> AccountRow] /\ \A p \in People : account[p].fails = 0
  <2>1. \A x \in [role : AllRoles, active : {TRUE}, fails : {0}, locked : {0}] :
          x \in AccountRow /\ x.fails = 0
    <3> TAKE x \in [role : AllRoles, active : {TRUE}, fails : {0}, locked : {0}]
    <3>1. /\ x = [role |-> x.role, active |-> x.active, fails |-> x.fails, locked |-> x.locked]
          /\ x.role \in AllRoles /\ x.active \in {TRUE} /\ x.fails = 0 /\ x.locked = 0
          OBVIOUS
    <3>2. x.fails \in Nat /\ x.locked \in Nat
          BY <3>1
    <3>3. x.active \in BOOLEAN
          BY <3>1, Zenon
    <3> QED  BY <3>1, <3>2, <3>3 DEF AccountRow
  <2> QED  BY <2>1 DEF AccountInit
<1>4. now \in Nat /\ wrong \in [People -> Nat] /\ \A p \in People : wrong[p] = 0
      BY DEF AccountInit
<1> QED  BY <1>2, <1>3, <1>4, LockoutAssumption DEF IndFails, EveryFailureCounts

(* The next step of a call.                                                *)
LEMMA StepShape ==
  ASSUME CallShape, NEW b \in Browsers, NEW pc, Step(b, pc),
         pc \in LoginSteps => call[b].pc \in LoginSteps
  PROVE  CallShape'
<1>1. /\ call'[b] = [call[b] EXCEPT !.pc = pc] /\ \A c \in Browsers \ {b} : call'[c] = call[c]
      /\ call' = [c \in Browsers |-> call'[c]]
      BY DEF Step, CallShape
<1>2. /\ DOMAIN call'[b] = DOMAIN call[b] /\ call'[b].pc = pc
      /\ call'[b] = [f \in DOMAIN call'[b] |-> call'[b][f]]
      /\ "who" \in DOMAIN call[b] => call'[b].who = call[b].who
      BY <1>1 DEF CallShape
<1> QED  BY <1>1, <1>2 DEF CallShape
LEMMA EndShape ==
  ASSUME CallShape, NEW b \in Browsers, End(b)
  PROVE  CallShape'
<1>1. /\ call'[b] = NoCall /\ \A c \in Browsers \ {b} : call'[c] = call[c]
      /\ call' = [c \in Browsers |-> call'[c]]
      BY DEF End, CallShape
<1> QED  BY <1>1 DEF CallShape, NoCall, LoginSteps
(* A new call: a login of a member, or something else.                     *)
LEMMA CallBegins ==
  ASSUME CallShape, NEW b \in Browsers, NEW c, call' = [call EXCEPT ![b] = c],
         "pc" \in DOMAIN c, c = [f \in DOMAIN c |-> c[f]],
         c.pc \in LoginSteps => "who" \in DOMAIN c /\ c.who \in People
  PROVE  CallShape'
<1>1. /\ call'[b] = c /\ \A d \in Browsers \ {b} : call'[d] = call[d]
      /\ call' = [d \in Browsers |-> call'[d]]
      BY DEF CallShape
<1> QED  BY <1>1 DEF CallShape

(* A step that changes neither counts nor time.                            *)
LEMMA NothingFails ==
  ASSUME IndFails, UNCHANGED <<account, now, wrong>>, CallShape'
  PROVE  IndFails'
BY DEF IndFails, EveryFailureCounts
(* A step that changes the rest of an account.                             *)
LEMMA CountsStand ==
  ASSUME IndFails, account' \in [People -> AccountRow], UNCHANGED <<now, wrong>>, CallShape',
         \A p \in People : account'[p].fails = account[p].fails /\ account'[p].locked = account[p].locked
  PROVE  IndFails'
BY DEF IndFails, EveryFailureCounts

LEMMA LoginFails == IndFails /\ (\E b \in Browsers : Login(b)) => IndFails'
<1> SUFFICES ASSUME IndFails, NEW b \in Browsers, Login(b) PROVE IndFails'
  OBVIOUS
<1>1. ASSUME NEW p \in People, FindByUsername(b, p) PROVE IndFails'
  <2> DEFINE c == [pc |-> "verify", who |-> p, saw |-> account[p], stores |-> scope[p]]
  <2>1. call' = [call EXCEPT ![b] = c] /\ UNCHANGED <<account, now, wrong>>
        BY <1>1 DEF FindByUsername, tables
  <2>2. "pc" \in DOMAIN c /\ "who" \in DOMAIN c /\ c.who \in People /\ c = [f \in DOMAIN c |-> c[f]]
        OBVIOUS
  <2> HIDE DEF c
  <2>3. CallShape'
        BY <2>1, <2>2, CallBegins DEF IndFails
  <2> QED  BY <2>1, <2>3, NothingFails
<1>2. CASE PasswordWrong(b)
  <2> DEFINE p == call[b].who
             row == [account[p] EXCEPT !.fails = @ + 1,
                       !.locked = IF account[p].fails + 1 >= MaxFailedLogins THEN now + Lockout ELSE @]
  <2>1. p \in People
        BY <1>2 DEF PasswordWrong, In, IndFails, CallShape, LoginSteps
  <2>2. account' = [account EXCEPT ![p] = row]
        BY <1>2 DEF PasswordWrong, RecordFailedLogin
  <2>3. wrong' = [wrong EXCEPT ![p] = @ + 1] /\ UNCHANGED now
        BY <1>2 DEF PasswordWrong
  <2>4. account[p] \in AccountRow /\ account[p].fails = wrong[p] /\ now \in Nat
        BY <2>1 DEF IndFails, EveryFailureCounts
  <2>5. /\ row \in AccountRow /\ row.fails = account[p].fails + 1
        /\ row.fails >= MaxFailedLogins => row.locked > 0
    <3> DEFINE lock == IF account[p].fails + 1 >= MaxFailedLogins THEN now + Lockout ELSE account[p].locked
    <3>1. account[p].fails \in Nat /\ account[p].locked \in Nat
          BY <2>4 DEF AccountRow
    <3>2. lock \in Nat /\ account[p].fails + 1 \in Nat
          BY <2>4, <3>1, LockoutAssumption
    <3>3. account[p].fails + 1 >= MaxFailedLogins => lock > 0
          BY <2>4, LockoutAssumption
    <3>4. row = [account[p] EXCEPT !.fails = account[p].fails + 1, !.locked = lock]
          OBVIOUS
    <3> HIDE DEF lock, row, p
    <3>5. row \in AccountRow /\ row.fails = account[p].fails + 1 /\ row.locked = lock
          BY <2>4, <3>2, <3>4 DEF AccountRow
    <3> QED  BY <3>3, <3>5
  <2> HIDE DEF p, row
  <2>6. account' \in [People -> AccountRow] /\ wrong' \in [People -> Nat] /\ now' \in Nat
        BY <2>1, <2>2, <2>3, <2>5 DEF IndFails
  <2>7. account'[p] = row /\ \A q \in People \ {p} : account'[q] = account[q]
        BY <2>1, <2>2 DEF IndFails
  <2>8. wrong'[p] = wrong[p] + 1 /\ \A q \in People \ {p} : wrong'[q] = wrong[q]
        BY <2>1, <2>3 DEF IndFails
  <2>9. EveryFailureCounts'
    <3> SUFFICES ASSUME NEW q \in People
                 PROVE  /\ account'[q].fails = wrong'[q]
                        /\ wrong'[q] >= MaxFailedLogins => account'[q].locked > 0
      BY DEF EveryFailureCounts
    <3>1. CASE q = p
      BY <2>4, <2>5, <2>7, <2>8, <3>1
    <3>2. CASE q # p
      BY <2>7, <2>8, <3>2 DEF IndFails, EveryFailureCounts
    <3> QED  BY <3>1, <3>2
  <2>10. CallShape'
        BY <1>2, EndShape DEF PasswordWrong, IndFails
  <2> QED  BY <2>6, <2>9, <2>10 DEF IndFails
<1>3. CASE PasswordRight(b)
  <2>1. CallShape'
        BY <1>3, EndShape, StepShape DEF PasswordRight, IndFails, In, LoginSteps
  <2> QED  BY <1>3, <2>1, NothingFails DEF PasswordRight, tables
<1>4. CASE RecordSuccessfulLogin(b)
  <2> DEFINE p == call[b].who
             row == [account[p] EXCEPT !.fails = 0, !.locked = 0]
  <2>1. p \in People
        BY <1>4 DEF RecordSuccessfulLogin, In, IndFails, CallShape, LoginSteps
  <2>2. account' = [account EXCEPT ![p] = row]
        BY <1>4 DEF RecordSuccessfulLogin
  <2>3. wrong' = [wrong EXCEPT ![p] = 0] /\ UNCHANGED now
        BY <1>4 DEF RecordSuccessfulLogin
  <2>4. account[p] \in AccountRow
        BY <2>1 DEF IndFails
  <2>5. row \in AccountRow /\ row.fails = 0
        BY <2>4 DEF AccountRow
  <2> HIDE DEF p, row
  <2>6. account' \in [People -> AccountRow] /\ wrong' \in [People -> Nat] /\ now' \in Nat
        BY <2>1, <2>2, <2>3, <2>5 DEF IndFails
  <2>7. account'[p] = row /\ \A q \in People \ {p} : account'[q] = account[q]
        BY <2>1, <2>2 DEF IndFails
  <2>8. wrong'[p] = 0 /\ \A q \in People \ {p} : wrong'[q] = wrong[q]
        BY <2>1, <2>3 DEF IndFails
  <2>9. EveryFailureCounts'
        BY <2>5, <2>7, <2>8, LockoutAssumption DEF IndFails, EveryFailureCounts
  <2>10. CallShape'
        BY <1>4, StepShape DEF RecordSuccessfulLogin, IndFails, In, LoginSteps
  <2> QED  BY <2>6, <2>9, <2>10 DEF IndFails
<1>5. ASSUME NEW s \in Sessions, CreateSession(b, s) PROVE IndFails'
  <2>1. CallShape'
        BY <1>5, EndShape DEF CreateSession, IndFails
  <2> QED  BY <1>5, <2>1, NothingFails DEF CreateSession
<1> QED  BY <1>1, <1>2, <1>3, <1>4, <1>5 DEF Login

LEMMA RequestFails == IndFails /\ (\E b \in Browsers : Request(b) \/ CallDies(b)) => IndFails'
<1> SUFFICES ASSUME IndFails, NEW b \in Browsers, Request(b) \/ CallDies(b) PROVE IndFails'
  OBVIOUS
<1>1. UNCHANGED <<account, now, wrong>>
      BY DEF Request, Ask, FindSession, FindById, RequirePermission, Respond, Logout, CallDies, tables
<1> SUFFICES CallShape'
  BY <1>1, NothingFails
<1>2. ASSUME NEW want, NEW w, Ask(b, want, w) PROVE CallShape'
  <2> DEFINE c == [pc |-> "token", sid |-> cookie[b].sid, want |-> want, store |-> w]
  <2>1. call' = [call EXCEPT ![b] = c]
        BY <1>2 DEF Ask
  <2>2. "pc" \in DOMAIN c /\ c.pc \notin LoginSteps /\ c = [f \in DOMAIN c |-> c[f]]
        BY DEF LoginSteps
  <2> HIDE DEF c
  <2> QED  BY <2>1, <2>2, CallBegins DEF IndFails
<1>3. CASE FindSession(b)
  BY <1>3, EndShape, StepShape DEF FindSession, IndFails, LoginSteps
<1>4. CASE FindById(b)
  <2> DEFINE c == [pc |-> "permit", sid |-> call[b].sid, want |-> call[b].want,
                   store |-> call[b].store, auth |-> Identity(b)]
  <2>1. CASE End(b)
    BY <2>1, EndShape DEF IndFails
  <2>2. CASE call' = [call EXCEPT ![b] = c]
    <3>1. "pc" \in DOMAIN c /\ c.pc \notin LoginSteps /\ c = [f \in DOMAIN c |-> c[f]]
          BY DEF LoginSteps
    <3> HIDE DEF c
    <3> QED  BY <2>2, <3>1, CallBegins DEF IndFails
  <2>3. End(b) \/ call' = [call EXCEPT ![b] = c]
        BY <1>4 DEF FindById
  <2> QED  BY <2>1, <2>2, <2>3
<1>5. CASE RequirePermission(b)
  BY <1>5, EndShape, StepShape DEF RequirePermission, IndFails, LoginSteps
<1>6. CASE Respond(b) \/ CallDies(b)
  BY <1>6, EndShape DEF Respond, CallDies, IndFails
<1>7. CASE Logout(b)
  BY <1>7 DEF Logout, IndFails, CallShape
<1> QED  BY <1>2, <1>3, <1>4, <1>5, <1>6, <1>7 DEF Request

LEMMA OthersFail ==
  ASSUME IndEdits, IndFails, Administration \/ Tick
  PROVE  IndFails'
<1>1. CASE Tick
  BY <1>1, LockoutAssumption DEF Tick, tables, IndFails, EveryFailureCounts, CallShape
<1>2. ASSUME NEW p \in People, NEW yes \in BOOLEAN, ToggleMemberActive(p, yes) PROVE IndFails'
  <2> DEFINE row == [account[p] EXCEPT !.active = yes]
  <2>1. account' = [account EXCEPT ![p] = row] /\ UNCHANGED <<now, wrong, call>>
        BY <1>2 DEF ToggleMemberActive
  <2>2. account[p] \in AccountRow
        BY DEF IndFails
  <2>3. row \in AccountRow /\ row.fails = account[p].fails /\ row.locked = account[p].locked
        BY <2>2 DEF AccountRow
  <2> HIDE DEF row
  <2>4. account' \in [People -> AccountRow]
        BY <2>1, <2>3 DEF IndFails
  <2>5. \A q \in People : account'[q].fails = account[q].fails /\ account'[q].locked = account[q].locked
        BY <2>1, <2>3 DEF IndFails
  <2>6. CallShape'
        BY <2>1 DEF CallShape, IndFails
  <2> QED  BY <2>1, <2>4, <2>5, <2>6, CountsStand
<1>3. ASSUME NEW a \in Editors, UNCHANGED <<tables, now, cookie, call, wrong>> PROVE IndFails'
  BY <1>3, NothingFails DEF tables, IndFails, CallShape
<1>4. ASSUME NEW a \in Editors, CommitEdit(a) PROVE IndFails'
  <2>1. UNCHANGED <<now, wrong, call>>
        BY <1>4 DEF CommitEdit
  <2>2. CallShape'
        BY <2>1 DEF CallShape, IndFails
  <2>3. CASE UNCHANGED account
    BY <2>1, <2>2, <2>3, NothingFails
  <2>4. ASSUME NEW p \in People, NEW role \in RoleRequests,
               account' = [account EXCEPT ![p].role = role]
        PROVE  IndFails'
    <3> DEFINE row == [account[p] EXCEPT !.role = role]
    <3>1. account' = [account EXCEPT ![p] = row]
          BY <2>4
    <3>2. account[p] \in AccountRow /\ role \in AllRoles
          BY EditAssumption DEF IndFails, AllRoles
    <3>3. row \in AccountRow /\ row.fails = account[p].fails /\ row.locked = account[p].locked
          BY <3>2 DEF AccountRow
    <3> HIDE DEF row
    <3>4. account' \in [People -> AccountRow]
          BY <3>1, <3>3 DEF IndFails
    <3>5. \A q \in People : account'[q].fails = account[q].fails /\ account'[q].locked = account[q].locked
          BY <3>1, <3>3 DEF IndFails
    <3> QED  BY <2>1, <2>2, <3>4, <3>5, CountsStand
  <2>5. EditOf(a)
        BY DEF IndEdits
  <2>6. CASE edit[a] = NoEdit
    BY <1>4, <2>6 DEF CommitEdit, NoEdit
  <2>7. ASSUME NEW p \in People, NEW role \in RoleRequests, NEW new \in ScopeRequests,
               edit[a] = [pc |-> "replacing", kind |-> "member", at |-> p, role |-> role, new |-> new,
                          gone |-> scope[p]]
        PROVE  IndFails'
    <3>1. account' = [account EXCEPT ![p].role = role]
          BY <1>4, <2>7 DEF CommitEdit
    <3> QED  BY <3>1, <2>4
  <2>8. ASSUME NEW r \in Roles, NEW new \in RightRequests,
               edit[a] = [pc |-> "replacing", kind |-> "role", at |-> r, new |-> new, gone |-> rights[r]]
        PROVE  IndFails'
    BY <1>4, <2>3, <2>8 DEF CommitEdit
  <2> QED  BY <2>5, <2>6, <2>7, <2>8 DEF EditOf
<1>5. CASE Administration
  BY <1>2, <1>3, <1>4, <1>5 DEF Administration, UpdateMember, UpdateRole, RollBackEdit
<1> QED  BY <1>1, <1>5

LEMMA FailsStep == IndEdits /\ IndFails /\ [AccountNext]_accountVars => IndFails'
<1> SUFFICES ASSUME IndEdits, IndFails, [AccountNext]_accountVars PROVE IndFails'
  OBVIOUS
<1>1. CASE UNCHANGED accountVars
  BY <1>1, NothingFails DEF accountVars, IndFails, CallShape
<1>2. CASE AccountNext
  BY <1>2, LoginFails, RequestFails, OthersFail DEF AccountNext
<1> QED  BY <1>1, <1>2

(* No wrong password goes uncounted when several are tried at once, and an *)
(* account that has come to the limit has been locked                      *)
(* (authRepository.js:73-87).                                              *)
THEOREM FailuresAreCounted == AccountSpec => []EveryFailureCounts
<1>1. IndFails => EveryFailureCounts
      BY DEF IndFails
<1> QED  BY <1>1, EditsStart, EditsStep, FailsStart, FailsStep, PTL DEF AccountSpec

(* Types of the accounts: besides what the counts need, time and locks are *)
(* within their bounds, and a cookie is of a session that was created.     *)
SessionRecs == [who : People, end : Nat, revoked : BOOLEAN]
CallSteps == {"idle"} \cup LoginSteps \cup RequestSteps
WithinTime ==
  /\ now \in 0..MaxTime
  /\ \A p \in People : account[p].locked <= MaxTime + Lockout
CookieOfSession == \A b \in Browsers : cookie[b] # Nil =>
  cookie[b].sid \in Sessions /\ sessionRow[cookie[b].sid] # Nil
IndSessions ==
  /\ sessionRow \in [Sessions -> {Nil} \cup SessionRecs]
  /\ cookie = [b \in Browsers |-> cookie[b]] /\ CookieOfSession
CallsNamed == \A b \in Browsers : call[b].pc \in CallSteps

LEMMA TimeStep == IndEdits /\ IndFails /\ WithinTime /\ [AccountNext]_accountVars => WithinTime'
<1> SUFFICES ASSUME IndEdits, IndFails, WithinTime, [AccountNext]_accountVars PROVE WithinTime'
  OBVIOUS
<1>1. CASE UNCHANGED <<account, now>>
  BY <1>1 DEF WithinTime
<1>2. CASE Tick
  BY <1>2, LockoutAssumption DEF Tick, tables, WithinTime
<1>3. ASSUME NEW p \in People, NEW row, account' = [account EXCEPT ![p] = row],
             row.locked <= MaxTime + Lockout, now' = now
      PROVE  WithinTime'
  BY <1>3 DEF WithinTime, IndFails
<1>4. ASSUME NEW b \in Browsers, PasswordWrong(b) PROVE WithinTime'
  <2>1. PICK p \in People : p = call[b].who
    BY <1>4 DEF PasswordWrong, In, IndFails, CallShape, LoginSteps
  <2>2. PICK lock : lock = IF account[p].fails + 1 >= MaxFailedLogins THEN now + Lockout ELSE account[p].locked
    OBVIOUS
  <2>3. PICK row : row = [account[p] EXCEPT !.fails = account[p].fails + 1, !.locked = lock]
    OBVIOUS
  <2>4. account' = [account EXCEPT ![p] = row] /\ now' = now
    BY <1>4, <2>1, <2>2, <2>3 DEF PasswordWrong, RecordFailedLogin
  <2>5. row.locked = lock
    BY <2>3 DEF IndFails, AccountRow
  <2>6. lock <= MaxTime + Lockout
    BY <2>2, LockoutAssumption DEF WithinTime
  <2> QED BY <1>3, <2>4, <2>5, <2>6
<1>5. ASSUME NEW b \in Browsers, RecordSuccessfulLogin(b) PROVE WithinTime'
  <2>1. PICK p \in People : p = call[b].who
    BY <1>5 DEF RecordSuccessfulLogin, In, IndFails, CallShape, LoginSteps
  <2>2. PICK row : row = [account[p] EXCEPT !.fails = 0, !.locked = 0]
    OBVIOUS
  <2>3. account' = [account EXCEPT ![p] = row] /\ now' = now
    BY <1>5, <2>1, <2>2 DEF RecordSuccessfulLogin
  <2>4. row.locked = 0
    BY <2>2 DEF IndFails, AccountRow
  <2>5. row.locked <= MaxTime + Lockout
    BY <2>4, LockoutAssumption
  <2> QED BY <1>3, <2>3, <2>5
<1>6. ASSUME NEW p \in People, NEW yes \in BOOLEAN, ToggleMemberActive(p, yes) PROVE WithinTime'
  <2>1. PICK row : row = [account[p] EXCEPT !.active = yes]
    OBVIOUS
  <2>2. account' = [account EXCEPT ![p] = row] /\ now' = now
    BY <1>6, <2>1 DEF ToggleMemberActive
  <2>3. row.locked = account[p].locked
    BY <2>1 DEF IndFails, AccountRow
  <2> QED BY <1>3, <2>2, <2>3 DEF WithinTime
<1>7. ASSUME NEW a \in Editors, CommitEdit(a) PROVE WithinTime'
  <2>1. now' = now /\ (UNCHANGED account \/ \E p \in People : account' = [account EXCEPT ![p].role = edit[a].role])
    BY <1>7 DEF CommitEdit, IndEdits, EditOf, NoEdit
  <2>2. ASSUME NEW p \in People, account' = [account EXCEPT ![p].role = edit[a].role] PROVE WithinTime'
    <3>1. PICK row : row = [account[p] EXCEPT !.role = edit[a].role]
      OBVIOUS
    <3>2. account' = [account EXCEPT ![p] = row]
      BY <2>2, <3>1
    <3>3. row.locked = account[p].locked
      BY <3>1 DEF IndFails, AccountRow
    <3> QED BY <1>3, <2>1, <3>2, <3>3 DEF WithinTime
  <2> QED BY <1>1, <2>1, <2>2
<1>8. ASSUME NEW b \in Browsers, Login(b) \/ Request(b) \/ CallDies(b) PROVE WithinTime'
  BY <1>1, <1>4, <1>5, <1>8
     DEF Login, FindByUsername, PasswordRight, CreateSession, Request, Ask, FindSession, FindById,
         RequirePermission, Respond, Logout, CallDies, tables
<1>9. CASE Administration
  BY <1>1, <1>6, <1>7, <1>9 DEF Administration, UpdateMember, UpdateRole, RollBackEdit, tables
<1> QED BY <1>1, <1>2, <1>8, <1>9 DEF AccountNext, accountVars

LEMMA SessionsStep ==
  IndFails /\ IndSessions /\ [AccountNext]_accountVars => IndSessions'
<1> SUFFICES ASSUME IndFails, IndSessions, [AccountNext]_accountVars PROVE IndSessions'
  OBVIOUS
<1>1. CASE UNCHANGED <<sessionRow, cookie>>
  BY <1>1 DEF IndSessions, CookieOfSession
<1>2. ASSUME NEW b \in Browsers, NEW s \in Sessions, CreateSession(b, s) PROVE IndSessions'
  <2>1. PICK row : row = [who |-> call[b].who, end |-> now + SessionTtl, revoked |-> FALSE]
    OBVIOUS
  <2>2. call[b].who \in People /\ now + SessionTtl \in Nat
    BY <1>2, LockoutAssumption DEF CreateSession, In, IndFails, CallShape, LoginSteps
  <2>3. row \in SessionRecs /\ row # Nil
    <3>1. row \in SessionRecs
      BY <2>1, <2>2 DEF SessionRecs
    <3> QED BY <3>1, EditAssumption DEF SessionRecs
  <2>4. PICK c : c = [sid |-> s, role |-> call[b].saw.role, stores |-> call[b].stores]
    OBVIOUS
  <2>5. c.sid = s
    BY <2>4
  <2>6. sessionRow' = [sessionRow EXCEPT ![s] = row] /\ cookie' = [cookie EXCEPT ![b] = c]
    BY <1>2, <2>1, <2>4 DEF CreateSession
  <2>7. sessionRow' \in [Sessions -> {Nil} \cup SessionRecs] /\ cookie' = [d \in Browsers |-> cookie'[d]]
    BY <2>3, <2>6 DEF IndSessions
  <2>8. CookieOfSession'
    BY <2>3, <2>5, <2>6 DEF IndSessions, CookieOfSession
  <2> QED BY <2>7, <2>8 DEF IndSessions
<1>3. ASSUME NEW b \in Browsers, Logout(b) PROVE IndSessions'
  <2>1. PICK s \in Sessions : s = cookie[b].sid /\ sessionRow[s] # Nil
    BY <1>3 DEF Logout, IndSessions, CookieOfSession
  <2>2. PICK row : row = [sessionRow[s] EXCEPT !.revoked = TRUE]
    OBVIOUS
  <2>3. sessionRow[s] \in SessionRecs
    BY <2>1 DEF IndSessions
  <2>4. row \in SessionRecs /\ row # Nil
    BY <2>2, <2>3, EditAssumption DEF SessionRecs
  <2>5. sessionRow' = [sessionRow EXCEPT ![s] = row] /\ cookie' = [cookie EXCEPT ![b] = Nil]
    BY <1>3, <2>1, <2>2 DEF Logout
  <2>6. sessionRow' \in [Sessions -> {Nil} \cup SessionRecs] /\ cookie' = [d \in Browsers |-> cookie'[d]]
    BY <2>4, <2>5 DEF IndSessions
  <2>7. CookieOfSession'
    BY <2>4, <2>5 DEF IndSessions, CookieOfSession
  <2> QED BY <2>6, <2>7 DEF IndSessions
<1>4. ASSUME NEW b \in Browsers, Login(b) \/ Request(b) \/ CallDies(b) PROVE IndSessions'
  BY <1>1, <1>2, <1>3, <1>4
     DEF Login, FindByUsername, PasswordRight, PasswordWrong, RecordSuccessfulLogin, Request, Ask, FindSession,
         FindById, RequirePermission, Respond, CallDies, tables
<1>5. CASE Administration \/ Tick
  BY <1>1, <1>5 DEF Administration, UpdateMember, UpdateRole, CommitEdit, RollBackEdit, ToggleMemberActive,
     Tick, tables
<1> QED BY <1>1, <1>4, <1>5 DEF AccountNext, accountVars

LEMMA CallsStep == IndFails /\ CallsNamed /\ [AccountNext]_accountVars => CallsNamed'
<1> SUFFICES ASSUME IndFails, CallsNamed, [AccountNext]_accountVars PROVE CallsNamed'
  OBVIOUS
<1>1. CASE UNCHANGED call
  BY <1>1 DEF CallsNamed
<1>2. ASSUME NEW b \in Browsers, NEW e, call' = [call EXCEPT ![b] = e], e.pc \in CallSteps PROVE CallsNamed'
  BY <1>2 DEF CallsNamed, IndFails, CallShape
<1>3. ASSUME NEW b \in Browsers, End(b) PROVE CallsNamed'
  BY <1>2, <1>3 DEF End, NoCall, CallSteps
<1>4. ASSUME NEW b \in Browsers, NEW pc \in CallSteps, Step(b, pc) PROVE CallsNamed'
  <2>1. PICK e : e = [call[b] EXCEPT !.pc = pc]
    OBVIOUS
  <2>2. e.pc = pc
    BY <2>1 DEF IndFails, CallShape
  <2> QED BY <1>2, <1>4, <2>1, <2>2 DEF Step
<1>5. ASSUME NEW b \in Browsers, Login(b) PROVE CallsNamed'
  <2>1. ASSUME NEW p \in People, FindByUsername(b, p) PROVE CallsNamed'
    <3>1. PICK e : e = [pc |-> "verify", who |-> p, saw |-> account[p], stores |-> scope[p]]
      OBVIOUS
    <3>2. e.pc \in CallSteps
      BY <3>1 DEF CallSteps, LoginSteps
    <3> QED BY <1>2, <2>1, <3>1, <3>2 DEF FindByUsername
  <2>2. CASE PasswordRight(b) \/ RecordSuccessfulLogin(b)
    BY <1>3, <1>4, <2>2 DEF PasswordRight, RecordSuccessfulLogin, CallSteps, LoginSteps
  <2> QED BY <1>3, <1>5, <2>1, <2>2 DEF Login, PasswordWrong, CreateSession
<1>6. ASSUME NEW b \in Browsers, Request(b) PROVE CallsNamed'
  <2>1. ASSUME NEW want, NEW w, Ask(b, want, w) PROVE CallsNamed'
    <3>1. PICK e : e = [pc |-> "token", sid |-> cookie[b].sid, want |-> want, store |-> w]
      OBVIOUS
    <3>2. e.pc \in CallSteps
      BY <3>1 DEF CallSteps, RequestSteps
    <3> QED BY <1>2, <2>1, <3>1, <3>2 DEF Ask
  <2>2. CASE FindSession(b) \/ RequirePermission(b)
    BY <1>3, <1>4, <2>2 DEF FindSession, RequirePermission, CallSteps, RequestSteps
  <2>3. CASE FindById(b)
    <3>1. PICK e : e = [pc |-> "permit", sid |-> call[b].sid, want |-> call[b].want,
                        store |-> call[b].store, auth |-> Identity(b)]
      OBVIOUS
    <3>2. e.pc \in CallSteps
      BY <3>1 DEF CallSteps, RequestSteps
    <3> QED BY <1>2, <1>3, <2>3, <3>1, <3>2 DEF FindById
  <2> QED BY <1>1, <1>3, <1>6, <2>1, <2>2, <2>3 DEF Request, Respond, Logout
<1>7. ASSUME Administration \/ Tick PROVE UNCHANGED call
  BY <1>7 DEF Administration, UpdateMember, UpdateRole, CommitEdit, RollBackEdit, ToggleMemberActive, Tick
<1> QED BY <1>1, <1>3, <1>5, <1>6, <1>7 DEF AccountNext, accountVars, CallDies

IndAccount == IndEdits /\ IndFails /\ WithinTime /\ IndSessions /\ CallsNamed

LEMMA AccountStart == AccountInit => IndAccount
<1> SUFFICES ASSUME AccountInit PROVE IndAccount
  OBVIOUS
<1>1. IndEdits /\ IndFails
  BY EditsStart, FailsStart
<1>2. WithinTime
  <2>1. \A p \in People : account[p].locked = 0
    BY DEF AccountInit
  <2> QED BY <2>1, LockoutAssumption DEF AccountInit, WithinTime
<1>3. IndSessions
  BY DEF AccountInit, IndSessions, CookieOfSession
<1>4. CallsNamed
  BY DEF AccountInit, CallsNamed, NoCall, CallSteps
<1> QED BY <1>1, <1>2, <1>3, <1>4 DEF IndAccount

LEMMA AccountStep == IndAccount /\ [AccountNext]_accountVars => IndAccount'
BY EditsStep, FailsStep, TimeStep, SessionsStep, CallsStep DEF IndAccount

LEMMA AccountTypes == IndAccount => AccountTypeOK
<1> SUFFICES ASSUME IndAccount PROVE AccountTypeOK
  OBVIOUS
<1>1. ASSUME NEW p \in People
      PROVE  account[p] \in [role : AllRoles, active : BOOLEAN, fails : Nat, locked : 0..(MaxTime + Lockout)]
  <2>1. account[p] \in AccountRow /\ account[p].locked <= MaxTime + Lockout
    BY DEF IndAccount, IndFails, WithinTime
  <2>2. account[p].locked \in 0..(MaxTime + Lockout)
    BY <2>1, LockoutAssumption DEF AccountRow
  <2> QED BY <2>1, <2>2 DEF AccountRow
<1> QED BY <1>1 DEF IndAccount, IndSessions, CookieOfSession, SessionRecs, CallsNamed, CallSteps, AccountTypeOK

(* Accounts, sessions and calls are well formed whatever is done at once,  *)
(* and a browser's cookie names a session that is in the table             *)
(* (authService.js:58-97, authRepository.js:89-127).                       *)
THEOREM AccountTypesHold == AccountSpec => []AccountTypeOK
BY AccountStart, AccountStep, AccountTypes, PTL DEF AccountSpec

-----------------------------------------------------------------------------
(* The limit on logins (Attempts), for any number of callers, any limit    *)
(* and any pattern of calls to Redis that are not answered.                *)

(* Each counter has let through what it shows, up to the limit.            *)
LetBy(n) == IF n <= MaxAttempts THEN n ELSE MaxAttempts
Counter == [n : Nat, until : Nat \cup {Never}]
IndAttempt ==
  /\ hits \in Counter /\ spare \in Counter /\ let \in [redis : Nat, process : Nat]
  /\ clock \in Nat
  /\ let.redis = LetBy(hits.n) /\ let.process = LetBy(spare.n)

LEMMA AttemptStarts == AttemptInit => IndAttempt
BY LimitAssumption DEF AttemptInit, IndAttempt, Counter, NoHits, LetBy

(* INCR and what is let through stay in step.                              *)
LEMMA IncrCounts ==
  ASSUME NEW n \in Nat
  PROVE  /\ Incr(n) \in Nat \ {0}
         /\ LetBy(Incr(n)) = IF Incr(n) <= MaxAttempts THEN LetBy(n) + 1 ELSE LetBy(n)
BY LimitAssumption DEF Incr, LetBy

LEMMA AttemptSteps == IndAttempt /\ [AttemptNext]_attemptVars => IndAttempt'
<1> SUFFICES ASSUME IndAttempt, [AttemptNext]_attemptVars PROVE IndAttempt'
  OBVIOUS
<1>0. /\ hits.n \in Nat /\ spare.n \in Nat /\ let.redis \in Nat /\ let.process \in Nat
      /\ NoHits \in Counter /\ NoHits.n = 0 /\ LetBy(0) = 0 /\ LetBy(1) = 1
      /\ clock + AttemptWindow \in Nat
      BY LimitAssumption DEF IndAttempt, Counter, NoHits, LetBy
<1>1. CASE UNCHANGED attemptVars
  BY <1>1 DEF attemptVars, IndAttempt, Counter
<1>2. ASSUME NEW c \in Callers, Check(c) PROVE IndAttempt'
  <2>1. /\ hits' = [hits EXCEPT !.n = Incr(hits.n)]
        /\ let' = IF Incr(hits.n) <= MaxAttempts THEN [let EXCEPT !.redis = @ + 1] ELSE let
        /\ UNCHANGED <<spare, clock>>
        BY <1>2 DEF Check
  <2>2. hits' \in Counter /\ hits'.n = Incr(hits.n)
        BY <1>0, <2>1, IncrCounts DEF IndAttempt, Counter
  <2>3. /\ let' \in [redis : Nat, process : Nat]
        /\ let'.redis = LetBy(Incr(hits.n)) /\ let'.process = let.process
        BY <1>0, <2>1, IncrCounts DEF IndAttempt
  <2> QED  BY <2>1, <2>2, <2>3 DEF IndAttempt
<1>3. ASSUME NEW c \in Callers, Expire(c) PROVE IndAttempt'
  <2>1. /\ hits' \in Counter /\ hits'.n = hits.n
        BY <1>0, <1>3 DEF Expire, IndAttempt, Counter
  <2> QED  BY <1>3, <2>1 DEF Expire, IndAttempt
<1>4. ASSUME NEW c \in Callers, CheckInProcess(c) PROVE IndAttempt'
  <2>1. /\ spare' = SpareNow /\ UNCHANGED <<hits, clock>>
        /\ let' = IF SpareNow.n > MaxAttempts THEN let
                  ELSE [let EXCEPT !.process = IF SpareNow.n = 1 THEN 1 ELSE @ + 1]
        BY <1>4 DEF CheckInProcess
  <2>2. CASE spare.n = 0 \/ spare.until <= clock
    <3>1. SpareNow = [n |-> 1, until |-> clock + AttemptWindow]
          BY <2>2 DEF SpareNow
    <3>2. SpareNow \in Counter /\ SpareNow.n = 1 /\ ~(1 > MaxAttempts)
          BY <1>0, <3>1, LimitAssumption DEF Counter
    <3>3. let' = [let EXCEPT !.process = 1]
          BY <2>1, <3>2
    <3> QED  BY <1>0, <2>1, <3>2, <3>3 DEF IndAttempt
  <2>3. CASE ~(spare.n = 0 \/ spare.until <= clock)
    <3>1. SpareNow = [spare EXCEPT !.n = Incr(spare.n)]
          BY <2>3 DEF SpareNow
    <3>2. SpareNow \in Counter /\ SpareNow.n = Incr(spare.n)
          BY <1>0, <3>1, IncrCounts DEF Counter, IndAttempt
    <3>3. Incr(spare.n) # 1
          BY <1>0, <2>3, LimitAssumption DEF Incr
    <3>4. let' = IF Incr(spare.n) <= MaxAttempts THEN [let EXCEPT !.process = @ + 1] ELSE let
          BY <1>0, <2>1, <3>2, <3>3, IncrCounts, LimitAssumption
    <3>5. /\ let' \in [redis : Nat, process : Nat]
          /\ let'.process = LetBy(Incr(spare.n)) /\ let'.redis = let.redis
          BY <1>0, <3>4, IncrCounts DEF IndAttempt
    <3> QED  BY <2>1, <3>2, <3>5 DEF IndAttempt
  <2> QED  BY <2>2, <2>3
<1>5. ASSUME NEW c \in Callers, Reset(c) PROVE IndAttempt'
  BY <1>0, <1>5 DEF Reset, IndAttempt
<1>6. ASSUME NEW c \in Callers, Fail(c) PROVE IndAttempt'
  BY <1>6 DEF Fail, IndAttempt
<1>7. CASE Restart
  BY <1>0, <1>7 DEF Restart, IndAttempt
<1>8. CASE Pass
  <2>1. clock' \in Nat /\ UNCHANGED spare
        BY <1>8 DEF Pass, IndAttempt
  <2>2. \/ hits' = NoHits /\ let' = [let EXCEPT !.redis = 0]
        \/ UNCHANGED <<hits, let>>
        BY <1>8 DEF Pass
  <2> QED  BY <1>0, <2>1, <2>2 DEF IndAttempt
<1> QED  BY <1>1, <1>2, <1>3, <1>4, <1>5, <1>6, <1>7, <1>8 DEF AttemptNext

(* Neither counter lets more attempts through than the limit before it is  *)
(* over or reset, however many come at once and whichever of them meets a  *)
(* Redis that does not answer (loginRateLimiter.js:67-88).                 *)
THEOREM LimitIsKept == AttemptSpec => []LimitKept
<1>1. IndAttempt => LimitKept
      BY LimitAssumption DEF IndAttempt, LimitKept, LetBy, Counter
<1> QED  BY <1>1, AttemptStarts, AttemptSteps, PTL DEF AttemptSpec

LEMMA AttemptTypesStart == AttemptInit => AttemptTypeOK
BY LimitAssumption DEF AttemptInit, AttemptTypeOK, NoHits

LEMMA AttemptTypesStep == AttemptTypeOK /\ [AttemptNext]_attemptVars => AttemptTypeOK'
<1> SUFFICES ASSUME AttemptTypeOK, [AttemptNext]_attemptVars PROVE AttemptTypeOK'
  OBVIOUS
<1> DEFINE Times == (0..(LastTick + AttemptWindow)) \cup {Never}
           Counts == [n : 0..(MaxAttempts + 2), until : Times]
<1>0. NoHits \in Counts /\ NoHits.n = 0 /\ NoHits.until = Never
  BY LimitAssumption DEF NoHits
<1>1. ASSUME NEW n \in 0..(MaxAttempts + 2) PROVE Incr(n) \in 1..(MaxAttempts + 2)
  BY <1>1, LimitAssumption DEF Incr
<1>2. clock + AttemptWindow \in Times /\ clock + AttemptWindow > clock
  BY LimitAssumption DEF AttemptTypeOK
<1>3. CASE UNCHANGED attemptVars
  BY <1>3 DEF attemptVars, AttemptTypeOK
<1>4. ASSUME NEW c \in Callers, Check(c) PROVE AttemptTypeOK'
  <2>1. Incr(hits.n) \in 1..(MaxAttempts + 2)
    BY <1>1 DEF AttemptTypeOK
  <2>2. hits' = [hits EXCEPT !.n = Incr(hits.n)] /\ UNCHANGED <<spare, clock>>
    BY <1>4 DEF Check
  <2>3. hits' \in Counts /\ hits'.n > 0 /\ hits'.until = hits.until
    BY <2>1, <2>2 DEF AttemptTypeOK
  <2>4. attempt' \in [Callers -> {"idle", "first", "let"}] /\ let' \in [redis : Nat, process : Nat]
    BY <1>4 DEF Check, Stands, AttemptTypeOK
  <2> QED BY <2>2, <2>3, <2>4 DEF AttemptTypeOK
<1>5. ASSUME NEW c \in Callers, Expire(c) PROVE AttemptTypeOK'
  <2>1. /\ hits' = IF hits.n = 0 THEN hits ELSE [hits EXCEPT !.until = clock + AttemptWindow]
        /\ UNCHANGED <<spare, clock, let>>
    BY <1>5 DEF Expire
  <2>2. attempt' \in [Callers -> {"idle", "first", "let"}]
    BY <1>5 DEF Expire, Stands, AttemptTypeOK
  <2>3. hits' \in Counts /\ (hits'.until # Never => hits'.n > 0 /\ hits'.until > clock)
    BY <1>2, <2>1 DEF AttemptTypeOK
  <2> QED BY <2>1, <2>2, <2>3 DEF AttemptTypeOK
<1>6. ASSUME NEW c \in Callers, CheckInProcess(c) PROVE AttemptTypeOK'
  <2>1. SpareNow \in Counts
    <3>1. [n |-> 1, until |-> clock + AttemptWindow] \in Counts
      BY <1>2, LimitAssumption
    <3>2. [spare EXCEPT !.n = Incr(spare.n)] \in Counts
      BY <1>1 DEF AttemptTypeOK
    <3> QED BY <3>1, <3>2 DEF SpareNow
  <2>2. attempt' \in [Callers -> {"idle", "first", "let"}] /\ let' \in [redis : Nat, process : Nat]
    BY <1>6 DEF CheckInProcess, Stands, AttemptTypeOK
  <2>3. spare' \in Counts /\ UNCHANGED <<hits, clock>>
    BY <1>6, <2>1 DEF CheckInProcess
  <2> QED BY <2>2, <2>3 DEF AttemptTypeOK
<1>7. ASSUME NEW c \in Callers, Reset(c) PROVE AttemptTypeOK'
  BY <1>0, <1>7 DEF Reset, Stands, AttemptTypeOK
<1>8. ASSUME NEW c \in Callers, Fail(c) PROVE AttemptTypeOK'
  BY <1>8 DEF Fail, Stands, AttemptTypeOK
<1>9. CASE Restart
  BY <1>0, <1>9 DEF Restart, AttemptTypeOK
<1>10. CASE Pass
  <2>1. clock' \in 0..LastTick /\ clock' = clock + 1 /\ UNCHANGED <<spare, attempt>>
    BY <1>10, LimitAssumption DEF Pass, AttemptTypeOK
  <2>2. hits' \in Counts /\ (hits'.until # Never => hits'.n > 0 /\ hits'.until > clock')
    <3>1. CASE hits' = NoHits
      BY <1>0, <3>1
    <3>2. CASE hits' = hits /\ ~(hits.until # Never /\ hits.until <= clock')
      BY <2>1, <3>2, LimitAssumption DEF AttemptTypeOK
    <3> QED BY <1>10, <3>1, <3>2 DEF Pass
  <2>3. let' \in [redis : Nat, process : Nat]
    BY <1>10 DEF Pass, AttemptTypeOK
  <2> QED BY <2>1, <2>2, <2>3 DEF AttemptTypeOK
<1> QED BY <1>3, <1>4, <1>5, <1>6, <1>7, <1>8, <1>9, <1>10 DEF AttemptNext

(* A counter in Redis that is given an end has counted something and ends  *)
(* later than now: EXPIRE does not make one (loginRateLimiter.js:67-80).   *)
THEOREM AttemptTypesHold == AttemptSpec => []AttemptTypeOK
BY AttemptTypesStart, AttemptTypesStep, PTL DEF AttemptSpec

-----------------------------------------------------------------------------
(* What a request has found out when nothing has been written since it     *)
(* arrived, step by step.                                                  *)
AskedOnly == {"token", "user"}
KnownCaller == {"permit", "granted"}
Current(b) ==
  /\ call[b].pc \in AskedOnly =>
       call[b] = [pc |-> call[b].pc, sid |-> call[b].sid, want |-> call[b].want, store |-> call[b].store]
  /\ call[b].pc \in KnownCaller =>
       call[b] = [pc |-> call[b].pc, sid |-> call[b].sid, want |-> call[b].want, store |-> call[b].store,
                  auth |-> call[b].auth]
  /\ In(b, "user") /\ quiet[b] => Open(call[b].sid)
  /\ In(b, "permit") /\ quiet[b] =>
       Open(call[b].sid) /\ account[Owner(b)].active /\ call[b].auth = Identity(b)
  /\ In(b, "granted") /\ quiet[b] =>
       LET who == Owner(b)  role == account[who].role IN
       /\ Open(call[b].sid) /\ account[who].active
       /\ role # "admin" => call[b].want \in rights[role] /\ InScope(call[b].store, scope[who])
IndCurrent == call = [b \in Browsers |-> call[b]] /\ \A b \in Browsers : Current(b)

\* Who takes no step stays current, or is not quiet any more.
LEMMA OthersStayCurrent ==
    ASSUME NEW b \in Browsers, Current(b), call'[b] = call[b], History
    PROVE  Current(b)'
<1>1. CASE quiet'[b]
  <2>1. call'[b].pc \in RequestSteps /\ (In(b, "idle") \/ (quiet[b] /\ UNCHANGED <<tables, now>>))
    BY <1>1 DEF History
  <2>2. quiet[b] /\ UNCHANGED <<tables, now>>
    BY <2>1 DEF In, RequestSteps
  <2>3. QED
    BY <1>1, <2>2 DEF Current, tables, In, Open, Owner, Identity, InScope
<1>2. CASE ~quiet'[b]
  BY <1>2 DEF Current, In
<1>3. QED
  BY <1>1, <1>2

\* Nor does who has ended, or begins, have anything to answer for.
LEMMA FreshIsCurrent ==
    ASSUME NEW b \in Browsers, call'[b].pc \notin AskedOnly \cup KnownCaller
    PROVE  Current(b)'
BY DEF Current, In, AskedOnly, KnownCaller

LEMMA StepIsCurrent ==
    ASSUME NEW b \in Browsers, call = [c \in Browsers |-> call[c]], Current(b), History,
           FindSession(b) \/ FindById(b) \/ RequirePermission(b)
    PROVE  Current(b)'
<1>1. ASSUME NEW want, NEW w, Ask(b, want, w) PROVE Current(b)'
  <2>1. call'[b] = [pc |-> "token", sid |-> cookie[b].sid, want |-> want, store |-> w]
    BY <1>1 DEF Ask
  <2>2. QED
    BY <2>1 DEF Current, In, AskedOnly, KnownCaller
<1>2. ASSUME ~In(b, "idle"), quiet'[b] PROVE quiet[b] /\ UNCHANGED <<tables, now>>
  BY <1>2 DEF History
<1>3. CASE FindSession(b) /\ Open(call[b].sid)
  <2>1. call'[b] = [call[b] EXCEPT !.pc = "user"] /\ In(b, "token")
    BY <1>3 DEF FindSession, Step
  <2>2. call'[b] = [pc |-> "user", sid |-> call[b].sid, want |-> call[b].want, store |-> call[b].store]
    BY <2>1 DEF Current, In, AskedOnly
  <2>3. ~In(b, "idle")
    BY <2>1 DEF In
  <2>4. QED
    BY <1>2, <1>3, <2>2, <2>3 DEF Current, In, AskedOnly, KnownCaller, Open, tables
<1>4. CASE FindById(b) /\ account[Owner(b)].active
  <2>1. In(b, "user") /\ call'[b] = [pc |-> "permit", sid |-> call[b].sid, want |-> call[b].want,
                                     store |-> call[b].store, auth |-> Identity(b)]
    BY <1>4 DEF FindById
  <2>2. ~In(b, "idle")
    BY <2>1 DEF In
  <2>3. QED
    BY <1>2, <1>4, <2>1, <2>2 DEF Current, In, AskedOnly, KnownCaller, Open, Owner, Identity, tables
<1>5. CASE RequirePermission(b) /\ Can(b)
  <2>1. In(b, "permit") /\ call'[b] = [call[b] EXCEPT !.pc = "granted"]
    BY <1>5 DEF RequirePermission, Step
  <2>2. call'[b] = [pc |-> "granted", sid |-> call[b].sid, want |-> call[b].want, store |-> call[b].store,
                    auth |-> call[b].auth]
    BY <2>1 DEF Current, In, KnownCaller
  <2>3. ~In(b, "idle")
    BY <2>1 DEF In
  <2>4. ASSUME quiet'[b]
        PROVE  LET who == Owner(b)'  role == account'[who].role IN
               /\ Open(call[b].sid)' /\ account'[who].active
               /\ role # "admin" => call'[b].want \in rights'[role] /\ InScope(call'[b].store, scope'[who])
    <3>1. quiet[b] /\ UNCHANGED <<tables, now>>
      BY <1>2, <2>3, <2>4
    <3>2. Open(call[b].sid) /\ account[Owner(b)].active /\ call[b].auth = Identity(b)
      BY <2>1, <3>1 DEF Current
    <3>3. Owner(b)' = Owner(b) /\ Open(call[b].sid)' = Open(call[b].sid)
      BY <2>2, <3>1 DEF Owner, Open, tables
    <3>4. call[b].auth.role = account[Owner(b)].role /\ call[b].auth.stores = scope[Owner(b)]
      BY <3>2 DEF Identity
    <3>5. account[Owner(b)].role # "admin" =>
            call[b].want \in rights[account[Owner(b)].role] /\ InScope(call[b].store, scope[Owner(b)])
      BY <1>5, <3>4 DEF Can
    <3>6. QED
      BY <2>2, <3>1, <3>2, <3>3, <3>5 DEF tables, InScope
  <2>5. QED
    BY <2>2, <2>4 DEF Current, In, AskedOnly, KnownCaller
<1>6. CASE End(b)
  <2>1. call'[b].pc = "idle"
    BY <1>6 DEF End, NoCall
  <2>2. QED
    BY <2>1, FreshIsCurrent DEF AskedOnly, KnownCaller
<1>7. QED
  BY <1>1, <1>3, <1>4, <1>5, <1>6 DEF FindSession, FindById, RequirePermission

LEMMA CurrentStep == IndCurrent /\ [AccountNext]_accountVars => IndCurrent'
<1> SUFFICES ASSUME IndCurrent, [AccountNext]_accountVars PROVE IndCurrent'
  OBVIOUS
<1>1. CASE UNCHANGED accountVars
  BY <1>1 DEF accountVars, IndCurrent, Current, In, Open, Owner, Identity, InScope
<1>2. ASSUME History, UNCHANGED call PROVE IndCurrent'
  BY <1>2, OthersStayCurrent DEF IndCurrent
<1>3. ASSUME NEW b \in Browsers, History, Current(b)', NEW e, call' = [call EXCEPT ![b] = e] PROVE IndCurrent'
  <2>1. call' = [c \in Browsers |-> call'[c]] /\ \A c \in Browsers \ {b} : call'[c] = call[c]
    BY <1>3 DEF IndCurrent
  <2>2. \A c \in Browsers \ {b} : Current(c)'
    BY <1>3, <2>1, OthersStayCurrent DEF IndCurrent
  <2>3. QED
    BY <1>3, <2>1, <2>2 DEF IndCurrent
<1>4. ASSUME NEW b \in Browsers, History, End(b) PROVE IndCurrent'
  <2>1. call'[b].pc = "idle"
    BY <1>4 DEF End, NoCall, IndCurrent
  <2>2. Current(b)'
    BY <2>1, FreshIsCurrent DEF AskedOnly, KnownCaller
  <2>3. QED
    BY <1>3, <1>4, <2>2 DEF End
<1>5. ASSUME NEW b \in Browsers, History, Login(b) PROVE IndCurrent'
  <2>1. CASE PasswordWrong(b) \/ (\E s \in Sessions : CreateSession(b, s))
    BY <1>4, <1>5, <2>1 DEF PasswordWrong, CreateSession
  <2>2. ASSUME NEW p \in People, FindByUsername(b, p) PROVE IndCurrent'
    <3>1. PICK e : e = [pc |-> "verify", who |-> p, saw |-> account[p], stores |-> scope[p]]
      OBVIOUS
    <3>2. call' = [call EXCEPT ![b] = e] /\ call'[b].pc = "verify"
      BY <2>2, <3>1 DEF FindByUsername, IndCurrent
    <3>3. Current(b)'
      BY <3>2, FreshIsCurrent DEF AskedOnly, KnownCaller
    <3>4. QED
      BY <1>3, <1>5, <3>2, <3>3
  <2>3. ASSUME NEW pc \in LoginSteps, Step(b, pc), call[b].pc \in LoginSteps PROVE IndCurrent'
    <3>1. PICK e : e = [call[b] EXCEPT !.pc = pc]
      OBVIOUS
    <3>2. call' = [call EXCEPT ![b] = e] /\ call'[b] = e
      BY <2>3, <3>1 DEF Step, IndCurrent
    <3>3. call'[b].pc \notin AskedOnly \cup KnownCaller
      BY <3>1, <3>2, <2>3 DEF LoginSteps, AskedOnly, KnownCaller
    <3>4. QED
      BY <1>3, <1>5, <3>2, <3>3, FreshIsCurrent
  <2>4. CASE PasswordRight(b) \/ RecordSuccessfulLogin(b)
    BY <1>4, <1>5, <2>3, <2>4 DEF PasswordRight, RecordSuccessfulLogin, In, LoginSteps
  <2>5. QED
    BY <1>5, <2>1, <2>2, <2>4 DEF Login
<1>6. ASSUME NEW b \in Browsers, History, Request(b) PROVE IndCurrent'
  <2>1. CASE Respond(b)
    BY <1>4, <1>6, <2>1 DEF Respond
  <2>2. CASE Logout(b)
    BY <1>2, <1>6, <2>2 DEF Logout
  <2>3. ASSUME NEW want, NEW w, Ask(b, want, w) PROVE IndCurrent'
    <3>1. PICK e : e = [pc |-> "token", sid |-> cookie[b].sid, want |-> want, store |-> w]
      OBVIOUS
    <3>2. call' = [call EXCEPT ![b] = e] /\ call'[b] = e
      BY <2>3, <3>1 DEF Ask, IndCurrent
    <3>3. Current(b)'
      BY <3>1, <3>2 DEF Current, In, AskedOnly, KnownCaller
    <3>4. QED
      BY <1>3, <1>6, <3>2, <3>3
  <2>4. CASE FindSession(b) \/ FindById(b) \/ RequirePermission(b)
    <3>1. Current(b)'
      BY <1>6, <2>4, StepIsCurrent DEF IndCurrent
    <3>2. \E e : call' = [call EXCEPT ![b] = e]
      BY <2>4 DEF FindSession, FindById, RequirePermission, Step, End
    <3>3. QED
      BY <1>3, <1>6, <3>1, <3>2
  <2>5. QED
    BY <1>6, <2>1, <2>2, <2>3, <2>4 DEF Request
<1>7. ASSUME Administration \/ Tick PROVE UNCHANGED call
  BY <1>7 DEF Administration, UpdateMember, UpdateRole, CommitEdit, RollBackEdit, ToggleMemberActive, Tick
<1>8. QED
  BY <1>1, <1>2, <1>4, <1>5, <1>6, <1>7 DEF AccountNext, CallDies

\* A request that nobody interferes with is granted on what holds now.
THEOREM GrantsAreCurrent == AccountSpec => []AnswersAreCurrent
<1>1. AccountInit => IndCurrent
  <2>1. AccountInit => call = [b \in Browsers |-> NoCall]
    BY DEF AccountInit
  <2>2. QED
    BY <2>1 DEF IndCurrent, Current, In, NoCall, AskedOnly, KnownCaller
<1>2. IndCurrent => AnswersAreCurrent
  BY DEF IndCurrent, Current, AnswersAreCurrent
<1>3. QED
  BY <1>1, <1>2, CurrentStep, PTL DEF AccountSpec
=============================================================================
