------------------------------- MODULE Access -------------------------------
(***************************************************************************)
(* Who the browser believes is signed in, and where it lets him go         *)
(* (client): the provider that asks the server who the user is when the    *)
(* page is loaded and whenever the tab gets the focus back, signs in and   *)
(* out, and drops the user on any answer 401; the guards of the routes,    *)
(* and the navigation.  What the server makes of a session is Accounts.    *)
(*                                                                         *)
(* crossed and lapsed are history variables: signing in or out has been on *)
(* its way together with another of these calls, and since then none but a *)
(* login has been alone; the session has ended without the browser's doing.*)
(***************************************************************************)
EXTENDS Naturals, FiniteSets

CONSTANTS
  Members,          \* what the server may say of the user: his role and rights
  Visits,           \* addresses that are typed or come back to
  Nobody            \* no user, no answer, nowhere

VARIABLES
  alive, standing,  \* on the server: the session is valid, what the user may do
  user, waiting,    \* what the browser believes, and that it does not know yet
  refreshing,       \* a refresh is taken to be on its way
  talk,             \* the calls of the provider
  path, origin,     \* the address, and the one the user was sent to sign in from
  crossed, lapsed
accessVars == <<alive, standing, user, waiting, refreshing, talk, path, origin, crossed, lapsed>>

Talks == {"initial", "refresh", "login", "logout"}
Hushed == [at |-> "idle", who |-> Nobody]
AccessTypeOK ==
  /\ {alive, waiting, refreshing, crossed, lapsed} \subseteq BOOLEAN
  /\ standing \in Members /\ user \in Members \cup {Nobody}
  /\ talk \in [Talks -> [at : {"idle", "sent", "answered", "refused", "failed"},
                         who : Members \cup {Nobody}]]

(***************************************************************************)
(* Routes and navigation: what each page wants.                            *)
(***************************************************************************)
AdminPages == {"warehouses", "members", "roles", "products", "inbound", "stock"}
FreePages == {"dashboard", "grn", "dispatch", "srn", "battery", "fulfilment", "ageing",
              "serials", "exceptions"}
Gated == AdminPages \cup {"condition", "invoices"}
Addresses == FreePages \cup Gated \cup {"login", "root", "imports", "admin"}

RouteNeeds(p) ==
  CASE p \in AdminPages -> "admin:access"
    [] p = "invoices" -> "invoice:read"
    [] p = "condition" -> "condition:correct"
NavItems ==
  [grn |-> "grn:write", battery |-> "battery:read", dispatch |-> "dispatch:write",
   fulfilment |-> "fulfilment:read", srn |-> "srn:write", condition |-> "condition:correct",
   exceptions |-> "exception:read", ageing |-> "ageing:read",
   serials |-> "serial-history:read", invoices |-> "invoice:read",
   warehouses |-> "admin:access", members |-> "admin:access", roles |-> "admin:access",
   products |-> "admin:access", inbound |-> "admin:access", stock |-> "admin:access"]
HasPermission(right) == user # Nobody /\ (user.role = "admin" \/ right \in user.rights)
Offered == {p \in DOMAIN NavItems : HasPermission(NavItems[p])} \cup {"dashboard"}

(* Where the guard of a route sends the user from p; p itself when he may  *)
(* stay, also as long as nobody knows.                                     *)
Onward(p) ==
  IF p = "login" \/ waiting THEN p
  ELSE IF user = Nobody THEN "login"
  ELSE CASE p \in {"root", "imports"} -> "dashboard"
         [] p = "admin" -> "warehouses"
         [] p \in Gated -> IF HasPermission(RouteNeeds(p)) THEN p ELSE "dashboard"
         [] p \in FreePages -> p
InShell == path # "login" /\ ~waiting /\ user # Nobody

Follow ==
  /\ Onward(path) # path /\ path' = Onward(path)
  /\ origin' = IF path' = "login" THEN path ELSE Nobody
  /\ UNCHANGED <<alive, standing, user, waiting, refreshing, talk, crossed, lapsed>>
Click(p) ==
  /\ InShell /\ p \in Offered /\ path' = p /\ origin' = Nobody
  /\ UNCHANGED <<alive, standing, user, waiting, refreshing, talk, crossed, lapsed>>

(***************************************************************************)
(* Calls.                                                                  *)
(***************************************************************************)
OnItsWay(k) == talk[k].at # "idle"
Crossing(t) == LET busy == {k \in Talks : t[k].at # "idle"} IN
  Cardinality(busy) > 1 /\ busy \cap {"login", "logout"} # {}
Send(k) ==
  /\ talk' = [talk EXCEPT ![k].at = "sent"]
  /\ crossed' = (Crossing(talk') \/ (crossed /\ (k = "login" \/ \E j \in Talks : OnItsWay(j))))

(* The page is loaded: a new browser state, and what was on its way before *)
(* is not waited for; signing out among it, served late, is a Lapse.       *)
LoadPage(p) ==
  /\ path' = p /\ origin' = Nobody /\ user' = Nobody /\ waiting' = TRUE /\ refreshing' = FALSE
  /\ talk' = [k \in Talks |-> IF k = "initial" THEN [Hushed EXCEPT !.at = "sent"] ELSE Hushed]
  /\ crossed' = FALSE /\ UNCHANGED <<alive, standing, lapsed>>
Revalidate ==
  /\ user # Nobody /\ ~refreshing /\ refreshing' = TRUE /\ Send("refresh")
  /\ UNCHANGED <<alive, standing, user, waiting, path, origin, lapsed>>
HandleSubmit ==
  /\ path = "login" /\ ~OnItsWay("login") /\ Send("login")
  /\ UNCHANGED <<alive, standing, user, waiting, refreshing, path, origin, lapsed>>
LogOut ==
  /\ InShell /\ ~OnItsWay("logout") /\ Send("logout")
  /\ UNCHANGED <<alive, standing, user, waiting, refreshing, path, origin, lapsed>>

(* The server: who the user is, signing in with the right password or not, *)
(* signing out.                                                            *)
Reply(k) ==
  /\ talk[k].at = "sent"
  /\ \E ok \in IF k = "login" THEN BOOLEAN ELSE {k = "logout" \/ alive} :
       /\ talk' = [talk EXCEPT ![k] = [at |-> IF ok THEN "answered" ELSE "refused",
                                       who |-> IF ok /\ k # "logout" THEN standing ELSE Nobody]]
       /\ alive' = IF ok THEN k # "logout" ELSE alive
       /\ lapsed' = (lapsed /\ ~alive')
  /\ UNCHANGED <<standing, user, waiting, refreshing, path, origin, crossed>>
(* A request or its answer is lost, or the server fails.                   *)
Fails(k) ==
  /\ talk[k].at \in {"sent", "answered"} /\ talk' = [talk EXCEPT ![k] = [Hushed EXCEPT !.at = "failed"]]
  /\ UNCHANGED <<alive, standing, user, waiting, refreshing, path, origin, crossed, lapsed>>

(* Broken variant: only a refresh that is answered ends.                   *)
UnlessItFails(k) == IF k = "refresh" /\ talk[k].at = "answered" THEN FALSE ELSE refreshing
Refreshing(k) == IF k = "refresh" THEN FALSE ELSE refreshing
(* What an answer makes of the user: a 401 drops him, whatever was asked;  *)
(* a login that fails leaves him, signing out never does.                  *)
UserAfter(k) ==
  IF talk[k].at = "failed" /\ k = "login" THEN user ELSE talk[k].who
Receive(k) ==
  /\ talk[k].at \in {"answered", "refused", "failed"} /\ talk' = [talk EXCEPT ![k] = Hushed]
  /\ user' = UserAfter(k) /\ refreshing' = Refreshing(k)
  /\ waiting' = (waiting /\ k # "initial" /\ talk[k].at # "refused")
  /\ IF k = "login" /\ talk[k].at = "answered"
     THEN path' = (IF origin = Nobody THEN "dashboard" ELSE origin) /\ origin' = Nobody
     ELSE UNCHANGED <<path, origin>>
  /\ UNCHANGED <<alive, standing, crossed, lapsed>>
(* Any other request of a page finds that the session is gone.             *)
AuthExpired ==
  /\ InShell /\ ~alive /\ user' = Nobody
  /\ UNCHANGED <<alive, standing, waiting, refreshing, talk, path, origin, crossed, lapsed>>

(***************************************************************************)
(* Meanwhile, on the server.                                               *)
(***************************************************************************)
Lapse ==
  /\ alive /\ alive' = FALSE /\ lapsed' = TRUE
  /\ UNCHANGED <<standing, user, waiting, refreshing, talk, path, origin, crossed>>
ChangeRights(m) ==
  /\ m # standing /\ standing' = m
  /\ UNCHANGED <<alive, user, waiting, refreshing, talk, path, origin, crossed, lapsed>>

AccessInit ==
  /\ alive \in BOOLEAN /\ standing \in Members /\ user = Nobody /\ waiting = TRUE
  /\ refreshing = FALSE /\ path \in Visits /\ origin = Nobody
  /\ talk = [k \in Talks |-> IF k = "initial" THEN [Hushed EXCEPT !.at = "sent"] ELSE Hushed]
  /\ crossed = FALSE /\ lapsed = FALSE
AccessNext ==
  \/ Follow \/ Revalidate \/ HandleSubmit \/ LogOut \/ AuthExpired \/ Lapse
  \/ \E p \in Visits : LoadPage(p) \/ Click(p)
  \/ \E k \in Talks : Reply(k) \/ Fails(k) \/ Receive(k)
  \/ \E m \in Members : ChangeRights(m)
AccessSpec == AccessInit /\ [][AccessNext]_accessVars

(***************************************************************************)
(* Property.                                                               *)
(***************************************************************************)
(* The browser does not believe in a session that is gone for long: with   *)
(* nothing on its way, a user is shown only if the server knows him or his *)
(* session has ended by itself - unless signing in or out has overlapped   *)
(* another call, whose late answer may be wrong.  It waits only for an     *)
(* answer that is to come, and no failure keeps it from refreshing again.  *)
(* Whoever he is, the navigation offers no page its route would refuse,    *)
(* and the redirects from any address end (AuthProvider.jsx:19-97,         *)
(* Router.jsx:50-162, Sidebar.jsx:8-64).                                   *)
GuardsAgree ==
  /\ (\A k \in Talks : ~OnItsWay(k)) /\ ~crossed /\ user # Nobody => alive \/ lapsed
  /\ waiting => OnItsWay("initial")
  /\ refreshing => OnItsWay("refresh")
  /\ InShell => \A p \in Offered : Onward(p) = p
  /\ ~waiting => \A p \in Addresses : LET q == Onward(Onward(p)) IN Onward(q) = q
=============================================================================
