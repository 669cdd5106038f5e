------------------------------ MODULE Identity ------------------------------
(***************************************************************************)
(* Users and roles: registration (internal/auth), the administrators'      *)
(* handlers (internal/user) and the tokens that carry a role (pkg/jwt,     *)
(* internal/middleware).  The role of a request is the one in its token,   *)
(* which may be older than the row.  A row is never removed and the        *)
(* unique key is on the e-mail alone, so an e-mail names one user for      *)
(* ever.  The e-mail code of a registration is EmailCode.                  *)
(***************************************************************************)
EXTENDS Integers, FiniteSets

CONSTANTS
    Emails,         \* e-mail addresses
    IHandlers,      \* HTTP requests
    Open,           \* settings: registration is open
    IMaxEvents      \* bound on requests

ASSUME IdentityAssumption ==
    /\ IsFiniteSet(Emails)
    /\ IsFiniteSet(IHandlers)
    /\ Open \in BOOLEAN
    /\ IMaxEvents \in Nat

Roles == {"user", "admin"}

VARIABLES
    iUser,      \* users: exists, deleted, role, status, the bonus credited
    iToken,     \* tokens that have not expired: user and role
    iReq,       \* the requests
    iClock,     \* inserts so far
    iSelf,      \* self-registered administrators: when checked, when inserted
    iStale,     \* some handler acted for a user who was no administrator any more
    iEvents     \* requests so far

iVars == <<iUser, iToken, iReq, iClock, iSelf, iStale, iEvents>>

IIdle == [pc |-> "idle"]

Absent == [exists |-> FALSE, deleted |-> FALSE, role |-> "user", status |-> "active", bonus |-> 0]

\* Types of the rows, tokens and requests.
IdentityType ==
    /\ iUser \in [Emails -> [exists : BOOLEAN, deleted : BOOLEAN, role : Roles,
                             status : {"active", "banned"}, bonus : 0 .. 1]]
    /\ iToken \subseteq [user : Emails, role : Roles]
    /\ \A h \in IHandlers : iReq[h].pc \in {"idle", "insert", "bonus", "delete"}
    /\ iStale \in BOOLEAN

IInit ==
    /\ iUser = [e \in Emails |-> Absent]
    /\ iToken = {}
    /\ iReq = [h \in IHandlers |-> IIdle]
    /\ iClock = 0
    /\ iSelf = {}
    /\ iStale = FALSE
    /\ iEvents = 0

IEvent == iEvents < IMaxEvents /\ iEvents' = iEvents + 1

Live(e) == iUser[e].exists /\ ~iUser[e].deleted
LiveAdmin(e) == Live(e) /\ iUser[e].role = "admin"

Finishes(h) == iReq' = [iReq EXCEPT ![h] = IIdle]

-----------------------------------------------------------------------------
(* Registration.                                                           *)

\* Mutant: users who are banned are not counted.
registerRoleActive ==
    IF \A e \in Emails : ~Live(e) \/ iUser[e].status = "banned" THEN {"admin"}
    ELSE IF Open THEN {"user"} ELSE {}

\* registerRole: the role of a new user; none when registration is closed.
registerRole ==
    IF \A e \in Emails : ~Live(e) THEN {"admin"}
    ELSE IF Open THEN {"user"} ELSE {}

\* Register looks whether the e-mail is taken and which role the user gets.
RegisterChecks(h, e) ==
    /\ iReq[h].pc = "idle"
    /\ IEvent
    /\ ~Live(e)
    /\ \E role \in registerRole :
          iReq' = [iReq EXCEPT ![h] = [pc |-> "insert", email |-> e, role |-> role,
                                       status |-> "active", self |-> TRUE, at |-> iClock]]
    /\ UNCHANGED <<iUser, iToken, iClock, iSelf, iStale>>

\* An administrator creates a user with any role and status.
AdminChecks(h, t, e) ==
    /\ iReq[h].pc = "idle"
    /\ IEvent
    /\ t.role = "admin"
    /\ ~Live(e)
    /\ \E role \in Roles, status \in {"active", "banned"} :
          iReq' = [iReq EXCEPT ![h] = [pc |-> "insert", email |-> e, role |-> role,
                                       status |-> status, self |-> FALSE, at |-> iClock]]
    /\ UNCHANGED <<iUser, iToken, iClock, iSelf, iStale>>

\* The INSERT.
InsertUser(h) ==
    LET q == iReq[h]
    IN /\ q.pc = "insert"
       /\ ~iUser[q.email].exists
       /\ iUser' = [iUser EXCEPT ![q.email] = [exists |-> TRUE, deleted |-> FALSE, role |-> q.role,
                                               status |-> q.status, bonus |-> 0]]
       /\ iClock' = iClock + 1
       /\ iSelf' = IF q.self /\ q.role = "admin"
                   THEN iSelf \cup {[email |-> q.email, checked |-> q.at, born |-> iClock + 1]} ELSE iSelf
       /\ iReq' = [iReq EXCEPT ![h] = [pc |-> "bonus", email |-> q.email]]
       /\ UNCHANGED <<iToken, iStale, iEvents>>

\* Another request has inserted the e-mail meanwhile, or the row is that of
\* a deleted user: the unique key refuses it.
InsertDuplicate(h) ==
    /\ iReq[h].pc = "insert"
    /\ iUser[iReq[h].email].exists
    /\ Finishes(h)
    /\ UNCHANGED <<iUser, iToken, iClock, iSelf, iStale, iEvents>>

\* AdminAdjust with the bonus or the initial credits; its error is dropped,
\* and the user may have been deleted.
Bonus(h) ==
    /\ iReq[h].pc = "bonus"
    /\ \/ /\ Live(iReq[h].email)
          /\ iUser' = [iUser EXCEPT ![iReq[h].email].bonus = @ + 1]
       \/ UNCHANGED iUser
    /\ Finishes(h)
    /\ UNCHANGED <<iToken, iClock, iSelf, iStale, iEvents>>

-----------------------------------------------------------------------------
(* Tokens.                                                                 *)

\* Login, and Refresh with an older token: the row is read again.
Issue(e) ==
    /\ IEvent
    /\ Live(e)
    /\ iUser[e].status # "banned"
    /\ iToken' = iToken \cup {[user |-> e, role |-> iUser[e].role]}
    /\ UNCHANGED <<iUser, iReq, iClock, iSelf, iStale>>

Expire(t) ==
    /\ iToken' = iToken \ {t}
    /\ UNCHANGED <<iUser, iReq, iClock, iSelf, iStale, iEvents>>

-----------------------------------------------------------------------------
(* Administrators.                                                         *)

\* What a handler notes about the user it acts for.
ActsFor(e) == iStale' = (iStale \/ ~LiveAdmin(e))

\* Mutant: administrators may step down.
MayDowngradeAnyone(actor, e) == TRUE

\* Update: "cannot downgrade your own admin role".
MayDowngrade(actor, e) == e # actor

\* Update, role and status; the token's role is all that is checked.
UpdateUser(t, e) ==
    /\ IEvent
    /\ t.role = "admin"
    /\ Live(e)
    /\ \E role \in Roles, status \in {"active", "banned"} :
          /\ role # "admin" /\ iUser[e].role = "admin" => MayDowngrade(t.user, e)
          /\ iUser' = [iUser EXCEPT ![e].role = role, ![e].status = status]
    /\ ActsFor(t.user)
    /\ UNCHANGED <<iToken, iReq, iClock, iSelf>>

\* Mutant: administrators may delete themselves.
MayDeleteAnyone(actor, e) == TRUE

\* Delete: "cannot delete yourself".
MayDelete(actor, e) == e # actor

\* confirmAdmin reads the row of the acting user: it must still be able to
\* log in with the password.
DeleteConfirmed(h, t, e) ==
    /\ iReq[h].pc = "idle"
    /\ IEvent
    /\ t.role = "admin"
    /\ MayDelete(t.user, e)
    /\ Live(t.user) /\ iUser[t.user].status # "banned"
    /\ iReq' = [iReq EXCEPT ![h] = [pc |-> "delete", email |-> e, actor |-> t.user]]
    /\ UNCHANGED <<iUser, iToken, iClock, iSelf, iStale>>

\* The UPDATE of SoftDelete; it matches no row when somebody was faster.
RemoveUser(h) ==
    LET e == iReq[h].email
    IN /\ iReq[h].pc = "delete"
       /\ iUser' = IF Live(e) THEN [iUser EXCEPT ![e].deleted = TRUE, ![e].status = "banned"] ELSE iUser
       /\ ActsFor(iReq[h].actor)
       /\ Finishes(h)
       /\ UNCHANGED <<iToken, iClock, iSelf, iEvents>>

\* A statement fails or the process dies; a registration that has inserted
\* its user stays without the bonus.
HandlerDies(h) ==
    /\ iReq[h].pc # "idle"
    /\ IEvent
    /\ Finishes(h)
    /\ UNCHANGED <<iUser, iToken, iClock, iSelf, iStale>>

INext ==
    \/ \E h \in IHandlers :
          \/ InsertUser(h) \/ InsertDuplicate(h) \/ Bonus(h) \/ RemoveUser(h) \/ HandlerDies(h)
          \/ \E e \in Emails : RegisterChecks(h, e)
          \/ \E t \in iToken, e \in Emails : AdminChecks(h, t, e) \/ DeleteConfirmed(h, t, e)
    \/ \E e \in Emails : Issue(e)
    \/ \E t \in iToken : Expire(t) \/ \E e \in Emails : UpdateUser(t, e)

ISpec == IInit /\ [][INext]_iVars

-----------------------------------------------------------------------------
(* Properties.                                                             *)

\* Whoever registers as administrator found no user: of two who did, the
\* later one looked before the earlier one was inserted, or the earlier one
\* has been deleted.
SelfMadeAdminsOverlap ==
    \A a, b \in iSelf :
        a.born < b.born => b.checked < a.born \/ iUser[a.email].deleted

\* The two checks against locking oneself out keep an administrator as long
\* as every request acts for a user who still is one: the last administrator
\* can only be lost through a token that is older than its user's demotion
\* or deletion.
LastAdminKept ==
    (\E e \in Emails : iUser[e].exists) => iStale \/ \E e \in Emails : LiveAdmin(e)
=============================================================================
