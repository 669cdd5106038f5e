---------------------------- MODULE EntryProofs -----------------------------
(***************************************************************************)
(* Proofs about what stands before a request: who gets in - registration,  *)
(* roles and the administration of users (Identity) and the codes that     *)
(* registrations are mailed (EmailCode) - and what a user may do then: the *)
(* keys and their quotas (ApiKeys), the token bucket (RateLimit), and what *)
(* is written about the request afterwards (UsageLog).                     *)
(***************************************************************************)
EXTENDS MCEntry, FiniteSetTheorems, SequenceTheorems, TLAPS

-----------------------------------------------------------------------------
(* Users.                                                                  *)

UserRows == [exists : BOOLEAN, deleted : BOOLEAN, role : Roles, status : {"active", "banned"}, bonus : 0 .. 1]
Registering == [pc : {"insert"}, email : Emails, role : Roles, status : {"active", "banned"},
                self : BOOLEAN, at : Nat]
Welcoming == [pc : {"bonus"}, email : Emails]
Deleting == [pc : {"delete"}, email : Emails, actor : Emails]
IRequests == {IIdle} \cup Registering \cup Welcoming \cup Deleting

\* Types of everything the handlers touch.
MemberShape ==
    /\ iUser \in [Emails -> UserRows]
    /\ iToken \subseteq [user : Emails, role : Roles]
    /\ iReq \in [IHandlers -> IRequests]
    /\ iClock \in Nat
    /\ iSelf \subseteq [email : Emails, checked : Nat, born : Nat]
    /\ iStale \in BOOLEAN

\* A bonus is still to come for a user who has none, from one request.
BonusDue ==
    /\ \A h \in IHandlers : iReq[h].pc = "bonus" => iUser[iReq[h].email].exists /\ iUser[iReq[h].email].bonus = 0
    /\ \A h, g \in IHandlers :
          iReq[h].pc = "bonus" /\ iReq[g].pc = "bonus" /\ iReq[h].email = iReq[g].email => h = g

\* Self-made administrators have rows; whoever is about to become one has
\* seen all who were inserted before deleted.
SelvesKnown ==
    /\ \A a \in iSelf : iUser[a.email].exists /\ a.born <= iClock
    /\ \A h \in IHandlers :
          LET q == iReq[h]
          IN q.pc = "insert" /\ q.self /\ q.role = "admin" =>
                /\ q.at <= iClock
                /\ \A a \in iSelf : a.born <= q.at => iUser[a.email].deleted

\* Only the first user comes without another one.
SomebodyBefore ==
    /\ iToken # {} => \E e \in Emails : iUser[e].exists
    /\ \A h \in IHandlers :
          /\ iReq[h].pc = "insert" /\ iReq[h].role # "admin" => \E e \in Emails : iUser[e].exists
          /\ iReq[h].pc = "delete" => iReq[h].email # iReq[h].actor

MemberInv ==
    /\ MemberShape /\ BonusDue
    /\ SelvesKnown /\ SelfMadeAdminsOverlap
    /\ SomebodyBefore /\ LastAdminKept

\* The state of a request tells what it holds.
LEMMA MemberRequestKinds ==
    ASSUME NEW q \in IRequests
    PROVE  /\ q.pc \in {"idle", "insert", "bonus", "delete"}
           /\ q \in Registering <=> q.pc = "insert"
           /\ q \in Welcoming <=> q.pc = "bonus"
           /\ q \in Deleting <=> q.pc = "delete"
           /\ q.pc # "idle" => q.email \in Emails
BY DEF IRequests, IIdle, Registering, Welcoming, Deleting

\* One handler goes on and the others stay where they are.
HandlerMoves(h, q) ==
    /\ q \in IRequests /\ iReq'[h] = q
    /\ iReq' \in [IHandlers -> IRequests]
    /\ \A g \in IHandlers \ {h} : iReq'[g] = iReq[g]

\* An assignment to one request is a move of its handler.
LEMMA HandlerMovesBy ==
    ASSUME MemberShape, NEW h \in IHandlers, NEW q \in IRequests, iReq' = [iReq EXCEPT ![h] = q]
    PROVE  HandlerMoves(h, q)
BY DEF MemberShape, HandlerMoves

\* A handler that answers is idle again.
LEMMA FinishesMoves ==
    ASSUME MemberShape, NEW h \in IHandlers, Finishes(h)
    PROVE  HandlerMoves(h, IIdle) /\ IIdle.pc = "idle"
BY HandlerMovesBy DEF Finishes, IRequests, IIdle

-----------------------------------------------------------------------------
(* What each operation changes.                                            *)

\* The checks of Register and of the administrator's Create: the request goes
\* on to its INSERT; whoever made itself administrator saw no living user.
LEMMA ChecksEffect ==
    ASSUME MemberShape, NEW h \in IHandlers, NEW e \in Emails,
           RegisterChecks(h, e) \/ \E t \in iToken : AdminChecks(h, t, e)
    PROVE  /\ UNCHANGED <<iUser, iToken, iClock, iSelf, iStale>>
           /\ \E q \in Registering :
                 /\ HandlerMoves(h, q)
                 /\ q.self /\ q.role = "admin" => q.at = iClock /\ \A f \in Emails : ~Live(f)
                 /\ q.role # "admin" => iToken # {} \/ \E f \in Emails : Live(f)
<1>1. ASSUME RegisterChecks(h, e)
      PROVE  \E q \in Registering :
                 /\ HandlerMoves(h, q)
                 /\ q.self /\ q.role = "admin" => q.at = iClock /\ \A f \in Emails : ~Live(f)
                 /\ q.role # "admin" => iToken # {} \/ \E f \in Emails : Live(f)
  <2>1. PICK role \in registerRole :
           iReq' = [iReq EXCEPT ![h] = [pc |-> "insert", email |-> e, role |-> role,
                                        status |-> "active", self |-> TRUE, at |-> iClock]]
    BY <1>1 DEF RegisterChecks
  <2>2. /\ role \in Roles
        /\ role = "admin" => \A f \in Emails : ~Live(f)
        /\ role # "admin" => \E f \in Emails : Live(f)
    BY <2>1 DEF registerRole, Roles
  <2> DEFINE q == [pc |-> "insert", email |-> e, role |-> role,
                   status |-> "active", self |-> TRUE, at |-> iClock]
  <2>3. q \in Registering /\ q.role = role /\ q.at = iClock
    BY <2>2 DEF Registering, MemberShape
  <2>4. iReq' = [iReq EXCEPT ![h] = q]
    BY <2>1
  <2> HIDE DEF q
  <2>5. HandlerMoves(h, q)
    BY <2>3, <2>4, HandlerMovesBy DEF IRequests
  <2> QED BY <2>2, <2>3, <2>5
<1>2. ASSUME NEW t \in iToken, AdminChecks(h, t, e)
      PROVE  \E q \in Registering :
                 /\ HandlerMoves(h, q)
                 /\ q.self /\ q.role = "admin" => q.at = iClock /\ \A f \in Emails : ~Live(f)
                 /\ q.role # "admin" => iToken # {} \/ \E f \in Emails : Live(f)
  <2>1. PICK role \in Roles, state \in {"active", "banned"} :
           iReq' = [iReq EXCEPT ![h] = [pc |-> "insert", email |-> e, role |-> role,
                                        status |-> state, self |-> FALSE, at |-> iClock]]
    BY <1>2 DEF AdminChecks
  <2> DEFINE q == [pc |-> "insert", email |-> e, role |-> role,
                   status |-> state, self |-> FALSE, at |-> iClock]
  <2>3. q \in Registering /\ ~q.self
    BY DEF Registering, MemberShape
  <2>4. iReq' = [iReq EXCEPT ![h] = q]
    BY <2>1
  <2> HIDE DEF q
  <2>5. HandlerMoves(h, q)
    BY <2>3, <2>4, HandlerMovesBy DEF IRequests
  <2> QED BY <2>3, <2>5
<1>3. UNCHANGED <<iUser, iToken, iClock, iSelf, iStale>>
  BY DEF RegisterChecks, AdminChecks
<1> QED BY <1>1, <1>2, <1>3

\* INSERT INTO users: one row more, and a bonus to come.
LEMMA InsertUserEffect ==
    ASSUME MemberShape, NEW h \in IHandlers, InsertUser(h)
    PROVE  LET q == iReq[h]
               e == iReq[h].email
           IN /\ UNCHANGED <<iToken, iStale>>
              /\ q \in Registering /\ q.pc = "insert" /\ ~iUser[e].exists
              /\ iUser' \in [Emails -> UserRows] /\ \A f \in Emails \ {e} : iUser'[f] = iUser[f]
              /\ iUser'[e].exists /\ ~iUser'[e].deleted
              /\ iUser'[e].role = q.role /\ iUser'[e].bonus = 0
              /\ iClock' = iClock + 1
              /\ \/ iSelf' = iSelf
                 \/ /\ q.self /\ q.role = "admin"
                    /\ iSelf' = iSelf \cup {[email |-> e, checked |-> q.at, born |-> iClock + 1]}
              /\ \E r \in Welcoming : HandlerMoves(h, r) /\ r.email = e
<1> DEFINE q == iReq[h]
           e == q.email
           row == [exists |-> TRUE, deleted |-> FALSE, role |-> q.role, status |-> q.status, bonus |-> 0]
           r == [pc |-> "bonus", email |-> e]
<1>1. /\ UNCHANGED <<iToken, iStale>> /\ q.pc = "insert" /\ ~iUser[e].exists
      /\ iUser' = [iUser EXCEPT ![e] = row] /\ iClock' = iClock + 1
      /\ iReq' = [iReq EXCEPT ![h] = r]
      /\ \/ iSelf' = iSelf
         \/ /\ q.self /\ q.role = "admin"
            /\ iSelf' = iSelf \cup {[email |-> e, checked |-> q.at, born |-> iClock + 1]}
  BY DEF InsertUser
<1>2. q \in Registering /\ e \in Emails
  BY <1>1, MemberRequestKinds DEF MemberShape
<1>3. row \in UserRows /\ row.exists /\ ~row.deleted /\ row.role = q.role /\ row.bonus = 0
  BY <1>2 DEF UserRows, Registering
<1>4. r \in Welcoming /\ r.email = e
  BY <1>2 DEF Welcoming
<1> HIDE DEF row, r
<1>5. HandlerMoves(h, r)
  BY <1>1, <1>4, HandlerMovesBy DEF IRequests
<1>6. iUser' \in [Emails -> UserRows] /\ iUser'[e] = row /\ \A f \in Emails \ {e} : iUser'[f] = iUser[f]
  BY <1>1, <1>2, <1>3 DEF MemberShape
<1> QED BY <1>1, <1>2, <1>3, <1>4, <1>5, <1>6

\* Steps that leave the users and what was noted about them alone.
LEMMA IdleEffect ==
    ASSUME MemberShape, NEW h \in IHandlers, InsertDuplicate(h) \/ HandlerDies(h)
    PROVE  UNCHANGED <<iUser, iToken, iClock, iSelf, iStale>> /\ HandlerMoves(h, IIdle)
BY FinishesMoves DEF InsertDuplicate, HandlerDies

\* The registration bonus: nothing of the row changes but the bonus.
LEMMA BonusEffect ==
    ASSUME MemberShape, BonusDue, NEW h \in IHandlers, Bonus(h)
    PROVE  LET e == iReq[h].email
           IN /\ UNCHANGED <<iToken, iClock, iSelf, iStale>>
              /\ iReq[h].pc = "bonus" /\ e \in Emails /\ HandlerMoves(h, IIdle)
              /\ iUser' \in [Emails -> UserRows] /\ \A f \in Emails \ {e} : iUser'[f] = iUser[f]
              /\ iUser'[e].exists = iUser[e].exists /\ iUser'[e].deleted = iUser[e].deleted
              /\ iUser'[e].role = iUser[e].role
<1> DEFINE e == iReq[h].email
           row == [iUser[e] EXCEPT !.bonus = iUser[e].bonus + 1]
<1>1. /\ UNCHANGED <<iToken, iClock, iSelf, iStale>> /\ iReq[h].pc = "bonus" /\ Finishes(h)
      /\ iUser' = [iUser EXCEPT ![e] = row] \/ iUser' = iUser
  BY DEF Bonus
<1>2. e \in Emails /\ HandlerMoves(h, IIdle) /\ iUser[e] \in UserRows
  BY <1>1, MemberRequestKinds, FinishesMoves DEF MemberShape
<1>3. iUser[e].bonus = 0
  BY <1>1 DEF BonusDue
<1>4. /\ row \in UserRows /\ row.exists = iUser[e].exists /\ row.deleted = iUser[e].deleted
      /\ row.role = iUser[e].role
  BY <1>2, <1>3 DEF UserRows
<1> HIDE DEF row
<1>5. CASE iUser' = iUser
  BY <1>1, <1>2, <1>5 DEF MemberShape
<1>6. CASE iUser' = [iUser EXCEPT ![e] = row]
  <2>1. iUser' \in [Emails -> UserRows] /\ iUser'[e] = row /\ \A f \in Emails \ {e} : iUser'[f] = iUser[f]
    BY <1>2, <1>4, <1>6 DEF MemberShape
  <2> QED BY <1>1, <1>2, <1>4, <2>1
<1> QED BY <1>1, <1>5, <1>6

\* The administrator's Update: nobody takes the role from itself.
LEMMA UpdateEffect ==
    ASSUME MemberShape, NEW t \in iToken, NEW e \in Emails, UpdateUser(t, e)
    PROVE  /\ UNCHANGED <<iToken, iReq, iClock, iSelf>>
           /\ t.user \in Emails /\ Live(e)
           /\ iStale' = (iStale \/ ~LiveAdmin(t.user))
           /\ iUser' \in [Emails -> UserRows] /\ \A f \in Emails \ {e} : iUser'[f] = iUser[f]
           /\ iUser'[e].exists = iUser[e].exists /\ iUser'[e].deleted = iUser[e].deleted
           /\ iUser'[e].bonus = iUser[e].bonus
           /\ iUser[e].role = "admin" /\ iUser'[e].role # "admin" => e # t.user
<1>1. /\ UNCHANGED <<iToken, iReq, iClock, iSelf>> /\ Live(e)
      /\ iStale' = (iStale \/ ~LiveAdmin(t.user))
  BY DEF UpdateUser, ActsFor
<1>2. t.user \in Emails /\ iUser[e] \in UserRows
  BY DEF MemberShape
<1>3. PICK role \in Roles, state \in {"active", "banned"} :
         /\ role # "admin" /\ iUser[e].role = "admin" => e # t.user
         /\ iUser' = [iUser EXCEPT ![e].role = role, ![e].status = state]
  BY DEF UpdateUser, MayDowngrade
<1> DEFINE r1 == [iUser[e] EXCEPT !.role = role]
           r2 == [r1 EXCEPT !.status = state]
<1>4. /\ r1 \in UserRows /\ r1.role = role /\ r1.exists = iUser[e].exists
      /\ r1.deleted = iUser[e].deleted /\ r1.bonus = iUser[e].bonus
  BY <1>2 DEF UserRows
<1>5. iUser' = [iUser EXCEPT ![e] = r2]
  BY <1>3 DEF MemberShape
<1> HIDE DEF r1
<1>6. /\ r2 \in UserRows /\ r2.role = role /\ r2.exists = iUser[e].exists
      /\ r2.deleted = iUser[e].deleted /\ r2.bonus = iUser[e].bonus
  BY <1>4 DEF UserRows
<1> HIDE DEF r2
<1>7. iUser' \in [Emails -> UserRows] /\ iUser'[e] = r2 /\ \A f \in Emails \ {e} : iUser'[f] = iUser[f]
  BY <1>5, <1>6 DEF MemberShape
<1> QED BY <1>1, <1>2, <1>3, <1>6, <1>7

\* The administrator's Delete: the row is marked, in the name of the actor.
LEMMA RemoveEffect ==
    ASSUME MemberShape, NEW h \in IHandlers, RemoveUser(h)
    PROVE  LET e == iReq[h].email
               actor == iReq[h].actor
           IN /\ UNCHANGED <<iToken, iClock, iSelf>>
              /\ iReq[h].pc = "delete" /\ e \in Emails /\ actor \in Emails /\ HandlerMoves(h, IIdle)
              /\ iStale' = (iStale \/ ~LiveAdmin(actor))
              /\ iUser' \in [Emails -> UserRows] /\ \A f \in Emails \ {e} : iUser'[f] = iUser[f]
              /\ iUser'[e].exists = iUser[e].exists /\ (iUser[e].deleted => iUser'[e].deleted)
              /\ iUser'[e].bonus = iUser[e].bonus
<1> DEFINE e == iReq[h].email
           actor == iReq[h].actor
           r1 == [iUser[e] EXCEPT !.deleted = TRUE]
           r2 == [r1 EXCEPT !.status = "banned"]
<1>1. /\ UNCHANGED <<iToken, iClock, iSelf>> /\ iReq[h].pc = "delete" /\ Finishes(h)
      /\ iStale' = (iStale \/ ~LiveAdmin(actor))
      /\ iUser' = iUser \/ iUser' = [iUser EXCEPT ![e].deleted = TRUE, ![e].status = "banned"]
  BY DEF RemoveUser, ActsFor
<1>2. e \in Emails /\ actor \in Emails /\ HandlerMoves(h, IIdle) /\ iUser[e] \in UserRows
  BY <1>1, MemberRequestKinds, FinishesMoves DEF MemberShape, Deleting
<1>3. CASE iUser' = iUser
  BY <1>1, <1>2, <1>3 DEF MemberShape
<1>4. CASE iUser' = [iUser EXCEPT ![e].deleted = TRUE, ![e].status = "banned"]
  <2>1. iUser' = [iUser EXCEPT ![e] = r2]
    BY <1>2, <1>4 DEF MemberShape
  <2>2. r1 \in UserRows /\ r1.deleted /\ r1.exists = iUser[e].exists /\ r1.bonus = iUser[e].bonus
    BY <1>2 DEF UserRows
  <2> HIDE DEF r1
  <2>3. r2 \in UserRows /\ r2.deleted /\ r2.exists = iUser[e].exists /\ r2.bonus = iUser[e].bonus
    BY <2>2 DEF UserRows
  <2> HIDE DEF r2
  <2>4. iUser' \in [Emails -> UserRows] /\ iUser'[e] = r2 /\ \A f \in Emails \ {e} : iUser'[f] = iUser[f]
    BY <1>2, <2>1, <2>3 DEF MemberShape
  <2> QED BY <1>1, <1>2, <2>3, <2>4
<1> QED BY <1>1, <1>3, <1>4

\* The check before Delete: nobody deletes itself.
LEMMA ConfirmedEffect ==
    ASSUME MemberShape, NEW h \in IHandlers, NEW t \in iToken, NEW e \in Emails, DeleteConfirmed(h, t, e)
    PROVE  /\ UNCHANGED <<iUser, iToken, iClock, iSelf, iStale>>
           /\ \E q \in Deleting : HandlerMoves(h, q) /\ q.email # q.actor
<1> DEFINE q == [pc |-> "delete", email |-> e, actor |-> t.user]
<1>1. /\ UNCHANGED <<iUser, iToken, iClock, iSelf, iStale>> /\ e # t.user /\ iReq' = [iReq EXCEPT ![h] = q]
  BY DEF DeleteConfirmed, MayDelete
<1>2. q \in Deleting /\ q.email # q.actor
  BY <1>1 DEF Deleting, MemberShape
<1> HIDE DEF q
<1>3. HandlerMoves(h, q)
  BY <1>1, <1>2, HandlerMovesBy DEF IRequests
<1> QED BY <1>1, <1>2, <1>3

\* Tokens are issued to users that exist, and expire.
LEMMA TokenEffect ==
    ASSUME MemberShape, (\E e \in Emails : Issue(e)) \/ (\E t \in iToken : Expire(t))
    PROVE  /\ UNCHANGED <<iUser, iReq, iClock, iSelf, iStale>>
           /\ iToken' \subseteq [user : Emails, role : Roles]
           /\ iToken' # {} => iToken # {} \/ \E e \in Emails : iUser[e].exists
<1>1. CASE \E e \in Emails : Issue(e)
  <2>1. PICK e \in Emails : Issue(e)
    BY <1>1
  <2>2. iUser[e].role \in Roles
    BY DEF MemberShape, UserRows
  <2> QED BY <2>1, <2>2 DEF Issue, Live, MemberShape
<1>2. CASE \E t \in iToken : Expire(t)
  BY <1>2 DEF Expire, MemberShape
<1> QED BY <1>1, <1>2

-----------------------------------------------------------------------------
(* The steps.                                                              *)

\* Rows are never lost and never come back from deletion.
RowsStay == \A e \in Emails : /\ iUser[e].exists => iUser'[e].exists
                              /\ iUser[e].exists /\ iUser[e].deleted => iUser'[e].deleted

\* A step that inserts nobody keeps what was noted about self-made
\* administrators; a handler that starts to be one has seen no user.
LEMMA SelvesStay ==
    ASSUME MemberShape, SelvesKnown, SelfMadeAdminsOverlap, RowsStay, UNCHANGED <<iSelf, iClock>>,
           \A h \in IHandlers :
              LET q == iReq'[h]
              IN q.pc = "insert" /\ q.self /\ q.role = "admin" =>
                    q = iReq[h] \/ (q.at = iClock /\ \A f \in Emails : ~Live(f))
    PROVE  SelvesKnown' /\ SelfMadeAdminsOverlap'
<1>1. \A a \in iSelf : /\ a.email \in Emails /\ iUser[a.email].exists /\ iUser'[a.email].exists
                       /\ iUser[a.email].deleted => iUser'[a.email].deleted
  BY DEF MemberShape, SelvesKnown, RowsStay
<1>2. SelfMadeAdminsOverlap'
  BY <1>1 DEF SelfMadeAdminsOverlap
<1>3. \A a \in iSelf : iUser'[a.email].exists /\ a.born <= iClock
  BY <1>1 DEF SelvesKnown
<1>4. ASSUME NEW h \in IHandlers, iReq'[h].pc = "insert", iReq'[h].self, iReq'[h].role = "admin"
      PROVE  /\ iReq'[h].at <= iClock
             /\ \A a \in iSelf : a.born <= iReq'[h].at => iUser'[a.email].deleted
  <2>1. CASE iReq'[h] = iReq[h]
    BY <1>1, <1>4, <2>1 DEF SelvesKnown
  <2>2. CASE iReq'[h].at = iClock /\ \A f \in Emails : ~Live(f)
    <3>1. \A a \in iSelf : iUser[a.email].deleted
      BY <1>1, <2>2 DEF Live
    <3> QED BY <1>1, <2>2, <3>1 DEF MemberShape
  <2> QED BY <1>4, <2>1, <2>2
<1> QED BY <1>2, <1>3, <1>4 DEF SelvesKnown

\* A step that leaves the users alone.
LEMMA UsersStay ==
    ASSUME MemberInv, MemberShape', UNCHANGED <<iUser, iClock, iSelf, iStale>>,
           iToken' # {} => iToken # {} \/ \E e \in Emails : iUser[e].exists,
           \A h \in IHandlers :
              LET q == iReq'[h]
              IN \/ q = iReq[h]
                 \/ q.pc = "idle"
                 \/ q.pc = "delete" /\ q.email # q.actor
                 \/ /\ q.pc = "insert"
                    /\ q.self /\ q.role = "admin" => q.at = iClock /\ \A f \in Emails : ~Live(f)
                    /\ q.role # "admin" => iToken # {} \/ \E f \in Emails : Live(f)
    PROVE  MemberInv'
<1>0. MemberShape /\ BonusDue /\ SelvesKnown /\ SelfMadeAdminsOverlap /\ SomebodyBefore /\ LastAdminKept
  BY DEF MemberInv
<1>1. RowsStay
  BY DEF RowsStay
<1>2. SelvesKnown' /\ SelfMadeAdminsOverlap'
  BY <1>0, <1>1, SelvesStay
<1>3. BonusDue'
  BY <1>0 DEF BonusDue
<1>4. (\E f \in Emails : Live(f)) \/ iToken # {} => \E e \in Emails : iUser[e].exists
  BY <1>0 DEF Live, SomebodyBefore
<1>5. SomebodyBefore'
  BY <1>0, <1>4 DEF SomebodyBefore
<1>6. LastAdminKept'
  BY <1>0 DEF LastAdminKept, LiveAdmin, Live
<1> QED BY <1>2, <1>3, <1>5, <1>6 DEF MemberInv

\* An INSERT keeps the invariant: a self-made administrator overlapped with
\* every other living one, since its check saw none of them.
LEMMA InsertKeeps ==
    ASSUME MemberInv, NEW h \in IHandlers, InsertUser(h)
    PROVE  MemberInv'
<1> DEFINE q == iReq[h]
           e == iReq[h].email
           new == [email |-> e, checked |-> q.at, born |-> iClock + 1]
<1>0. /\ MemberShape /\ BonusDue /\ SelvesKnown /\ SelfMadeAdminsOverlap /\ SomebodyBefore /\ LastAdminKept
      /\ iClock \in Nat
  BY DEF MemberInv, MemberShape
<1>1. /\ UNCHANGED <<iToken, iStale>>
      /\ q \in Registering /\ q.pc = "insert" /\ ~iUser[e].exists
      /\ iUser' \in [Emails -> UserRows] /\ \A f \in Emails \ {e} : iUser'[f] = iUser[f]
      /\ iUser'[e].exists /\ ~iUser'[e].deleted
      /\ iUser'[e].role = q.role /\ iUser'[e].bonus = 0
      /\ iClock' = iClock + 1
      /\ iSelf' = iSelf \/ (q.self /\ q.role = "admin" /\ iSelf' = iSelf \cup {new})
  BY <1>0, InsertUserEffect
<1>2. PICK r \in Welcoming : HandlerMoves(h, r) /\ r.email = e
  BY <1>0, InsertUserEffect
<1>3. /\ e \in Emails /\ q.at \in Nat /\ r.pc = "bonus"
      /\ new \in [email : Emails, checked : Nat, born : Nat]
      /\ new.email = e /\ new.checked = q.at /\ new.born = iClock + 1
  BY <1>0, <1>1 DEF Registering, Welcoming
<1>4. /\ iReq'[h] = r /\ iReq' \in [IHandlers -> IRequests]
      /\ \A g \in IHandlers \ {h} : iReq'[g] = iReq[g]
  BY <1>2 DEF HandlerMoves
<1> HIDE DEF new, e
<1>5. \A f \in Emails : iUser[f].exists => f # e /\ iUser'[f] = iUser[f]
  BY <1>1
<1>6. MemberShape'
  BY <1>0, <1>1, <1>3, <1>4 DEF MemberShape
<1>7. BonusDue'
  <2>1. \A g \in IHandlers \ {h} : iReq[g].pc = "bonus" =>
           iReq[g].email \in Emails /\ iReq[g].email # e /\ iUser'[iReq[g].email] = iUser[iReq[g].email]
    <3>1. \A g \in IHandlers : iReq[g].pc = "bonus" => iReq[g].email \in Emails
      BY <1>0, MemberRequestKinds DEF MemberShape
    <3> QED BY <1>0, <1>5, <3>1 DEF BonusDue
  <2> QED BY <1>0, <1>1, <1>2, <1>3, <1>4, <2>1 DEF BonusDue
<1>8. \A a \in iSelf : /\ a.email \in Emails /\ iUser[a.email].exists /\ iUser'[a.email] = iUser[a.email]
                       /\ a.born <= iClock /\ a.born \in Nat /\ a.checked \in Nat
  BY <1>0, <1>5 DEF MemberShape, SelvesKnown
<1>9. SelfMadeAdminsOverlap'
  <2>1. CASE iSelf' = iSelf
    BY <1>0, <1>8, <2>1 DEF SelfMadeAdminsOverlap
  <2>2. CASE q.self /\ q.role = "admin" /\ iSelf' = iSelf \cup {new}
    <3>1. \A a \in iSelf : a.born <= q.at => iUser[a.email].deleted
      BY <1>0, <1>1, <2>2 DEF SelvesKnown
    <3>2. \A a \in iSelf : new.checked < a.born \/ iUser'[a.email].deleted
      BY <1>3, <1>8, <3>1
    <3>3. \A b \in iSelf : ~(new.born < b.born)
      BY <1>0, <1>3, <1>8
    <3>4. ~(new.born < new.born)
      BY <1>0, <1>3
    <3> QED BY <1>0, <1>8, <2>2, <3>2, <3>3, <3>4 DEF SelfMadeAdminsOverlap
  <2> QED BY <1>1, <2>1, <2>2
<1>10. SelvesKnown'
  <2>1. \A a \in iSelf' : iUser'[a.email].exists /\ a.born <= iClock'
    BY <1>0, <1>1, <1>3, <1>8
  <2>2. ASSUME NEW g \in IHandlers, iReq'[g].pc = "insert", iReq'[g].self, iReq'[g].role = "admin"
        PROVE  /\ iReq'[g].at <= iClock'
               /\ \A a \in iSelf' : a.born <= iReq'[g].at => iUser'[a.email].deleted
    <3>1. g # h /\ iReq'[g] = iReq[g]
      BY <1>3, <1>4, <2>2
    <3>2. iReq[g].at \in Nat
      BY <1>0, <2>2, <3>1, MemberRequestKinds DEF MemberShape, Registering
    <3>3. iReq[g].at <= iClock /\ \A a \in iSelf : a.born <= iReq[g].at => iUser[a.email].deleted
      BY <1>0, <2>2, <3>1 DEF SelvesKnown
    <3>4. ~(new.born <= iReq[g].at)
      BY <1>0, <1>3, <3>2, <3>3
    <3> QED BY <1>0, <1>1, <1>8, <3>1, <3>2, <3>3, <3>4
  <2> QED BY <2>1, <2>2 DEF SelvesKnown
<1>11. SomebodyBefore'
  <2>1. \E f \in Emails : iUser'[f].exists
    BY <1>1, <1>3
  <2>2. \A g \in IHandlers : iReq'[g].pc = "delete" => iReq'[g].email # iReq'[g].actor
    BY <1>0, <1>3, <1>4 DEF SomebodyBefore
  <2> QED BY <2>1, <2>2 DEF SomebodyBefore
<1>12. LastAdminKept'
  <2>1. CASE q.role = "admin"
    BY <1>1, <1>3, <2>1 DEF LastAdminKept, LiveAdmin, Live
  <2>2. CASE q.role # "admin"
    <3>1. \E f \in Emails : iUser[f].exists
      BY <1>0, <1>1, <2>2 DEF SomebodyBefore
    <3>2. iStale \/ \E f \in Emails : LiveAdmin(f)
      BY <1>0, <3>1 DEF LastAdminKept
    <3>3. \A f \in Emails : LiveAdmin(f) => LiveAdmin(f)'
      BY <1>5 DEF LiveAdmin, Live
    <3> QED BY <1>1, <3>2, <3>3 DEF LastAdminKept
  <2> QED BY <2>1, <2>2
<1> QED BY <1>6, <1>7, <1>9, <1>10, <1>11, <1>12 DEF MemberInv

\* Edits of a row that exists, in the name of an administrator or of nobody.
LEMMA EditKeeps ==
    ASSUME MemberInv, MemberShape', NEW e \in Emails, UNCHANGED <<iToken, iClock, iSelf>>,
           \A h \in IHandlers : iReq'[h] = iReq[h] \/ iReq'[h].pc = "idle",
           \A f \in Emails \ {e} : iUser'[f] = iUser[f],
           iUser'[e].exists = iUser[e].exists, iUser[e].deleted => iUser'[e].deleted,
           \A h \in IHandlers : iReq'[h].pc = "bonus" /\ iReq'[h].email = e => iUser'[e].bonus = iUser[e].bonus,
           (\E f \in Emails : iUser[f].exists) =>
               iStale' \/ (~iStale /\ \E f \in Emails : LiveAdmin(f)')
    PROVE  MemberInv'
<1>0. MemberShape /\ BonusDue /\ SelvesKnown /\ SelfMadeAdminsOverlap /\ SomebodyBefore /\ LastAdminKept
  BY DEF MemberInv
<1>1. RowsStay /\ \A f \in Emails : iUser'[f].exists = iUser[f].exists
  BY DEF RowsStay
<1>2. SelvesKnown' /\ SelfMadeAdminsOverlap'
  BY <1>0, <1>1, SelvesStay
<1>3. BonusDue'
  <2>1. \A h \in IHandlers : iReq'[h].pc = "bonus" => iReq'[h] = iReq[h] /\ iReq[h].email \in Emails
    BY <1>0, MemberRequestKinds DEF MemberShape
  <2>2. \A h \in IHandlers : iReq'[h].pc = "bonus" => iUser'[iReq'[h].email].bonus = iUser[iReq'[h].email].bonus
    BY <2>1
  <2> QED BY <1>0, <1>1, <2>1, <2>2 DEF BonusDue
<1>4. SomebodyBefore'
  BY <1>0, <1>1 DEF SomebodyBefore
<1>5. LastAdminKept'
  BY <1>1 DEF LastAdminKept
<1> QED BY <1>2, <1>3, <1>4, <1>5 DEF MemberInv

\* Every step of the handlers keeps the invariant.
LEMMA MemberStep == ASSUME MemberInv, [INext]_iVars PROVE MemberInv'
<1>0. /\ MemberShape /\ BonusDue /\ SomebodyBefore /\ LastAdminKept /\ iStale \in BOOLEAN
      /\ IIdle \in IRequests /\ IIdle.pc = "idle"
      /\ \A q \in Registering : q.pc = "insert"
      /\ \A q \in Deleting : q.pc = "delete"
  BY DEF MemberInv, MemberShape, IRequests, IIdle, Registering, Deleting
<1>1. ASSUME NEW h \in IHandlers, NEW e \in Emails,
             RegisterChecks(h, e) \/ \E t \in iToken : AdminChecks(h, t, e)
      PROVE  MemberInv'
  <2>1. UNCHANGED <<iUser, iToken, iClock, iSelf, iStale>>
    BY <1>0, <1>1, ChecksEffect
  <2>2. PICK q \in Registering :
                 /\ HandlerMoves(h, q)
                 /\ q.self /\ q.role = "admin" => q.at = iClock /\ \A f \in Emails : ~Live(f)
                 /\ q.role # "admin" => iToken # {} \/ \E f \in Emails : Live(f)
    BY <1>0, <1>1, ChecksEffect
  <2>3. MemberShape' /\ iReq'[h] = q /\ q.pc = "insert" /\ \A g \in IHandlers \ {h} : iReq'[g] = iReq[g]
    BY <1>0, <2>1, <2>2 DEF HandlerMoves, MemberShape
  <2> QED BY <2>1, <2>2, <2>3, UsersStay
<1>2. ASSUME NEW h \in IHandlers, InsertDuplicate(h) \/ HandlerDies(h) PROVE MemberInv'
  <2>1. UNCHANGED <<iUser, iToken, iClock, iSelf, iStale>> /\ HandlerMoves(h, IIdle)
    BY <1>0, <1>2, IdleEffect
  <2>2. MemberShape' /\ iReq'[h].pc = "idle" /\ \A g \in IHandlers \ {h} : iReq'[g] = iReq[g]
    BY <1>0, <2>1 DEF HandlerMoves, MemberShape
  <2> QED BY <2>1, <2>2, UsersStay
<1>3. ASSUME NEW h \in IHandlers, NEW t \in iToken, NEW e \in Emails, DeleteConfirmed(h, t, e) PROVE MemberInv'
  <2>1. UNCHANGED <<iUser, iToken, iClock, iSelf, iStale>>
    BY <1>0, <1>3, ConfirmedEffect
  <2>2. PICK q \in Deleting : HandlerMoves(h, q) /\ q.email # q.actor
    BY <1>0, <1>3, ConfirmedEffect
  <2>3. MemberShape' /\ iReq'[h] = q /\ q.pc = "delete" /\ \A g \in IHandlers \ {h} : iReq'[g] = iReq[g]
    BY <1>0, <2>1, <2>2 DEF HandlerMoves, MemberShape
  <2> QED BY <2>1, <2>2, <2>3, UsersStay
<1>4. CASE (\E e \in Emails : Issue(e)) \/ (\E t \in iToken : Expire(t))
  <2>1. /\ UNCHANGED <<iUser, iReq, iClock, iSelf, iStale>>
        /\ iToken' \subseteq [user : Emails, role : Roles]
        /\ iToken' # {} => iToken # {} \/ \E e \in Emails : iUser[e].exists
    BY <1>0, <1>4, TokenEffect
  <2>2. MemberShape'
    BY <1>0, <2>1 DEF MemberShape
  <2> QED BY <2>1, <2>2, UsersStay
<1>5. CASE UNCHANGED iVars
  <2>1. UNCHANGED <<iUser, iToken, iReq, iClock, iSelf, iStale>>
    BY <1>5 DEF iVars
  <2>2. MemberShape'
    BY <1>0, <2>1 DEF MemberShape
  <2> QED BY <2>1, <2>2, UsersStay
<1>6. ASSUME NEW h \in IHandlers, Bonus(h) PROVE MemberInv'
  <2> DEFINE e == iReq[h].email
  <2>1. /\ UNCHANGED <<iToken, iClock, iSelf, iStale>>
        /\ iReq[h].pc = "bonus" /\ e \in Emails /\ HandlerMoves(h, IIdle)
        /\ iUser' \in [Emails -> UserRows] /\ \A f \in Emails \ {e} : iUser'[f] = iUser[f]
        /\ iUser'[e].exists = iUser[e].exists /\ iUser'[e].deleted = iUser[e].deleted
        /\ iUser'[e].role = iUser[e].role
    BY <1>0, <1>6, BonusEffect
  <2>2. MemberShape' /\ iReq'[h].pc = "idle" /\ \A g \in IHandlers \ {h} : iReq'[g] = iReq[g]
    BY <1>0, <2>1 DEF HandlerMoves, MemberShape
  <2>3. \A g \in IHandlers \ {h} : iReq[g].pc = "bonus" => iReq[g].email # e
    BY <1>0, <2>1 DEF BonusDue
  <2> HIDE DEF e
  <2>4. \A f \in Emails : LiveAdmin(f) => LiveAdmin(f)'
    BY <2>1 DEF LiveAdmin, Live
  <2>5. (\E f \in Emails : iUser[f].exists) => iStale' \/ (~iStale /\ \E f \in Emails : LiveAdmin(f)')
    BY <1>0, <2>1, <2>4 DEF LastAdminKept
  <2> QED BY <2>1, <2>2, <2>3, <2>5, EditKeeps
<1>7. ASSUME NEW h \in IHandlers, RemoveUser(h) PROVE MemberInv'
  <2> DEFINE e == iReq[h].email
  <2>1. /\ UNCHANGED <<iToken, iClock, iSelf>>
        /\ iReq[h].pc = "delete" /\ e \in Emails /\ iReq[h].actor \in Emails /\ HandlerMoves(h, IIdle)
        /\ iStale' = (iStale \/ ~LiveAdmin(iReq[h].actor))
        /\ iUser' \in [Emails -> UserRows] /\ \A f \in Emails \ {e} : iUser'[f] = iUser[f]
        /\ iUser'[e].exists = iUser[e].exists /\ (iUser[e].deleted => iUser'[e].deleted)
        /\ iUser'[e].bonus = iUser[e].bonus
    BY <1>0, <1>7, RemoveEffect
  <2>2. MemberShape' /\ iReq'[h].pc = "idle" /\ \A g \in IHandlers \ {h} : iReq'[g] = iReq[g]
    BY <1>0, <2>1 DEF HandlerMoves, MemberShape
  <2>3. PICK a \in Emails : a # e /\ iStale' = (iStale \/ ~LiveAdmin(a))
    BY <1>0, <2>1 DEF SomebodyBefore
  <2> HIDE DEF e
  <2>4. LiveAdmin(a) => LiveAdmin(a)'
    BY <2>1, <2>3 DEF LiveAdmin, Live
  <2>5. (\E f \in Emails : iUser[f].exists) => iStale' \/ (~iStale /\ \E f \in Emails : LiveAdmin(f)')
    BY <2>3, <2>4
  <2> QED BY <2>1, <2>2, <2>5, EditKeeps
<1>8. ASSUME NEW t \in iToken, NEW e \in Emails, UpdateUser(t, e) PROVE MemberInv'
  <2>1. /\ UNCHANGED <<iToken, iReq, iClock, iSelf>>
        /\ t.user \in Emails
        /\ iStale' = (iStale \/ ~LiveAdmin(t.user))
        /\ iUser' \in [Emails -> UserRows] /\ \A f \in Emails \ {e} : iUser'[f] = iUser[f]
        /\ iUser'[e].exists = iUser[e].exists /\ iUser'[e].deleted = iUser[e].deleted
        /\ iUser'[e].bonus = iUser[e].bonus
        /\ iUser[e].role = "admin" /\ iUser'[e].role # "admin" => e # t.user
    BY <1>0, <1>8, UpdateEffect
  <2>2. MemberShape'
    BY <1>0, <2>1 DEF MemberShape
  <2>3. LiveAdmin(t.user) => LiveAdmin(t.user)'
    <3>1. CASE t.user = e
      BY <2>1, <3>1 DEF LiveAdmin, Live
    <3>2. CASE t.user # e
      BY <2>1, <3>2 DEF LiveAdmin, Live
    <3> QED BY <3>1, <3>2
  <2>4. (\E f \in Emails : iUser[f].exists) => iStale' \/ (~iStale /\ \E f \in Emails : LiveAdmin(f)')
    BY <2>1, <2>3
  <2> QED BY <2>1, <2>2, <2>4, EditKeeps
<1> QED BY <1>1, <1>2, <1>3, <1>4, <1>5, <1>6, <1>7, <1>8, InsertKeeps DEF INext

\* The empty database satisfies the invariant.
LEMMA MemberStart == ASSUME IInit PROVE MemberInv
<1>1. /\ Absent \in UserRows /\ ~Absent.exists /\ IIdle \in IRequests /\ IIdle.pc = "idle"
  BY DEF Absent, UserRows, Roles, IIdle, IRequests
<1>2. (\A e \in Emails : iUser[e] = Absent) /\ \A h \in IHandlers : iReq[h] = IIdle
  BY DEF IInit
<1>3. MemberShape
  BY <1>1 DEF IInit, MemberShape
<1>4. BonusDue /\ SelvesKnown /\ SelfMadeAdminsOverlap /\ SomebodyBefore /\ LastAdminKept
  BY <1>1, <1>2 DEF IInit, BonusDue, SelvesKnown, SelfMadeAdminsOverlap, SomebodyBefore, LastAdminKept
<1> QED BY <1>3, <1>4 DEF MemberInv

\* The invariant says what MembersSound says of users.
LEMMA MemberInvSound == ASSUME MemberInv PROVE IdentityType /\ SelfMadeAdminsOverlap /\ LastAdminKept
<1>1. \A h \in IHandlers : iReq[h].pc \in {"idle", "insert", "bonus", "delete"}
  BY MemberRequestKinds DEF MemberInv, MemberShape
<1> QED BY <1>1 DEF MemberInv, MemberShape, IdentityType, UserRows

\* Administrators who made themselves such overlapped, and while no token
\* is stale a system with users has a living administrator (registerRole, and
\* the guards of Update and Delete).
THEOREM MembersStaySound == ISpec => [](SelfMadeAdminsOverlap /\ LastAdminKept)
BY MemberStart, MemberStep, MemberInvSound, PTL DEF ISpec

-----------------------------------------------------------------------------
(* E-mail codes.                                                           *)

Sending == [pc : {"value", "cooldown", "mail", "incr", "expire"},
            to : Addresses, code : Nat, key : Counters]

\* Requests that will mail a code to an address, requests that will count
\* with a key, and requests that will see to its TTL.
Mailers(a) == {s \in Senders : mSend[s].pc \in {"value", "cooldown", "mail"} /\ mSend[s].to = a}
Counting(k) == {s \in Senders : mSend[s].pc = "incr" /\ mSend[s].key = k}
TTLDue(k) == {s \in Senders : mSend[s].pc = "expire" /\ mSend[s].key = k}

EmailShape ==
    /\ mValue \in [Addresses -> Nat]
    /\ mCool \subseteq Addresses /\ mMailed \subseteq Addresses
    /\ mRate \in [Counters -> [n : Nat, ttl : BOOLEAN]]
    /\ mSend \in [Senders -> {MIdle} \cup Sending]
    /\ mWindow \in [Addresses -> Nat]
    /\ mFaults \in Nat

\* Until its mail is out a request counts with its address.
KeyIsAddress ==
    \A s \in Senders : mSend[s].pc \in {"value", "cooldown", "mail"} => mSend[s].key = mSend[s].to

\* A stored code was mailed, or its own request has yet to mail it.
CodeUnderWay ==
    mFaults = 0 =>
        \A a \in Addresses :
            mValue[a] # 0 =>
                \/ a \in mMailed
                \/ \E s \in Senders : /\ mSend[s].pc \in {"cooldown", "mail"}
                                      /\ mSend[s].to = a /\ mSend[s].code = mValue[a]

\* A mail of the window was counted, is about to be, or its count was lost.
MailsCounted ==
    \A a \in Addresses : mWindow[a] <= mRate[a].n + Cardinality(Counting(a)) + mFaults

\* The mails under way included, a window stays within its bound.
MailsAhead ==
    \A a \in Addresses :
        mWindow[a] + Cardinality(Mailers(a)) <= EmailLimit - 1 + Cardinality(Senders) + mFaults

\* The counts of a key without TTL are those whose EXPIRE is due or was lost.
CountsExpire ==
    \A k \in Counters : ~mRate[k].ttl => mRate[k].n <= mFaults + Cardinality(TTLDue(k))

\* The inductive invariant.
EmailInv ==
    EmailShape /\ KeyIsAddress /\ CodeUnderWay /\ MailsCounted /\ MailsAhead /\ CountsExpire

\* Sets of senders are finite, and change by one.
LEMMA SendersCounted ==
    /\ Cardinality(Senders) \in Nat
    /\ \A S \in SUBSET Senders :
          /\ IsFiniteSet(S) /\ Cardinality(S) \in Nat /\ Cardinality(S) <= Cardinality(Senders)
          /\ \A s \in Senders :
                /\ Cardinality(S \cup {s}) = IF s \in S THEN Cardinality(S) ELSE Cardinality(S) + 1
                /\ Cardinality(S \ {s}) = IF s \in S THEN Cardinality(S) - 1 ELSE Cardinality(S)
    /\ Cardinality({}) = 0
<1>1. IsFiniteSet(Senders) /\ Cardinality(Senders) \in Nat
  BY EmailCodeAssumption, FS_CardinalityType
<1>2. ASSUME NEW S \in SUBSET Senders, NEW s \in Senders
      PROVE  /\ Cardinality(S \cup {s}) = IF s \in S THEN Cardinality(S) ELSE Cardinality(S) + 1
             /\ Cardinality(S \ {s}) = IF s \in S THEN Cardinality(S) - 1 ELSE Cardinality(S)
  BY <1>1, FS_Subset, FS_AddElement, FS_RemoveElement
<1>3. \A S \in SUBSET Senders : IsFiniteSet(S) /\ Cardinality(S) \in Nat /\ Cardinality(S) <= Cardinality(Senders)
  BY <1>1, FS_Subset, FS_CardinalityType
<1> QED BY <1>1, <1>2, <1>3, FS_EmptySet

\* A fresh code exists: fewer codes are in use than there are to choose from.
LEMMA NewCodeIsCode ==
    ASSUME EmailShape, NEW s \in Senders, mSend[s].pc = "idle"
    PROVE  NewCode \in Nat
<1> DEFINE busy == {t \in Senders : mSend[t].pc # "idle"}
           stored == {mValue[a] : a \in Addresses}
           carried == {mSend[t].code : t \in busy}
           range == 1 .. (Cardinality(Senders) + Cardinality(Addresses))
<1>1. IsFiniteSet(Addresses) /\ Cardinality(Addresses) \in Nat /\ Cardinality(Senders) \in Nat
  BY EmailCodeAssumption, FS_CardinalityType
<1>2. busy \in SUBSET (Senders \ {s}) /\ Senders \ {s} \in SUBSET Senders
  OBVIOUS
<1>3. IsFiniteSet(Senders \ {s}) /\ Cardinality(Senders \ {s}) = Cardinality(Senders) - 1
  BY EmailCodeAssumption, FS_RemoveElement
<1>4. IsFiniteSet(busy) /\ Cardinality(busy) \in Nat /\ Cardinality(busy) <= Cardinality(Senders) - 1
  BY <1>2, <1>3, FS_Subset, FS_CardinalityType
<1>5. IsFiniteSet(stored) /\ Cardinality(stored) <= Cardinality(Addresses)
  <2>1. [a \in Addresses |-> mValue[a]] \in Surjection(Addresses, stored)
    BY DEF Surjection
  <2> HIDE DEF stored
  <2> QED BY <1>1, <2>1, FS_Surjection
<1>6. IsFiniteSet(carried) /\ Cardinality(carried) <= Cardinality(busy)
  <2>1. [t \in busy |-> mSend[t].code] \in Surjection(busy, carried)
    BY DEF Surjection
  <2> HIDE DEF carried, busy
  <2> QED BY <1>4, <2>1, FS_Surjection
<1>7. IsFiniteSet(range) /\ Cardinality(range) = Cardinality(Senders) + Cardinality(Addresses)
  <2> DEFINE top == Cardinality(Senders) + Cardinality(Addresses)
  <2>1. 1 \in Int /\ top \in Int /\ top >= 1 /\ top - 1 + 1 = top /\ range = 1 .. top
    BY <1>1, <1>4
  <2> HIDE DEF top, range
  <2>2. IsFiniteSet(1 .. top) /\ Cardinality(1 .. top) = IF 1 > top THEN 0 ELSE top - 1 + 1
    BY <2>1, FS_Interval
  <2> QED BY <2>1, <2>2 DEF top
<1>8. ASSUME range \subseteq stored \cup carried PROVE FALSE
  <2> HIDE DEF range, stored, carried, busy
  <2>1. /\ IsFiniteSet(stored \cup carried)
        /\ Cardinality(stored \cup carried) = Cardinality(stored) + Cardinality(carried) - Cardinality(stored \cap carried)
    BY <1>5, <1>6, FS_Union
  <2>2. Cardinality(stored) \in Nat /\ Cardinality(carried) \in Nat
    BY <1>5, <1>6, FS_CardinalityType
  <2>3. Cardinality(stored \cap carried) \in Nat
    <3>1. stored \cap carried \in SUBSET stored
      OBVIOUS
    <3> QED BY <1>5, <3>1, FS_Subset, FS_CardinalityType
  <2>4. Cardinality(range) <= Cardinality(stored \cup carried)
    <3>1. range \in SUBSET (stored \cup carried)
      BY <1>8
    <3> QED BY <2>1, <3>1, FS_Subset
  <2> QED BY <1>1, <1>4, <1>5, <1>6, <1>7, <2>1, <2>2, <2>3, <2>4
<1>9. \E c \in range : c \notin stored \cup carried
  BY <1>8
<1>10. (CHOOSE c \in range : c \notin stored \cup carried) \in range
  BY <1>9
<1> QED BY <1>1, <1>10 DEF NewCode

\* Requests with their states.
LEMMA SendKinds ==
    /\ MIdle.pc = "idle"
    /\ \A q \in Sending : /\ q.pc \in {"value", "cooldown", "mail", "incr", "expire"}
                          /\ q.to \in Addresses /\ q.code \in Nat /\ q.key \in Counters
BY DEF MIdle, Sending

\* Only request s changes.
SenderMoves(s, q) == mSend' = [mSend EXCEPT ![s] = q]

\* Counts of the three kinds when one request moves.
LEMMA CountsMove ==
    ASSUME EmailShape, NEW s \in Senders, NEW q \in {MIdle} \cup Sending, SenderMoves(s, q)
    PROVE  /\ mSend' \in [Senders -> {MIdle} \cup Sending] /\ mSend'[s] = q
           /\ \A t \in Senders \ {s} : mSend'[t] = mSend[t]
           /\ \A a \in Addresses :
                 /\ Cardinality(Mailers(a)) \in Nat
                 /\ Cardinality(Mailers(a))' =
                      Cardinality(Mailers(a))
                        - (IF mSend[s].pc \in {"value", "cooldown", "mail"} /\ mSend[s].to = a THEN 1 ELSE 0)
                        + (IF q.pc \in {"value", "cooldown", "mail"} /\ q.to = a THEN 1 ELSE 0)
           /\ \A k \in Counters :
                 /\ Cardinality(Counting(k)) \in Nat
                 /\ Cardinality(Counting(k))' =
                      Cardinality(Counting(k))
                        - (IF mSend[s].pc = "incr" /\ mSend[s].key = k THEN 1 ELSE 0)
                        + (IF q.pc = "incr" /\ q.key = k THEN 1 ELSE 0)
                 /\ Cardinality(TTLDue(k)) \in Nat
                 /\ Cardinality(TTLDue(k))' =
                      Cardinality(TTLDue(k))
                        - (IF mSend[s].pc = "expire" /\ mSend[s].key = k THEN 1 ELSE 0)
                        + (IF q.pc = "expire" /\ q.key = k THEN 1 ELSE 0)
<1>1. /\ mSend' \in [Senders -> {MIdle} \cup Sending] /\ mSend'[s] = q
      /\ \A t \in Senders \ {s} : mSend'[t] = mSend[t]
  BY DEF EmailShape, SenderMoves
<1>2. ASSUME NEW S \in SUBSET Senders, NEW T \in SUBSET Senders, NEW b \in BOOLEAN,
             T = IF b THEN S \cup {s} ELSE S \ {s}
      PROVE  /\ Cardinality(S) \in Nat
             /\ Cardinality(T) = Cardinality(S) - (IF s \in S THEN 1 ELSE 0) + (IF b THEN 1 ELSE 0)
  <2>1. /\ Cardinality(S) \in Nat
        /\ Cardinality(S \cup {s}) = IF s \in S THEN Cardinality(S) ELSE Cardinality(S) + 1
        /\ Cardinality(S \ {s}) = IF s \in S THEN Cardinality(S) - 1 ELSE Cardinality(S)
    BY SendersCounted
  <2>2. CASE b
    BY <1>2, <2>1, <2>2
  <2>3. CASE ~b
    BY <1>2, <2>1, <2>3
  <2> QED BY <2>2, <2>3
<1>3. ASSUME NEW a \in Addresses
      PROVE  /\ Cardinality(Mailers(a)) \in Nat
             /\ Cardinality(Mailers(a))' =
                  Cardinality(Mailers(a))
                    - (IF mSend[s].pc \in {"value", "cooldown", "mail"} /\ mSend[s].to = a THEN 1 ELSE 0)
                    + (IF q.pc \in {"value", "cooldown", "mail"} /\ q.to = a THEN 1 ELSE 0)
  <2>1. /\ Mailers(a) \in SUBSET Senders /\ Mailers(a)' \in SUBSET Senders
        /\ s \in Mailers(a) <=> mSend[s].pc \in {"value", "cooldown", "mail"} /\ mSend[s].to = a
        /\ Mailers(a)' = IF q.pc \in {"value", "cooldown", "mail"} /\ q.to = a
                         THEN Mailers(a) \cup {s} ELSE Mailers(a) \ {s}
    BY <1>1 DEF Mailers
  <2> QED BY <1>2, <2>1
<1>4. ASSUME NEW k \in Counters
      PROVE  /\ Cardinality(Counting(k)) \in Nat
             /\ Cardinality(Counting(k))' =
                  Cardinality(Counting(k))
                    - (IF mSend[s].pc = "incr" /\ mSend[s].key = k THEN 1 ELSE 0)
                    + (IF q.pc = "incr" /\ q.key = k THEN 1 ELSE 0)
  <2>1. /\ Counting(k) \in SUBSET Senders /\ Counting(k)' \in SUBSET Senders
        /\ s \in Counting(k) <=> mSend[s].pc = "incr" /\ mSend[s].key = k
        /\ Counting(k)' = IF q.pc = "incr" /\ q.key = k THEN Counting(k) \cup {s} ELSE Counting(k) \ {s}
    BY <1>1 DEF Counting
  <2> QED BY <1>2, <2>1
<1>5. ASSUME NEW k \in Counters
      PROVE  /\ Cardinality(TTLDue(k)) \in Nat
             /\ Cardinality(TTLDue(k))' =
                  Cardinality(TTLDue(k))
                    - (IF mSend[s].pc = "expire" /\ mSend[s].key = k THEN 1 ELSE 0)
                    + (IF q.pc = "expire" /\ q.key = k THEN 1 ELSE 0)
  <2>1. /\ TTLDue(k) \in SUBSET Senders /\ TTLDue(k)' \in SUBSET Senders
        /\ s \in TTLDue(k) <=> mSend[s].pc = "expire" /\ mSend[s].key = k
        /\ TTLDue(k)' = IF q.pc = "expire" /\ q.key = k THEN TTLDue(k) \cup {s} ELSE TTLDue(k) \ {s}
    BY <1>1 DEF TTLDue
  <2> QED BY <1>2, <2>1
<1> QED BY <1>1, <1>3, <1>4, <1>5

\* A request that moves on: its new record.
LEMMA MovesOn ==
    ASSUME EmailShape, NEW s \in Senders, mSend[s].pc # "idle",
           NEW next \in {"value", "cooldown", "mail", "incr", "expire"}, Goes(s, next)
    PROVE  /\ mSend[s] \in Sending
           /\ \E q \in Sending : /\ SenderMoves(s, q) /\ q.pc = next /\ q.to = mSend[s].to
                                 /\ q.code = mSend[s].code /\ q.key = mSend[s].key
<1>1. mSend[s] \in Sending
  BY SendKinds DEF EmailShape
<1>2. [mSend[s] EXCEPT !.pc = next] \in Sending
  BY <1>1 DEF Sending
<1>3. SenderMoves(s, [mSend[s] EXCEPT !.pc = next])
  BY DEF Goes, SenderMoves
<1> QED BY <1>1, <1>2, <1>3 DEF Sending

\* A request that leaves the stored codes alone, and is not about to mail the
\* stored one, takes nothing away from what CodeUnderWay says.
LEMMA CodesStay ==
    ASSUME EmailInv, NEW s \in Senders, NEW q \in {MIdle} \cup Sending, SenderMoves(s, q),
           mFaults \in Nat, mFaults' = 0 => mFaults = 0,
           mValue' \in [Addresses -> Nat],
           \A a \in Addresses : mValue'[a] = mValue[a] \/ mValue'[a] = 0,
           mFaults' = 0 =>
               \A a \in Addresses :
                   mValue'[a] # 0 =>
                       /\ a \in mMailed => a \in mMailed'
                       /\ \/ mSend[s].pc \notin {"cooldown", "mail"}
                          \/ mSend[s].to # a
                          \/ mSend[s].code # mValue[a]
                          \/ a \in mMailed'
                          \/ q.pc \in {"cooldown", "mail"} /\ q.to = a /\ q.code = mValue[a]
    PROVE  CodeUnderWay'
<1>1. /\ mSend'[s] = q /\ \A t \in Senders \ {s} : mSend'[t] = mSend[t]
  BY CountsMove DEF EmailInv
<1> SUFFICES ASSUME mFaults' = 0, NEW a \in Addresses, mValue'[a] # 0, a \notin mMailed'
             PROVE  \E t \in Senders : /\ mSend'[t].pc \in {"cooldown", "mail"}
                                       /\ mSend'[t].to = a /\ mSend'[t].code = mValue'[a]
  BY DEF CodeUnderWay
<1>2. mValue'[a] = mValue[a] /\ mValue[a] # 0 /\ a \notin mMailed
  OBVIOUS
<1>3. PICK t \in Senders : /\ mSend[t].pc \in {"cooldown", "mail"}
                           /\ mSend[t].to = a /\ mSend[t].code = mValue[a]
  BY <1>2 DEF EmailInv, CodeUnderWay
<1>4. CASE t # s
  BY <1>1, <1>2, <1>3, <1>4
<1>5. CASE t = s
  BY <1>1, <1>2, <1>3, <1>5
<1> QED BY <1>4, <1>5

\* A request that only changes its own state and drops no duty but by a fault.
LEMMA DutiesStay ==
    ASSUME EmailInv, NEW s \in Senders, NEW q \in {MIdle} \cup Sending, SenderMoves(s, q),
           UNCHANGED <<mRate, mWindow>>,
           \/ UNCHANGED mFaults /\ mSend[s].pc \notin {"incr", "expire"}
           \/ mFaults' = mFaults + 1,
           q.pc \in {"value", "cooldown", "mail"} =>
               mSend[s].pc \in {"value", "cooldown", "mail"} /\ q.to = mSend[s].to,
           q.pc \notin {"incr", "expire"}
    PROVE  MailsCounted' /\ MailsAhead' /\ CountsExpire'
<1>0. EmailShape /\ MailsCounted /\ MailsAhead /\ CountsExpire /\ mFaults \in Nat
      /\ EmailLimit \in Nat /\ Cardinality(Senders) \in Nat
  BY EmailCodeAssumption, SendersCounted DEF EmailInv, EmailShape
<1>1. ASSUME NEW a \in Addresses
      PROVE  /\ mWindow'[a] <= mRate'[a].n + Cardinality(Counting(a))' + mFaults'
             /\ mWindow'[a] + Cardinality(Mailers(a))' <= EmailLimit - 1 + Cardinality(Senders) + mFaults'
  <2>1. a \in Counters /\ mRate[a].n \in Nat /\ mWindow[a] \in Nat
    BY <1>0 DEF EmailShape, Counters
  <2>2. /\ Cardinality(Mailers(a)) \in Nat
        /\ Cardinality(Mailers(a))' \in Int /\ Cardinality(Mailers(a))' <= Cardinality(Mailers(a))
    BY <1>0, CountsMove
  <2>3. /\ Cardinality(Counting(a)) \in Nat /\ Cardinality(Counting(a))' \in Int
        /\ Cardinality(Counting(a)) + mFaults <= Cardinality(Counting(a))' + mFaults'
    BY <1>0, <2>1, CountsMove
  <2>4. /\ mWindow[a] <= mRate[a].n + Cardinality(Counting(a)) + mFaults
        /\ mWindow[a] + Cardinality(Mailers(a)) <= EmailLimit - 1 + Cardinality(Senders) + mFaults
    BY <1>0 DEF MailsCounted, MailsAhead
  <2>5. mFaults' \in Nat /\ mFaults <= mFaults'
    BY <1>0
  <2> QED BY <1>0, <2>1, <2>2, <2>3, <2>4, <2>5
<1>2. ASSUME NEW k \in Counters, ~mRate'[k].ttl
      PROVE  mRate'[k].n <= mFaults' + Cardinality(TTLDue(k))'
  <2>1. mRate[k].n \in Nat /\ ~mRate[k].ttl
    BY <1>0, <1>2 DEF EmailShape
  <2>2. /\ Cardinality(TTLDue(k)) \in Nat /\ Cardinality(TTLDue(k))' \in Int
        /\ Cardinality(TTLDue(k)) + mFaults <= Cardinality(TTLDue(k))' + mFaults'
    BY <1>0, CountsMove
  <2>3. mRate[k].n <= mFaults + Cardinality(TTLDue(k))
    BY <1>0, <2>1 DEF CountsExpire
  <2>4. mFaults' \in Nat
    BY <1>0
  <2> QED BY <1>0, <2>1, <2>2, <2>3, <2>4
<1> QED BY <1>1, <1>2 DEF MailsCounted, MailsAhead, CountsExpire

\* Everything but the counts after a step of one request.
LEMMA KeysStay ==
    ASSUME EmailInv, NEW s \in Senders, NEW q \in {MIdle} \cup Sending, SenderMoves(s, q),
           q.pc \in {"value", "cooldown", "mail"} => q.key = q.to
    PROVE  KeyIsAddress'
<1>1. mSend'[s] = q /\ \A t \in Senders \ {s} : mSend'[t] = mSend[t]
  BY CountsMove DEF EmailInv
<1> QED BY <1>1 DEF EmailInv, KeyIsAddress

\* Deleting a code touches no other address.
LEMMA NoCodeEffect ==
    ASSUME EmailShape, NEW a \in Addresses, NoCode(a)
    PROVE  /\ mValue' \in [Addresses -> Nat] /\ mMailed' \subseteq Addresses
           /\ mValue'[a] = 0
           /\ \A b \in Addresses \ {a} : mValue'[b] = mValue[b] /\ (b \in mMailed => b \in mMailed')
BY DEF EmailShape, NoCode

\* A fault is counted.
LEMMA FaultEffect == ASSUME mFaults \in Nat, MFault PROVE mFaults' \in Nat /\ mFaults' # 0 /\ mFaults' = mFaults + 1
BY DEF MFault

\* SET of a code: its request has yet to mail it.
LEMMA SetValueKeeps ==
    ASSUME EmailInv, NEW s \in Senders, SetValue(s) PROVE EmailInv'
<1>0. EmailShape /\ KeyIsAddress /\ CodeUnderWay
  BY DEF EmailInv
<1>1. mSend[s].pc = "value" /\ Goes(s, "cooldown") /\ UNCHANGED <<mCool, mRate, mWindow, mFaults>>
      /\ mValue' = [mValue EXCEPT ![mSend[s].to] = mSend[s].code] /\ mMailed' = mMailed \ {mSend[s].to}
  BY DEF SetValue
<1>2. mSend[s] \in Sending
  BY <1>0, <1>1, MovesOn
<1>3. PICK q \in Sending : /\ SenderMoves(s, q) /\ q.pc = "cooldown" /\ q.to = mSend[s].to
                           /\ q.code = mSend[s].code /\ q.key = mSend[s].key
  BY <1>0, <1>1, MovesOn
<1>4. /\ mSend' \in [Senders -> {MIdle} \cup Sending] /\ mSend'[s] = q
      /\ \A t \in Senders \ {s} : mSend'[t] = mSend[t]
  BY <1>0, <1>3, CountsMove
<1>5. PICK b \in Addresses : b = mSend[s].to
  BY <1>2, SendKinds
<1>6. mSend[s].code \in Nat
  BY <1>2, SendKinds
<1>7. EmailShape'
  BY <1>0, <1>1, <1>4, <1>5, <1>6 DEF EmailShape
<1>8. KeyIsAddress'
  BY <1>0, <1>1, <1>3, KeysStay DEF KeyIsAddress
<1>9. MailsCounted' /\ MailsAhead' /\ CountsExpire'
  BY <1>1, <1>3, DutiesStay
<1>10. CodeUnderWay'
  <2> SUFFICES ASSUME mFaults = 0, NEW a \in Addresses, mValue'[a] # 0, a \notin mMailed'
               PROVE  \E t \in Senders : /\ mSend'[t].pc \in {"cooldown", "mail"}
                                         /\ mSend'[t].to = a /\ mSend'[t].code = mValue'[a]
    BY <1>1 DEF CodeUnderWay
  <2>1. CASE a = b
    <3>1. mValue'[a] = mSend[s].code
      BY <1>0, <1>1, <1>5, <2>1 DEF EmailShape
    <3> QED BY <1>3, <1>4, <1>5, <2>1, <3>1
  <2>2. CASE a # b
    <3>1. mValue'[a] = mValue[a] /\ a \notin mMailed
      BY <1>0, <1>1, <1>5, <2>2 DEF EmailShape
    <3>2. PICK t \in Senders : /\ mSend[t].pc \in {"cooldown", "mail"}
                               /\ mSend[t].to = a /\ mSend[t].code = mValue[a]
      BY <1>0, <3>1 DEF CodeUnderWay
    <3> QED BY <1>1, <1>4, <3>1, <3>2
  <2> QED BY <2>1, <2>2
<1> QED BY <1>7, <1>8, <1>9, <1>10 DEF EmailInv

\* SET of the cooldown changes nothing the invariant counts.
LEMMA SetCooldownKeeps ==
    ASSUME EmailInv, NEW s \in Senders, SetCooldown(s) PROVE EmailInv'
<1>0. EmailShape /\ KeyIsAddress /\ CodeUnderWay /\ mFaults \in Nat
  BY DEF EmailInv, EmailShape
<1>1. mSend[s].pc = "cooldown" /\ Goes(s, "mail") /\ UNCHANGED <<mValue, mRate, mMailed, mWindow, mFaults>>
      /\ mCool' = mCool \cup {mSend[s].to}
  BY DEF SetCooldown
<1>2. mSend[s] \in Sending
  BY <1>0, <1>1, MovesOn
<1>3. PICK q \in Sending : /\ SenderMoves(s, q) /\ q.pc = "mail" /\ q.to = mSend[s].to
                           /\ q.code = mSend[s].code /\ q.key = mSend[s].key
  BY <1>0, <1>1, MovesOn
<1>4. mSend' \in [Senders -> {MIdle} \cup Sending] /\ mSend[s].to \in Addresses
  BY <1>0, <1>2, <1>3, CountsMove, SendKinds
<1>5. EmailShape'
  BY <1>0, <1>1, <1>4 DEF EmailShape
<1>6. KeyIsAddress'
  BY <1>0, <1>1, <1>3, KeysStay DEF KeyIsAddress
<1>7. MailsCounted' /\ MailsAhead' /\ CountsExpire'
  BY <1>1, <1>3, DutiesStay
<1>8. mValue' \in [Addresses -> Nat]
  BY <1>0, <1>1 DEF EmailShape
<1>9. CodeUnderWay'
  BY <1>0, <1>1, <1>3, <1>8, CodesStay
<1> QED BY <1>5, <1>6, <1>7, <1>9 DEF EmailInv

\* A request that ends before it counts, with the code deleted or at a fault.
LEMMA SendingEnds ==
    ASSUME EmailInv, NEW s \in Senders, CooldownFails(s) \/ MailFails(s) \/ SenderDies(s) PROVE EmailInv'
<1>0. EmailShape /\ KeyIsAddress /\ CodeUnderWay /\ mFaults \in Nat
  BY DEF EmailInv, EmailShape
<1>1. mSend[s].pc # "idle" /\ Ends(s) /\ UNCHANGED <<mRate, mWindow>>
  BY DEF CooldownFails, MailFails, SenderDies
<1>2. SenderMoves(s, MIdle) /\ mSend[s] \in Sending
  BY <1>0, <1>1, SendKinds DEF Ends, SenderMoves, EmailShape
<1>3. PICK b \in Addresses : b = mSend[s].to
  BY <1>2, SendKinds
<1>4. mSend' \in [Senders -> {MIdle} \cup Sending]
  BY <1>0, <1>2, CountsMove
<1>5. /\ mFaults' \in Nat
      /\ \/ UNCHANGED mFaults /\ mSend[s].pc = "mail" /\ NoCode(b)
         \/ mFaults' # 0 /\ mFaults' = mFaults + 1 /\ NoCode(b)
         \/ mFaults' # 0 /\ mFaults' = mFaults + 1 /\ UNCHANGED <<mValue, mMailed>>
      /\ mCool' \subseteq Addresses
  BY <1>0, <1>3, FaultEffect DEF CooldownFails, MailFails, SenderDies, EmailShape
<1>6. /\ mValue' \in [Addresses -> Nat] /\ mMailed' \subseteq Addresses
      /\ \A a \in Addresses : mValue'[a] = mValue[a] \/ mValue'[a] = 0
  BY <1>0, <1>5, NoCodeEffect DEF EmailShape
<1>7. EmailShape'
  BY <1>0, <1>1, <1>4, <1>5, <1>6 DEF EmailShape
<1>8. KeyIsAddress'
  BY <1>2, SendKinds, KeysStay
<1>9. MailsCounted' /\ MailsAhead' /\ CountsExpire'
  BY <1>1, <1>2, <1>5, SendKinds, DutiesStay
<1>10. mFaults' = 0 => /\ mFaults = 0
                       /\ \A a \in Addresses : mValue'[a] # 0 => a # b /\ (a \in mMailed => a \in mMailed')
  BY <1>0, <1>5, NoCodeEffect
<1>11. CodeUnderWay'
  BY <1>0, <1>2, <1>3, <1>6, <1>10, CodesStay
<1> QED BY <1>7, <1>8, <1>9, <1>11 DEF EmailInv

\* A request begins: the counter it read leaves room for it and for every
\* other request that has yet to count.
LEMMA SendBeginsKeeps ==
    ASSUME EmailInv, NEW s \in Senders, NEW b \in Addresses, SendBegins(s, b) PROVE EmailInv'
<1> DEFINE q == [pc |-> "value", to |-> b, code |-> NewCode, key |-> b]
<1>0. EmailShape /\ KeyIsAddress /\ CodeUnderWay /\ MailsCounted /\ MailsAhead /\ CountsExpire /\ mFaults \in Nat
      /\ EmailLimit \in Nat /\ Cardinality(Senders) \in Nat
  BY EmailCodeAssumption, SendersCounted DEF EmailInv, EmailShape
<1>1. mSend[s].pc = "idle" /\ mRate[b].n < EmailLimit /\ SenderMoves(s, q)
      /\ UNCHANGED <<mValue, mCool, mRate, mMailed, mWindow, mFaults>>
  BY DEF SendBegins, SendAllowed, SenderMoves
<1>2. q \in Sending /\ q.pc = "value" /\ q.to = b /\ q.key = b
  BY <1>0, <1>1, NewCodeIsCode DEF Sending, Counters
<1> HIDE DEF q
<1>3. mSend' \in [Senders -> {MIdle} \cup Sending]
  BY <1>0, <1>1, <1>2, CountsMove
<1>4. EmailShape'
  BY <1>0, <1>1, <1>3 DEF EmailShape
<1>5. KeyIsAddress'
  BY <1>1, <1>2, KeysStay
<1>6. mValue' \in [Addresses -> Nat]
  BY <1>0, <1>1 DEF EmailShape
<1>7. CodeUnderWay'
  BY <1>0, <1>1, <1>2, <1>6, CodesStay
<1>8. Cardinality(Mailers(b)) + Cardinality(Counting(b)) <= Cardinality(Senders) - 1
  <2>1. /\ Mailers(b) \in SUBSET Senders /\ Counting(b) \in SUBSET Senders
        /\ Mailers(b) \cap Counting(b) = {}
        /\ Mailers(b) \cup Counting(b) \in SUBSET Senders
        /\ (Mailers(b) \cup Counting(b)) \cup {s} \in SUBSET Senders
        /\ s \notin Mailers(b) \cup Counting(b)
    BY <1>1 DEF Mailers, Counting
  <2>2. /\ IsFiniteSet(Mailers(b)) /\ IsFiniteSet(Counting(b))
        /\ Cardinality(Mailers(b)) \in Nat /\ Cardinality(Counting(b)) \in Nat
    BY <2>1, SendersCounted
  <2>3. Cardinality(Mailers(b) \cup Counting(b)) = Cardinality(Mailers(b)) + Cardinality(Counting(b)) - 0
    BY <2>1, <2>2, FS_Union, FS_EmptySet
  <2>4. Cardinality((Mailers(b) \cup Counting(b)) \cup {s}) = Cardinality(Mailers(b) \cup Counting(b)) + 1
    BY <2>1, SendersCounted
  <2>5. Cardinality((Mailers(b) \cup Counting(b)) \cup {s}) <= Cardinality(Senders)
    BY <2>1, SendersCounted
  <2> QED BY <1>0, <2>2, <2>3, <2>4, <2>5
<1>9. ASSUME NEW a \in Addresses
      PROVE  /\ mWindow'[a] <= mRate'[a].n + Cardinality(Counting(a))' + mFaults'
             /\ mWindow'[a] + Cardinality(Mailers(a))' <= EmailLimit - 1 + Cardinality(Senders) + mFaults'
  <2>1. a \in Counters /\ mRate[a].n \in Nat /\ mWindow[a] \in Nat
    BY <1>0 DEF EmailShape, Counters
  <2>2. /\ Cardinality(Mailers(a)) \in Nat
        /\ Cardinality(Mailers(a))' = Cardinality(Mailers(a)) + IF a = b THEN 1 ELSE 0
    BY <1>0, <1>1, <1>2, CountsMove
  <2>3. Cardinality(Counting(a)) \in Nat /\ Cardinality(Counting(a))' = Cardinality(Counting(a))
    BY <1>0, <1>1, <1>2, <2>1, CountsMove
  <2>4. /\ mWindow[a] <= mRate[a].n + Cardinality(Counting(a)) + mFaults
        /\ mWindow[a] + Cardinality(Mailers(a)) <= EmailLimit - 1 + Cardinality(Senders) + mFaults
    BY <1>0 DEF MailsCounted, MailsAhead
  <2>5. CASE a = b
    BY <1>0, <1>1, <1>8, <2>1, <2>2, <2>3, <2>4, <2>5
  <2>6. CASE a # b
    BY <1>0, <1>1, <2>1, <2>2, <2>3, <2>4, <2>6
  <2> QED BY <2>5, <2>6
<1>10. ASSUME NEW k \in Counters, ~mRate'[k].ttl
       PROVE  mRate'[k].n <= mFaults' + Cardinality(TTLDue(k))'
  <2>1. Cardinality(TTLDue(k))' = Cardinality(TTLDue(k))
    BY <1>0, <1>1, <1>2, CountsMove
  <2> QED BY <1>0, <1>1, <1>10, <2>1 DEF CountsExpire
<1> QED BY <1>4, <1>5, <1>7, <1>9, <1>10 DEF EmailInv, MailsCounted, MailsAhead, CountsExpire

\* A mail is sent: from now on it is counted in the window.
LEMMA MailSentKeeps ==
    ASSUME EmailInv, NEW s \in Senders, MailSent(s) PROVE EmailInv'
<1>0. EmailShape /\ KeyIsAddress /\ CodeUnderWay /\ MailsCounted /\ MailsAhead /\ CountsExpire /\ mFaults \in Nat
      /\ EmailLimit \in Nat /\ Cardinality(Senders) \in Nat
  BY EmailCodeAssumption, SendersCounted DEF EmailInv, EmailShape
<1>1. /\ mSend[s].pc = "mail" /\ Goes(s, "incr") /\ UNCHANGED <<mValue, mCool, mRate, mFaults>>
      /\ mMailed' = IF mValue[mSend[s].to] = mSend[s].code THEN mMailed \cup {mSend[s].to} ELSE mMailed
      /\ mWindow' = [mWindow EXCEPT ![mSend[s].to] = @ + 1]
  BY DEF MailSent
<1>2. mSend[s] \in Sending
  BY <1>0, <1>1, MovesOn
<1>3. PICK q \in Sending : /\ SenderMoves(s, q) /\ q.pc = "incr" /\ q.to = mSend[s].to
                           /\ q.code = mSend[s].code /\ q.key = mSend[s].key
  BY <1>0, <1>1, MovesOn
<1>4. PICK b \in Addresses : b = mSend[s].to /\ q.key = b
  BY <1>0, <1>1, <1>2, <1>3, SendKinds DEF KeyIsAddress
<1>5. mSend' \in [Senders -> {MIdle} \cup Sending]
  BY <1>0, <1>3, CountsMove
<1>6. /\ mWindow' \in [Addresses -> Nat] /\ mWindow'[b] = mWindow[b] + 1
      /\ \A a \in Addresses \ {b} : mWindow'[a] = mWindow[a]
  BY <1>0, <1>1, <1>4 DEF EmailShape
<1>7. EmailShape'
  BY <1>0, <1>1, <1>4, <1>5, <1>6 DEF EmailShape
<1>8. KeyIsAddress'
  BY <1>3, KeysStay
<1>9. mValue' \in [Addresses -> Nat]
  BY <1>0, <1>1 DEF EmailShape
<1>10. /\ \A a \in Addresses : a \in mMailed => a \in mMailed'
       /\ \A a \in Addresses : mSend[s].to # a \/ mSend[s].code # mValue[a] \/ a \in mMailed'
  BY <1>1
<1>11. CodeUnderWay'
  BY <1>0, <1>1, <1>3, <1>9, <1>10, CodesStay
<1>12. ASSUME NEW a \in Addresses
       PROVE  /\ mWindow'[a] <= mRate'[a].n + Cardinality(Counting(a))' + mFaults'
              /\ mWindow'[a] + Cardinality(Mailers(a))' <= EmailLimit - 1 + Cardinality(Senders) + mFaults'
  <2>1. a \in Counters /\ mRate[a].n \in Nat /\ mWindow[a] \in Nat
    BY <1>0 DEF EmailShape, Counters
  <2>2. /\ Cardinality(Mailers(a)) \in Nat
        /\ Cardinality(Mailers(a))' = Cardinality(Mailers(a)) - IF a = b THEN 1 ELSE 0
    BY <1>0, <1>1, <1>3, <1>4, CountsMove
  <2>3. /\ Cardinality(Counting(a)) \in Nat
        /\ Cardinality(Counting(a))' = Cardinality(Counting(a)) + IF a = b THEN 1 ELSE 0
    BY <1>0, <1>1, <1>3, <1>4, <2>1, CountsMove
  <2>4. /\ mWindow[a] <= mRate[a].n + Cardinality(Counting(a)) + mFaults
        /\ mWindow[a] + Cardinality(Mailers(a)) <= EmailLimit - 1 + Cardinality(Senders) + mFaults
    BY <1>0 DEF MailsCounted, MailsAhead
  <2>5. CASE a = b
    BY <1>0, <1>1, <1>6, <2>1, <2>2, <2>3, <2>4, <2>5
  <2>6. CASE a # b
    BY <1>0, <1>1, <1>6, <2>1, <2>2, <2>3, <2>4, <2>6
  <2> QED BY <2>5, <2>6
<1>13. ASSUME NEW k \in Counters, ~mRate'[k].ttl
       PROVE  mRate'[k].n <= mFaults' + Cardinality(TTLDue(k))'
  <2>1. Cardinality(TTLDue(k))' = Cardinality(TTLDue(k))
    BY <1>0, <1>1, <1>3, CountsMove
  <2> QED BY <1>0, <1>1, <1>13, <2>1 DEF CountsExpire
<1> QED BY <1>7, <1>8, <1>11, <1>12, <1>13 DEF EmailInv, MailsCounted, MailsAhead, CountsExpire

\* INCR: the count is made, its EXPIRE is due.
LEMMA IncrKeeps ==
    ASSUME EmailInv, NEW s \in Senders, Incr(s) PROVE EmailInv'
<1>0. EmailShape /\ KeyIsAddress /\ CodeUnderWay /\ MailsCounted /\ MailsAhead /\ CountsExpire /\ mFaults \in Nat
      /\ EmailLimit \in Nat /\ Cardinality(Senders) \in Nat
  BY EmailCodeAssumption, SendersCounted DEF EmailInv, EmailShape
<1>1. /\ mSend[s].pc = "incr" /\ Goes(s, "expire") /\ UNCHANGED <<mValue, mCool, mMailed, mWindow, mFaults>>
      /\ mRate' = [mRate EXCEPT ![mSend[s].key].n = @ + 1]
  BY DEF Incr
<1>2. mSend[s] \in Sending
  BY <1>0, <1>1, MovesOn
<1>3. PICK q \in Sending : /\ SenderMoves(s, q) /\ q.pc = "expire" /\ q.to = mSend[s].to
                           /\ q.code = mSend[s].code /\ q.key = mSend[s].key
  BY <1>0, <1>1, MovesOn
<1>4. PICK b \in Counters : b = mSend[s].key
  BY <1>2, SendKinds
<1>5. mSend' \in [Senders -> {MIdle} \cup Sending]
  BY <1>0, <1>3, CountsMove
<1>6. /\ mRate' \in [Counters -> [n : Nat, ttl : BOOLEAN]]
      /\ mRate'[b].n = mRate[b].n + 1 /\ mRate'[b].ttl = mRate[b].ttl
      /\ \A k \in Counters \ {b} : mRate'[k] = mRate[k]
  BY <1>0, <1>1, <1>4 DEF EmailShape
<1>7. EmailShape'
  BY <1>0, <1>1, <1>5, <1>6 DEF EmailShape
<1>8. KeyIsAddress'
  BY <1>3, KeysStay
<1>9. mValue' \in [Addresses -> Nat]
  BY <1>0, <1>1 DEF EmailShape
<1>10. CodeUnderWay'
  BY <1>0, <1>1, <1>3, <1>9, CodesStay
<1>11. ASSUME NEW a \in Addresses
       PROVE  /\ mWindow'[a] <= mRate'[a].n + Cardinality(Counting(a))' + mFaults'
              /\ mWindow'[a] + Cardinality(Mailers(a))' <= EmailLimit - 1 + Cardinality(Senders) + mFaults'
  <2>1. a \in Counters /\ mRate[a].n \in Nat /\ mWindow[a] \in Nat
    BY <1>0 DEF EmailShape, Counters
  <2>2. Cardinality(Mailers(a)) \in Nat /\ Cardinality(Mailers(a))' = Cardinality(Mailers(a))
    BY <1>0, <1>1, <1>3, CountsMove
  <2>3. /\ Cardinality(Counting(a)) \in Nat
        /\ Cardinality(Counting(a))' = Cardinality(Counting(a)) - IF a = b THEN 1 ELSE 0
    BY <1>0, <1>1, <1>3, <1>4, <2>1, CountsMove
  <2>4. /\ mWindow[a] <= mRate[a].n + Cardinality(Counting(a)) + mFaults
        /\ mWindow[a] + Cardinality(Mailers(a)) <= EmailLimit - 1 + Cardinality(Senders) + mFaults
    BY <1>0 DEF MailsCounted, MailsAhead
  <2>5. CASE a = b
    BY <1>0, <1>1, <1>6, <2>1, <2>2, <2>3, <2>4, <2>5
  <2>6. CASE a # b
    BY <1>0, <1>1, <1>6, <2>1, <2>2, <2>3, <2>4, <2>6
  <2> QED BY <2>5, <2>6
<1>12. ASSUME NEW k \in Counters, ~mRate'[k].ttl
       PROVE  mRate'[k].n <= mFaults' + Cardinality(TTLDue(k))'
  <2>1. /\ Cardinality(TTLDue(k)) \in Nat
        /\ Cardinality(TTLDue(k))' = Cardinality(TTLDue(k)) + IF k = b THEN 1 ELSE 0
    BY <1>0, <1>1, <1>3, <1>4, CountsMove
  <2>2. mRate[k].n \in Nat /\ ~mRate[k].ttl
    BY <1>0, <1>6, <1>12 DEF EmailShape
  <2>3. mRate[k].n <= mFaults + Cardinality(TTLDue(k))
    BY <1>0, <2>2 DEF CountsExpire
  <2>4. CASE k = b
    BY <1>0, <1>1, <1>6, <2>1, <2>2, <2>3, <2>4
  <2>5. CASE k # b
    BY <1>0, <1>1, <1>6, <2>1, <2>2, <2>3, <2>5
  <2> QED BY <2>4, <2>5
<1> QED BY <1>7, <1>8, <1>10, <1>11, <1>12 DEF EmailInv, MailsCounted, MailsAhead, CountsExpire

\* EXPIRE: a key that was counted has a TTL, and the IP's counter is next.
LEMMA ExpireKeyKeeps ==
    ASSUME EmailInv, NEW s \in Senders, ExpireKey(s) PROVE EmailInv'
<1>0. EmailShape /\ KeyIsAddress /\ CodeUnderWay /\ MailsCounted /\ MailsAhead /\ CountsExpire /\ mFaults \in Nat
      /\ EmailLimit \in Nat /\ Cardinality(Senders) \in Nat
  BY EmailCodeAssumption, SendersCounted DEF EmailInv, EmailShape
<1>1. mSend[s].pc = "expire" /\ UNCHANGED <<mValue, mCool, mMailed, mWindow, mFaults>>
  BY DEF ExpireKey
<1>2. mSend[s] \in Sending
  BY <1>0, <1>1, SendKinds DEF EmailShape
<1>3. PICK b \in Counters : b = mSend[s].key
  BY <1>2, SendKinds
<1>4. PICK q \in {MIdle} \cup Sending : /\ SenderMoves(s, q)
                                        /\ q.pc \in {"idle", "incr"}
                                        /\ q.pc = "incr" => q.key = IP
  <2> DEFINE r == [[mSend[s] EXCEPT !.pc = "incr"] EXCEPT !.key = IP]
  <2>1. [mSend[s] EXCEPT !.pc = "incr"] \in Sending /\ IP \in Counters
    BY <1>2 DEF Sending, Counters
  <2>2. r \in Sending /\ r.pc = "incr" /\ r.key = IP
    BY <2>1 DEF Sending
  <2>3. SenderMoves(s, MIdle) \/ SenderMoves(s, r)
    BY DEF ExpireKey, SenderMoves
  <2> HIDE DEF r
  <2> QED BY <2>2, <2>3, SendKinds
<1>5. mSend' \in [Senders -> {MIdle} \cup Sending]
  BY <1>0, <1>4, CountsMove
<1>6. /\ mRate' \in [Counters -> [n : Nat, ttl : BOOLEAN]]
      /\ \A k \in Counters : mRate'[k].n = mRate[k].n
      /\ \A k \in Counters \ {b} : mRate'[k] = mRate[k]
      /\ ~mRate'[b].ttl => mRate[b].n = 0
  <2>1. mRate' = IF Expires(b) THEN [mRate EXCEPT ![b].ttl = mRate[b].n > 0] ELSE mRate
    BY <1>3 DEF ExpireKey
  <2>2. mRate[b] \in [n : Nat, ttl : BOOLEAN]
    BY <1>0 DEF EmailShape
  <2>3. CASE Expires(b)
    <3>1. PICK v \in BOOLEAN : v = (mRate[b].n > 0) /\ (~v => mRate[b].n = 0)
      <4>1. CASE mRate[b].n > 0
        <5>1. TRUE = (mRate[b].n > 0)
          BY <4>1
        <5> QED BY <5>1
      <4>2. CASE ~(mRate[b].n > 0)
        <5>1. FALSE = (mRate[b].n > 0)
          BY <4>2
        <5>2. mRate[b].n = 0
          BY <2>2, <4>2
        <5> QED BY <5>1, <5>2
      <4> QED BY <4>1, <4>2
    <3>2. mRate' = [mRate EXCEPT ![b] = [mRate[b] EXCEPT !.ttl = v]]
      BY <2>1, <2>3, <3>1
    <3>3. /\ [mRate[b] EXCEPT !.ttl = v] \in [n : Nat, ttl : BOOLEAN]
          /\ [mRate[b] EXCEPT !.ttl = v].n = mRate[b].n /\ [mRate[b] EXCEPT !.ttl = v].ttl = v
      BY <2>2
    <3>4. /\ mRate'[b] = [mRate[b] EXCEPT !.ttl = v]
          /\ \A k \in Counters \ {b} : mRate'[k] = mRate[k]
          /\ mRate' \in [Counters -> [n : Nat, ttl : BOOLEAN]]
      BY <1>0, <3>2, <3>3 DEF EmailShape
    <3>5. mRate'[b].n = mRate[b].n /\ (v => mRate'[b].ttl)
      BY <3>3, <3>4
    <3> QED BY <3>1, <3>4, <3>5
  <2>4. CASE ~Expires(b)
    BY <1>0, <2>1, <2>2, <2>4 DEF Expires, EmailShape
  <2> QED BY <2>3, <2>4
<1>7. EmailShape'
  BY <1>0, <1>1, <1>5, <1>6 DEF EmailShape
<1>8. KeyIsAddress'
  BY <1>4, KeysStay
<1>9. mValue' \in [Addresses -> Nat]
  BY <1>0, <1>1 DEF EmailShape
<1>10. CodeUnderWay'
  BY <1>0, <1>1, <1>4, <1>9, CodesStay
<1>11. ASSUME NEW a \in Addresses
       PROVE  /\ mWindow'[a] <= mRate'[a].n + Cardinality(Counting(a))' + mFaults'
              /\ mWindow'[a] + Cardinality(Mailers(a))' <= EmailLimit - 1 + Cardinality(Senders) + mFaults'
  <2>1. a \in Counters /\ a # IP
    BY EmailCodeKeys DEF Counters
  <2>2. Cardinality(Mailers(a))' = Cardinality(Mailers(a))
    BY <1>0, <1>1, <1>4, CountsMove
  <2>3. Cardinality(Counting(a))' = Cardinality(Counting(a))
    BY <1>0, <1>1, <1>4, <2>1, CountsMove
  <2> QED BY <1>0, <1>1, <1>6, <2>1, <2>2, <2>3 DEF MailsCounted, MailsAhead
<1>12. ASSUME NEW k \in Counters, ~mRate'[k].ttl
       PROVE  mRate'[k].n <= mFaults' + Cardinality(TTLDue(k))'
  <2>1. /\ Cardinality(TTLDue(k)) \in Nat
        /\ Cardinality(TTLDue(k))' = Cardinality(TTLDue(k)) - IF k = b THEN 1 ELSE 0
    BY <1>0, <1>1, <1>3, <1>4, CountsMove
  <2>2. CASE k = b
    <3>1. TTLDue(k)' \in SUBSET Senders
      BY DEF TTLDue
    <3>2. Cardinality(TTLDue(k)') \in Nat
      BY <3>1, SendersCounted
    <3>3. mRate'[k].n = 0
      BY <1>6, <1>12, <2>2
    <3> QED BY <1>0, <1>1, <3>2, <3>3
  <2>3. CASE k # b
    BY <1>0, <1>1, <1>6, <1>12, <2>1, <2>3 DEF CountsExpire
  <2> QED BY <2>2, <2>3
<1> QED BY <1>7, <1>8, <1>10, <1>11, <1>12 DEF EmailInv, MailsCounted, MailsAhead, CountsExpire

\* No request moves.
LEMMA SendersRest ==
    ASSUME UNCHANGED mSend
    PROVE  /\ \A a \in Addresses : Mailers(a)' = Mailers(a)
           /\ \A k \in Counters : Counting(k)' = Counting(k) /\ TTLDue(k)' = TTLDue(k)
BY DEF Mailers, Counting, TTLDue

\* A code that is consumed or expires, and the end of a cooldown.
LEMMA RedisKeeps ==
    ASSUME EmailInv,
           UNCHANGED <<mRate, mSend, mWindow, mFaults>>,
           mCool' \subseteq Addresses,
           UNCHANGED <<mValue, mMailed>> \/ \E a \in Addresses : NoCode(a)
    PROVE  EmailInv'
<1>0. EmailShape /\ KeyIsAddress /\ CodeUnderWay /\ MailsCounted /\ MailsAhead /\ CountsExpire
  BY DEF EmailInv
<1>1. /\ mValue' \in [Addresses -> Nat] /\ mMailed' \subseteq Addresses
      /\ \A a \in Addresses : mValue'[a] # 0 => mValue'[a] = mValue[a] /\ (a \in mMailed => a \in mMailed')
  BY <1>0, NoCodeEffect DEF EmailShape
<1>2. EmailShape'
  BY <1>0, <1>1 DEF EmailShape
<1>3. CodeUnderWay'
  BY <1>0, <1>1 DEF CodeUnderWay
<1>4. KeyIsAddress' /\ MailsCounted' /\ MailsAhead' /\ CountsExpire'
  <2>1. /\ \A a \in Addresses : Mailers(a)' = Mailers(a) /\ Counting(a)' = Counting(a)
        /\ \A k \in Counters : TTLDue(k)' = TTLDue(k)
    BY SendersRest DEF Counters
  <2> QED BY <1>0, <2>1 DEF KeyIsAddress, MailsCounted, MailsAhead, CountsExpire
<1> QED BY <1>2, <1>3, <1>4 DEF EmailInv

\* The window of a key ends.
LEMMA CounterExpiresKeeps ==
    ASSUME EmailInv, NEW b \in Counters, CounterExpires(b) PROVE EmailInv'
<1>0. EmailShape /\ KeyIsAddress /\ CodeUnderWay /\ MailsCounted /\ MailsAhead /\ CountsExpire /\ mFaults \in Nat
      /\ EmailLimit \in Nat /\ EmailLimit >= 1 /\ Cardinality(Senders) \in Nat
  BY EmailCodeAssumption, SendersCounted DEF EmailInv, EmailShape
<1>1. /\ UNCHANGED <<mValue, mCool, mSend, mMailed, mFaults>>
      /\ mRate' = [mRate EXCEPT ![b] = [n |-> 0, ttl |-> FALSE]]
      /\ mWindow' = IF b = IP THEN mWindow ELSE [mWindow EXCEPT ![b] = 0]
  BY DEF CounterExpires
<1>2. /\ mRate' \in [Counters -> [n : Nat, ttl : BOOLEAN]] /\ mRate'[b].n = 0
      /\ \A k \in Counters \ {b} : mRate'[k] = mRate[k]
  BY <1>0, <1>1 DEF EmailShape
<1>3. /\ mWindow' \in [Addresses -> Nat]
      /\ \A a \in Addresses : mWindow'[a] = IF a = b THEN 0 ELSE mWindow[a]
  <2>1. b = IP => b \notin Addresses
    BY EmailCodeKeys
  <2> QED BY <1>0, <1>1, <2>1 DEF EmailShape
<1>4. EmailShape'
  BY <1>0, <1>1, <1>2, <1>3 DEF EmailShape
<1>5. KeyIsAddress' /\ CodeUnderWay'
  BY <1>0, <1>1 DEF KeyIsAddress, CodeUnderWay
<1>6. ASSUME NEW a \in Addresses
      PROVE  /\ mWindow'[a] <= mRate'[a].n + Cardinality(Counting(a))' + mFaults'
             /\ mWindow'[a] + Cardinality(Mailers(a))' <= EmailLimit - 1 + Cardinality(Senders) + mFaults'
  <2>1. a \in Counters /\ Mailers(a)' = Mailers(a) /\ Counting(a)' = Counting(a)
        /\ Mailers(a) \in SUBSET Senders /\ Counting(a) \in SUBSET Senders
    BY <1>1, SendersRest DEF Counters, Mailers, Counting
  <2>2. /\ Cardinality(Mailers(a)) \in Nat /\ Cardinality(Mailers(a)) <= Cardinality(Senders)
        /\ Cardinality(Counting(a)) \in Nat
    BY <2>1, SendersCounted
  <2>3. CASE a = b
    BY <1>0, <1>1, <1>2, <1>3, <2>1, <2>2, <2>3
  <2>4. CASE a # b
    BY <1>0, <1>1, <1>2, <1>3, <2>1, <2>4 DEF MailsCounted, MailsAhead
  <2> QED BY <2>3, <2>4
<1>7. ASSUME NEW k \in Counters, ~mRate'[k].ttl
      PROVE  mRate'[k].n <= mFaults' + Cardinality(TTLDue(k))'
  <2>1. TTLDue(k)' = TTLDue(k) /\ TTLDue(k) \in SUBSET Senders
    BY <1>1, SendersRest DEF TTLDue
  <2>2. Cardinality(TTLDue(k)) \in Nat
    BY <2>1, SendersCounted
  <2>3. CASE k = b
    BY <1>0, <1>1, <1>2, <2>1, <2>2, <2>3
  <2>4. CASE k # b
    BY <1>0, <1>1, <1>2, <1>7, <2>1, <2>4 DEF CountsExpire
  <2> QED BY <2>3, <2>4
<1> QED BY <1>4, <1>5, <1>6, <1>7 DEF EmailInv, MailsCounted, MailsAhead, CountsExpire

\* Every step of the requests and of Redis keeps the invariant.
LEMMA EmailStep == ASSUME EmailInv, [MNext]_mVars PROVE EmailInv'
<1>1. ASSUME NEW s \in Senders, SenderStep(s) PROVE EmailInv'
  BY <1>1, SetValueKeeps, SetCooldownKeeps, MailSentKeeps, SendingEnds, IncrKeeps, ExpireKeyKeeps DEF SenderStep
<1>2. ASSUME NEW a \in Addresses, Consume(a) \/ ValueExpires(a) \/ CooldownExpires(a) PROVE EmailInv'
  <2>1. mCool \subseteq Addresses
    BY DEF EmailInv, EmailShape
  <2>2. /\ UNCHANGED <<mRate, mSend, mWindow, mFaults>> /\ mCool' \subseteq Addresses
        /\ UNCHANGED <<mValue, mMailed>> \/ NoCode(a)
    BY <1>2, <2>1 DEF Consume, ValueExpires, CooldownExpires
  <2> QED BY <2>2, RedisKeeps
<1>3. CASE UNCHANGED mVars
  <2>1. mCool' \subseteq Addresses /\ UNCHANGED <<mRate, mSend, mWindow, mFaults, mValue, mMailed>>
    BY <1>3 DEF mVars, EmailInv, EmailShape
  <2> QED BY <2>1, RedisKeeps
<1> QED BY <1>1, <1>2, <1>3, SendingEnds, SendBeginsKeeps, CounterExpiresKeeps DEF MNext

\* An empty Redis satisfies the invariant.
LEMMA EmailStart == ASSUME MInit PROVE EmailInv
<1>1. EmailLimit \in Nat /\ EmailLimit >= 1 /\ Cardinality(Senders) \in Nat
  BY EmailCodeAssumption, SendersCounted
<1>2. /\ \A a \in Addresses : Mailers(a) = {} /\ Counting(a) = {}
      /\ \A k \in Counters : TTLDue(k) = {}
  BY SendKinds DEF MInit, Mailers, Counting, TTLDue
<1>3. EmailShape
  BY DEF MInit, EmailShape
<1>4. KeyIsAddress /\ CodeUnderWay
  BY SendKinds DEF MInit, KeyIsAddress, CodeUnderWay
<1>5. MailsCounted /\ MailsAhead /\ CountsExpire
  <2>1. Cardinality({}) = 0 /\ mFaults = 0 /\ \A a \in Addresses : a \in Counters
    BY FS_EmptySet DEF MInit, Counters
  <2>2. (\A a \in Addresses : mWindow[a] = 0) /\ \A k \in Counters : mRate[k].n = 0
    BY DEF MInit
  <2>3. /\ \A a \in Addresses : Cardinality(Mailers(a)) = 0 /\ Cardinality(Counting(a)) = 0
        /\ \A k \in Counters : Cardinality(TTLDue(k)) = 0
    BY <1>2, <2>1
  <2>4. 0 <= EmailLimit - 1 + Cardinality(Senders)
    BY <1>1
  <2> QED BY <1>1, <2>1, <2>2, <2>3, <2>4 DEF MailsCounted, MailsAhead, CountsExpire
<1> QED BY <1>3, <1>4, <1>5 DEF EmailInv

\* The invariant says what MembersSound says of e-mail codes.
LEMMA EmailInvSound ==
    ASSUME EmailInv PROVE EmailCodeType /\ StoredCodeWasMailed /\ MailsBounded /\ LimitHasTTL
<1>0. EmailShape /\ CodeUnderWay /\ MailsAhead /\ CountsExpire /\ mFaults \in Nat
      /\ EmailLimit \in Nat /\ IPLimit \in Nat /\ Cardinality(Senders) \in Nat
  BY EmailCodeAssumption, SendersCounted DEF EmailInv, EmailShape
<1>1. EmailCodeType
  BY <1>0, SendKinds DEF EmailShape, EmailCodeType
<1>2. StoredCodeWasMailed
  BY <1>0 DEF CodeUnderWay, StoredCodeWasMailed
<1>3. MailsBounded
  <2> SUFFICES ASSUME NEW a \in Addresses
               PROVE  mWindow[a] <= EmailLimit - 1 + Cardinality(Senders) + mFaults
    BY DEF MailsBounded
  <2>1. Mailers(a) \in SUBSET Senders
    BY DEF Mailers
  <2>2. Cardinality(Mailers(a)) \in Nat
    BY <2>1, SendersCounted
  <2>3. mWindow[a] \in Nat /\ mWindow[a] + Cardinality(Mailers(a)) <= EmailLimit - 1 + Cardinality(Senders) + mFaults
    BY <1>0 DEF MailsAhead, EmailShape
  <2> QED BY <1>0, <2>2, <2>3
<1>4. LimitHasTTL
  <2> SUFFICES ASSUME NEW k \in Counters, mRate[k].n >= LimitOf(k), ~mRate[k].ttl,
                      \A s \in Senders : ~(mSend[s].pc = "expire" /\ mSend[s].key = k)
               PROVE  mFaults >= LimitOf(k)
    BY DEF LimitHasTTL
  <2>1. Cardinality(TTLDue(k)) = 0
    BY FS_EmptySet DEF TTLDue
  <2>2. LimitOf(k) \in Nat /\ mRate[k].n \in Nat
    BY <1>0 DEF LimitOf, EmailShape
  <2>3. mRate[k].n <= mFaults + Cardinality(TTLDue(k))
    BY <1>0 DEF CountsExpire
  <2> QED BY <1>0, <2>1, <2>2, <2>3
<1> QED BY <1>1, <1>2, <1>3, <1>4

\* A stored code was mailed or is being mailed, the mails of a window are
\* bounded, and no counter stays at its limit, for any number of overlapping
\* requests (SendRegisterEmailCode, bumpRegisterEmailCodeRate).
THEOREM EmailStaysSound == MSpec => [](StoredCodeWasMailed /\ MailsBounded /\ LimitHasTTL)
BY EmailStart, EmailStep, EmailInvSound, PTL DEF MSpec

-----------------------------------------------------------------------------
(* Users and codes, as the run of MCEntry takes them.                      *)

\* MembersSound holds of every behaviour of MCEntry: a step of another
\* component leaves users, tokens, codes and counters alone.
THEOREM EntryMembersSound == EntrySpec => []MembersSound
<1> DEFINE Inv == MemberInv /\ EmailInv
<1>1. EntryInit => Inv
  BY MemberStart, EmailStart DEF EntryInit
<1>2. Inv /\ [EntryNext]_entryVars => Inv'
  <2>1. [EntryNext]_entryVars => [INext]_iVars /\ [MNext]_mVars
    BY DEF EntryNext, entryVars, Buying, Granting, Joining, Mailing, Keying, Limiting, Logging
  <2> QED BY <2>1, MemberStep, EmailStep
<1>3. Inv => MembersSound
  BY MemberInvSound, EmailInvSound DEF MembersSound
<1> HIDE DEF Inv
<1> QED BY <1>1, <1>2, <1>3, PTL DEF EntrySpec

-----------------------------------------------------------------------------
(* API keys.                                                               *)

KRows == [state : {"none", "live", "deleted"}, reserved : BOOLEAN, known : BOOLEAN,
          limit : Nat, used : Nat, on : BOOLEAN, rev : Nat]
Inserting == [pc : {"insert"}, reserved : BOOLEAN, known : BOOLEAN, limit : Nat]
Editing == [pc : {"edit"}, key : KKeys, row : KRows, edit : Edits]
Charging == [pc : {"serve"}, key : KKeys, price : 1 .. KMaxPrice]
KRequests == {KIdle} \cup Inserting \cup Editing \cup Charging

\* Types, and that requests are about keys that were inserted.
KeyShape ==
    /\ kRow \in [KKeys -> KRows]
    /\ kReq \in [KHandlers -> KRequests]
    /\ kSpent \in [KKeys -> Nat]
    /\ kCrowded \in BOOLEAN
    /\ \A k \in KKeys : kRow[k].state = "none" => kRow[k].used = 0 /\ k \notin kForced
    /\ \A h \in KHandlers : kReq[h].pc \in {"edit", "serve"} => kRow[kReq[h].key].state # "none"

\* The keys the limit is about, and the one EnsureInternalKey made.
Counted == Visible \ kNamed
Hidden == Internal \ kNamed
Room == KeyMaxPerUser = 0 \/ Cardinality(Counted) < KeyMaxPerUser

\* Without a crowd one creation is under way, and there is still room for it.
CountFresh ==
    ~kCrowded =>
        /\ \A h, g \in KHandlers : kReq[h].pc = "insert" /\ kReq[g].pc = "insert" => h = g
        /\ \A h \in KHandlers : kReq[h].pc = "insert" =>
              IF kReq[h].known THEN Room ELSE kReq[h].reserved /\ Hidden = {}

\* A request that runs alone on a key nobody edited was within the quota.
ServesWithin ==
    /\ \A h \in KHandlers : kReq[h].pc = "insert" /\ ~kReq[h].known => kReq[h].limit = 0
    /\ \A k \in KKeys \ Unbound : kRow[k].reserved => kRow[k].limit = 0
    /\ \A h, g \in KHandlers :
          kReq[h].pc = "serve" /\ kReq[g].pc = "serve" /\ kReq[h].key = kReq[g].key
          /\ kReq[h].key \notin kBeside => h = g
    /\ \A h \in KHandlers :
          LET k == kReq[h].key
          IN kReq[h].pc = "serve" /\ k \notin Unbound \cup kBeside /\ kRow[k].limit > 0 =>
                kRow[k].used < kRow[k].limit

\* An edit whose row has not been edited since it was read.
ReadFresh ==
    \A h \in KHandlers :
        LET q == kReq[h]
        IN q.pc = "edit" => /\ q.row.rev <= kRow[q.key].rev
                            /\ q.row.rev = kRow[q.key].rev => q.row.on = kRow[q.key].on

KeyInv ==
    /\ KeyShape
    /\ KeyUsageExact
    /\ CountFresh /\ KeysLimited
    /\ ServesWithin /\ KeyOvershootOnlyBeside
    /\ ReadFresh /\ DisabledStays

\* The state of a request tells what it holds.
LEMMA KeyRequestKinds ==
    ASSUME NEW q \in KRequests
    PROVE  /\ q.pc \in {"idle", "insert", "edit", "serve"}
           /\ q = KIdle <=> q.pc = "idle"
           /\ q \in Inserting <=> q.pc = "insert"
           /\ q \in Editing <=> q.pc = "edit"
           /\ q \in Charging <=> q.pc = "serve"
           /\ q.pc \in {"edit", "serve"} => q.key \in KKeys
BY DEF KRequests, KIdle, Inserting, Editing, Charging

-----------------------------------------------------------------------------
(* What each operation changes.                                            *)

\* One handler goes on and the others stay where they are.
OneMoves(h, q) ==
    /\ q \in KRequests /\ kReq'[h] = q
    /\ kReq' \in [KHandlers -> KRequests]
    /\ \A g \in KHandlers \ {h} : kReq'[g] = kReq[g]

\* An assignment to one request is a move of its handler.
LEMMA OneMovesBy ==
    ASSUME KeyShape, NEW h \in KHandlers, NEW q \in KRequests, kReq' = [kReq EXCEPT ![h] = q]
    PROVE  OneMoves(h, q)
BY DEF KeyShape, OneMoves

\* The check of Create: nobody else is creating, or there is a crowd.
LEMMA CreateEffect ==
    ASSUME KeyShape, NEW h \in KHandlers,
           (\E quota \in KQuotas, reserved \in BOOLEAN : CreateCounts(h, quota, reserved)) \/ EnsureInternalKey(h)
    PROVE  /\ UNCHANGED <<kRow, kSpent, kForced, kStale, kRaised, kNamed, kBeside>>
           /\ kReq[h].pc = "idle"
           /\ \E q \in Inserting : /\ OneMoves(h, q)
                                   /\ ~q.known => q.limit = 0 /\ q.reserved /\ Internal = {}
                                   /\ q.known => MayCreate
           /\ kCrowded' = (kCrowded \/ \E g \in KHandlers : kReq[g].pc = "insert")
<1>1. ASSUME NEW quota \in KQuotas, NEW reserved \in BOOLEAN, CreateCounts(h, quota, reserved)
      PROVE  \E q \in Inserting : /\ OneMoves(h, q)
                                  /\ ~q.known => q.limit = 0 /\ q.reserved /\ Internal = {}
                                  /\ q.known => MayCreate
  <2> DEFINE q == [pc |-> "insert", reserved |-> reserved, known |-> TRUE,
                   limit |-> IF quota > 0 THEN quota ELSE KeyDefaultQuota]
  <2>1. q \in Inserting /\ q.known
    BY ApiKeysAssumption DEF Inserting
  <2>2. kReq' = [kReq EXCEPT ![h] = q] /\ MayCreate
    BY <1>1 DEF CreateCounts
  <2> HIDE DEF q
  <2>3. OneMoves(h, q)
    BY <2>1, <2>2, OneMovesBy DEF KRequests
  <2> QED BY <2>1, <2>2, <2>3
<1>2. ASSUME EnsureInternalKey(h)
      PROVE  \E q \in Inserting : /\ OneMoves(h, q)
                                  /\ ~q.known => q.limit = 0 /\ q.reserved /\ Internal = {}
                                  /\ q.known => MayCreate
  <2> DEFINE q == [pc |-> "insert", reserved |-> TRUE, known |-> FALSE, limit |-> 0]
  <2>1. q \in Inserting /\ ~q.known /\ q.reserved /\ q.limit = 0
    BY DEF Inserting
  <2>2. kReq' = [kReq EXCEPT ![h] = q] /\ Internal = {}
    BY <1>2 DEF EnsureInternalKey
  <2> HIDE DEF q
  <2>3. OneMoves(h, q)
    BY <2>1, <2>2, OneMovesBy DEF KRequests
  <2> QED BY <2>1, <2>2, <2>3
<1>3. /\ UNCHANGED <<kRow, kSpent, kForced, kStale, kRaised, kNamed, kBeside>> /\ kReq[h].pc = "idle"
      /\ kCrowded' = (kCrowded \/ \E g \in KHandlers : kReq[g].pc = "insert")
  BY DEF CreateCounts, EnsureInternalKey, Crowds, KIdle
<1> QED BY <1>1, <1>2, <1>3

\* INSERT of a key: a key that was none is live and unused.
LEMMA InsertEffect ==
    ASSUME KeyShape, NEW h \in KHandlers, NEW k \in KKeys, NEW price \in 1 .. KMaxPrice,
           Insert(h, k, price)
    PROVE  /\ UNCHANGED <<kSpent, kForced, kStale, kRaised, kBeside, kCrowded>>
           /\ kNamed' = IF kReq[h].known /\ kReq[h].reserved THEN kNamed \cup {k} ELSE kNamed
           /\ kReq[h].pc = "insert" /\ kReq[h] \in Inserting /\ kRow[k].state = "none"
           /\ kRow' \in [KKeys -> KRows]
           /\ \A j \in KKeys \ {k} : kRow'[j] = kRow[j]
           /\ kRow'[k].state = "live" /\ kRow'[k].reserved = kReq[h].reserved
           /\ kRow'[k].limit = kReq[h].limit /\ kRow'[k].used = 0
           /\ \E q \in Charging \cup {KIdle} : /\ OneMoves(h, q)
                                               /\ q.pc = "serve" => q.key = k /\ ~kReq[h].known
<1> DEFINE row == [state |-> "live", reserved |-> kReq[h].reserved, known |-> kReq[h].known,
                   limit |-> kReq[h].limit, used |-> 0, on |-> TRUE, rev |-> 0]
           q == IF kReq[h].known THEN KIdle ELSE [pc |-> "serve", key |-> k, price |-> price]
<1>1. /\ UNCHANGED <<kSpent, kForced, kStale, kRaised, kBeside, kCrowded>>
      /\ kNamed' = IF kReq[h].known /\ kReq[h].reserved THEN kNamed \cup {k} ELSE kNamed
      /\ kReq[h].pc = "insert" /\ kRow[k].state = "none"
      /\ kRow' = [kRow EXCEPT ![k] = row] /\ kReq' = [kReq EXCEPT ![h] = q]
  BY DEF Insert, NextId
<1>2. kReq[h] \in Inserting
  BY <1>1, KeyRequestKinds DEF KeyShape
<1>3. /\ row \in KRows /\ row.state = "live" /\ row.reserved = kReq[h].reserved
      /\ row.limit = kReq[h].limit /\ row.used = 0
  BY <1>2 DEF KRows, Inserting
<1>4. q \in Charging \cup {KIdle} /\ (q.pc = "serve" => q.key = k /\ ~kReq[h].known)
  BY <1>2 DEF Charging, KIdle, Inserting
<1> HIDE DEF row, q
<1>5. OneMoves(h, q)
  BY <1>1, <1>4, OneMovesBy DEF KRequests
<1> QED BY <1>1, <1>2, <1>3, <1>4, <1>5 DEF KeyShape

\* The read of Update: the row as it is now.
LEMMA EditReadsEffect ==
    ASSUME KeyShape, NEW h \in KHandlers, NEW k \in KKeys, NEW edit \in Edits, EditReads(h, k, edit)
    PROVE  /\ UNCHANGED <<kRow, kSpent, kForced, kStale, kRaised, kNamed, kBeside, kCrowded>>
           /\ kReq[h].pc = "idle" /\ kRow[k].state = "live"
           /\ \E q \in Editing : OneMoves(h, q) /\ q.key = k /\ q.row = kRow[k]
<1> DEFINE q == [pc |-> "edit", key |-> k, row |-> kRow[k], edit |-> edit]
<1>1. q \in Editing /\ q.key = k /\ q.row = kRow[k]
  BY DEF Editing, KeyShape
<1>2. /\ UNCHANGED <<kRow, kSpent, kForced, kStale, kRaised, kNamed, kBeside, kCrowded>>
      /\ kReq[h].pc = "idle" /\ kRow[k].state = "live" /\ kReq' = [kReq EXCEPT ![h] = q]
  BY DEF EditReads, KIdle, LiveKey
<1> HIDE DEF q
<1>3. OneMoves(h, q)
  BY <1>1, <1>2, OneMovesBy DEF KRequests
<1> QED BY <1>1, <1>2, <1>3

\* What Update writes of the row it has read: limit, switch and name, never
\* the usage.
LEMMA WrittenFields ==
    ASSUME NEW cur \in KRows, NEW old \in KRows, NEW edit \in Edits
    PROVE  LET row == Written(cur, Edited(old, edit))
           IN /\ row \in KRows
              /\ row.state = cur.state /\ row.used = cur.used
              /\ row.rev = cur.rev + 1
              /\ edit.on = "keep" => row.on = old.on
              /\ edit.on = "off" => row.on # TRUE
<1> DEFINE limit == IF edit.quota = Keep THEN old.limit ELSE edit.quota
           on == IF edit.on = "keep" THEN old.on ELSE edit.on = "on"
           name == IF edit.name = "keep" THEN old.reserved ELSE edit.name = "reserved"
<1>1. limit \in Nat
  BY ApiKeysAssumption DEF Edits, KRows, Keep
<1>2. on \in BOOLEAN /\ name \in BOOLEAN
  BY DEF KRows
<1>3. /\ Edited(old, edit).limit = limit /\ Edited(old, edit).on = on
      /\ Edited(old, edit).reserved = name
  <2> DEFINE first == [old EXCEPT !.limit = limit]
             second == [first EXCEPT !.on = IF edit.on = "keep" THEN first.on ELSE edit.on = "on"]
             third == [second EXCEPT !.reserved =
                          IF edit.name = "keep" THEN second.reserved ELSE edit.name = "reserved"]
  <2>1. Edited(old, edit) = third
    BY DEF Edited
  <2>2. first \in KRows /\ first.limit = limit /\ first.on = old.on /\ first.reserved = old.reserved
    BY <1>1 DEF KRows
  <2> HIDE DEF first, limit
  <2>3. second \in KRows /\ second.limit = limit /\ second.on = on /\ second.reserved = old.reserved
    BY <1>2, <2>2 DEF KRows
  <2> HIDE DEF second, on
  <2>4. third.limit = limit /\ third.on = on /\ third.reserved = name
    BY <2>3 DEF KRows
  <2> QED BY <2>1, <2>4
<1> DEFINE new == Edited(old, edit)
           first == [cur EXCEPT !.limit = new.limit]
           second == [first EXCEPT !.on = new.on]
           third == [second EXCEPT !.reserved = new.reserved]
           last == [third EXCEPT !.rev = third.rev + 1]
<1>4. Written(cur, new) = last
  BY DEF Written
<1> HIDE DEF new, limit, on, name
<1>5. /\ first \in KRows /\ first.state = cur.state /\ first.used = cur.used
      /\ first.rev = cur.rev
  BY <1>1, <1>3 DEF KRows, new
<1> HIDE DEF first
<1>6. /\ second \in KRows /\ second.state = cur.state /\ second.used = cur.used
      /\ second.rev = cur.rev /\ second.on = on
  BY <1>2, <1>3, <1>5 DEF KRows, new
<1> HIDE DEF second
<1>7. /\ third \in KRows /\ third.state = cur.state /\ third.used = cur.used
      /\ third.rev = cur.rev /\ third.on = on
  BY <1>2, <1>3, <1>6 DEF KRows, new
<1> HIDE DEF third
<1>8. /\ last \in KRows /\ last.state = cur.state /\ last.used = cur.used
      /\ last.rev = cur.rev + 1 /\ last.on = on
  BY <1>7 DEF KRows
<1>9. /\ edit.on = "keep" => on = old.on
      /\ edit.on = "off" => on # TRUE
  BY DEF on
<1> QED BY <1>4, <1>8, <1>9 DEF new

\* The write of Update, and who it overwrote.
LEMMA EditWritesEffect ==
    ASSUME KeyShape, NEW h \in KHandlers, EditWrites(h)
    PROVE  LET q == kReq[h]
               k == kReq[h].key
           IN /\ UNCHANGED <<kSpent, kBeside, kCrowded>>
              /\ q \in Editing /\ q.pc = "edit" /\ OneMoves(h, KIdle)
              /\ \/ UNCHANGED <<kRow, kStale, kForced, kRaised, kNamed>>
                 \/ /\ kRow' \in [KKeys -> KRows]
                    /\ \A j \in KKeys \ {k} : kRow'[j] = kRow[j]
                    /\ kRow'[k].state = kRow[k].state
                    /\ kRow'[k].used = kRow[k].used /\ kRow'[k].rev = kRow[k].rev + 1
                    /\ kRaised' = kRaised \cup {k} /\ kNamed \subseteq kNamed'
                    /\ kRow'[k].reserved # kRow[k].reserved => k \in kNamed'
                    /\ kStale \subseteq kStale'
                    /\ kRow[k].rev # q.row.rev => k \in kStale'
                    /\ kForced' \subseteq kForced \cup {k}
                    /\ k \in kForced' /\ kRow'[k].on => k \in kForced /\ q.row.on
<1> DEFINE q == kReq[h]
           k == kReq[h].key
           row == Written(kRow[k], Edited(q.row, q.edit))
<1>1. /\ UNCHANGED <<kSpent, kBeside, kCrowded>> /\ q.pc = "edit" /\ kReq' = [kReq EXCEPT ![h] = KIdle]
  BY DEF EditWrites
<1>2. /\ q \in Editing /\ k \in KKeys /\ q.row \in KRows /\ q.edit \in Edits
      /\ q.edit.on \in {"keep", "on", "off"} /\ kRow[k] \in KRows
  BY <1>1, KeyRequestKinds DEF KeyShape, Editing, Edits
<1>3. OneMoves(h, KIdle)
  BY <1>1, OneMovesBy DEF KRequests
<1>4. CASE ~LiveKey(k)
  BY <1>1, <1>2, <1>3, <1>4 DEF EditWrites
<1>5. CASE LiveKey(k)
  <2>1. /\ kRow' = [kRow EXCEPT ![k] = row]
        /\ kStale' = IF kRow[k].rev # q.row.rev THEN kStale \cup {k} ELSE kStale
        /\ kForced' = CASE q.edit.on = "off" -> kForced \cup {k}
                        [] q.edit.on = "on" -> kForced \ {k}
                        [] OTHER -> kForced
        /\ kRaised' = kRaised \cup {k}
        /\ kNamed' = IF kRow'[k].reserved # kRow[k].reserved THEN kNamed \cup {k} ELSE kNamed
    BY <1>5 DEF EditWrites
  <2>2. /\ row \in KRows /\ row.state = kRow[k].state
        /\ row.used = kRow[k].used /\ row.rev = kRow[k].rev + 1
        /\ q.edit.on = "keep" => row.on = q.row.on
        /\ q.edit.on = "off" => row.on # TRUE
    <3> DEFINE cur == kRow[k]
               old == q.row
               edit == q.edit
               new == Written(cur, Edited(old, edit))
    <3>1. cur \in KRows /\ old \in KRows /\ edit \in Edits
      BY <1>2
    <3> HIDE DEF cur, old, edit
    <3>2. /\ new \in KRows /\ new.state = cur.state
          /\ new.used = cur.used /\ new.rev = cur.rev + 1
          /\ edit.on = "keep" => new.on = old.on
          /\ edit.on = "off" => new.on # TRUE
      BY <3>1, WrittenFields
    <3> QED BY <3>2 DEF cur, old, edit
  <2> HIDE DEF row
  <2>3. kRow' \in [KKeys -> KRows] /\ kRow'[k] = row /\ \A j \in KKeys \ {k} : kRow'[j] = kRow[j]
    BY <1>2, <2>1, <2>2 DEF KeyShape
  <2>4. kForced' \subseteq kForced \cup {k} /\ (k \in kForced' /\ row.on => k \in kForced /\ q.row.on)
    <3>1. CASE q.edit.on = "off"
      BY <2>1, <2>2, <3>1
    <3>2. CASE q.edit.on = "on"
      BY <2>1, <3>2
    <3>3. CASE q.edit.on = "keep"
      <4>1. kForced' = kForced
        BY <2>1, <3>3
      <4> QED BY <2>2, <3>3, <4>1
    <3> QED BY <1>2, <3>1, <3>2, <3>3
  <2> QED BY <1>1, <1>2, <1>3, <2>1, <2>2, <2>3, <2>4
<1> QED BY <1>4, <1>5

\* Delete: a key less.
LEMMA DeleteEffect ==
    ASSUME KeyShape, NEW k \in KKeys, Delete(k)
    PROVE  /\ UNCHANGED <<kReq, kSpent, kForced, kStale, kRaised, kNamed, kBeside, kCrowded>>
           /\ kRow' \in [KKeys -> KRows]
           /\ \A j \in KKeys \ {k} : kRow'[j] = kRow[j]
           /\ kRow[k].state = "live" /\ kRow'[k].state = "deleted"
           /\ kRow'[k].reserved = kRow[k].reserved /\ kRow'[k].limit = kRow[k].limit
           /\ kRow'[k].used = kRow[k].used /\ kRow'[k].on = kRow[k].on /\ kRow'[k].rev = kRow[k].rev
<1> DEFINE row == [kRow[k] EXCEPT !.state = "deleted"]
<1>1. /\ UNCHANGED <<kReq, kSpent, kForced, kStale, kRaised, kNamed, kBeside, kCrowded>>
      /\ kRow[k].state = "live" /\ kRow' = [kRow EXCEPT ![k] = row]
  BY DEF Delete, LiveKey
<1>2. /\ row \in KRows /\ row.state = "deleted" /\ row.reserved = kRow[k].reserved
      /\ row.limit = kRow[k].limit /\ row.used = kRow[k].used /\ row.on = kRow[k].on
      /\ row.rev = kRow[k].rev
  BY DEF KeyShape, KRows
<1> HIDE DEF row
<1> QED BY <1>1, <1>2 DEF KeyShape

\* The check of a request: live, switched on and within the quota.
LEMMA AdmitEffect ==
    ASSUME KeyShape, NEW h \in KHandlers, NEW k \in KKeys, NEW price \in 1 .. KMaxPrice,
           Verify(h, k, price) \/ Playground(h, k, price)
    PROVE  /\ UNCHANGED <<kRow, kSpent, kForced, kStale, kRaised, kNamed, kCrowded>>
           /\ kReq[h].pc = "idle" /\ kRow[k].state = "live"
           /\ WithinQuota(k) \/ kRow[k].reserved
           /\ \E q \in Charging : OneMoves(h, q) /\ q.key = k
           /\ kBeside \subseteq kBeside'
           /\ \A g \in KHandlers : kReq[g].pc = "serve" /\ kReq[g].key = k => k \in kBeside'
<1> DEFINE q == [pc |-> "serve", key |-> k, price |-> price]
<1>1. q \in Charging /\ q.key = k
  BY DEF Charging
<1>2. /\ UNCHANGED <<kRow, kSpent, kForced, kStale, kRaised, kNamed, kCrowded>>
      /\ kReq[h].pc = "idle" /\ kRow[k].state = "live" /\ kReq' = [kReq EXCEPT ![h] = q]
      /\ WithinQuota(k) \/ kRow[k].reserved
      /\ kBeside' = IF \E g \in KHandlers : kReq[g].pc = "serve" /\ kReq[g].key = k
                    THEN kBeside \cup {k} ELSE kBeside
  BY DEF Verify, Playground, Admitted, KIdle, LiveKey, Internal
<1> HIDE DEF q
<1>3. OneMoves(h, q)
  BY <1>1, <1>2, OneMovesBy DEF KRequests
<1> QED BY <1>1, <1>2, <1>3

\* TouchUsage adds the price in SQL.
LEMMA TouchEffect ==
    ASSUME KeyShape, NEW h \in KHandlers, TouchUsage(h)
    PROVE  LET k == kReq[h].key
           IN /\ UNCHANGED <<kForced, kStale, kRaised, kNamed, kBeside, kCrowded>>
              /\ kReq[h] \in Charging /\ kReq[h].pc = "serve" /\ OneMoves(h, KIdle)
              /\ kRow' \in [KKeys -> KRows]
              /\ \A j \in KKeys \ {k} : kRow'[j] = kRow[j] /\ kSpent'[j] = kSpent[j]
              /\ kRow'[k].state = kRow[k].state /\ kRow'[k].reserved = kRow[k].reserved
              /\ kRow'[k].limit = kRow[k].limit /\ kRow'[k].on = kRow[k].on
              /\ kRow'[k].rev = kRow[k].rev
              /\ kRow'[k].used = kRow[k].used + kReq[h].price
              /\ kSpent' \in [KKeys -> Nat] /\ kSpent'[k] = kSpent[k] + kReq[h].price
<1> DEFINE q == kReq[h]
           k == kReq[h].key
           row == [kRow[k] EXCEPT !.used = kRow[k].used + q.price]
<1>1. /\ UNCHANGED <<kForced, kStale, kRaised, kNamed, kBeside, kCrowded>> /\ q.pc = "serve"
      /\ kReq' = [kReq EXCEPT ![h] = KIdle] /\ kRow' = [kRow EXCEPT ![k] = row]
      /\ kSpent' = [kSpent EXCEPT ![k] = kSpent[k] + q.price]
  BY DEF TouchUsage
<1>2. q \in Charging /\ k \in KKeys /\ q.price \in Nat /\ kRow[k] \in KRows
  BY <1>1, KeyRequestKinds, ApiKeysAssumption DEF KeyShape, Charging
<1>3. OneMoves(h, KIdle)
  BY <1>1, OneMovesBy DEF KRequests
<1>4. /\ row \in KRows /\ row.state = kRow[k].state /\ row.reserved = kRow[k].reserved
      /\ row.limit = kRow[k].limit /\ row.on = kRow[k].on /\ row.rev = kRow[k].rev
      /\ row.used = kRow[k].used + q.price
  BY <1>2 DEF KRows
<1>5. kSpent' \in [KKeys -> Nat] /\ kSpent'[k] = kSpent[k] + q.price
      /\ \A j \in KKeys \ {k} : kSpent'[j] = kSpent[j]
  BY <1>1, <1>2 DEF KeyShape
<1> HIDE DEF row
<1>6. kRow' \in [KKeys -> KRows] /\ kRow'[k] = row /\ \A j \in KKeys \ {k} : kRow'[j] = kRow[j]
  BY <1>1, <1>2, <1>4 DEF KeyShape
<1> QED BY <1>1, <1>2, <1>3, <1>4, <1>5, <1>6

-----------------------------------------------------------------------------
(* Each part of the invariant.                                             *)

\* Types hold, and the usage of a key is the sum of what was spent with it.
LEMMA KeyShapeStep == ASSUME KeyShape, KeyUsageExact, KNext PROVE KeyShape' /\ KeyUsageExact'
<1>0. /\ KIdle \in KRequests /\ KIdle.pc = "idle"
      /\ \A h \in KHandlers : kReq[h].pc \in {"edit", "serve"} => kReq[h].key \in KKeys
  BY KeyRequestKinds DEF KRequests, KIdle, KeyShape
<1>1. ASSUME NEW h \in KHandlers, (\E quota \in KQuotas, reserved \in BOOLEAN : CreateCounts(h, quota, reserved)) \/ EnsureInternalKey(h)
      PROVE  KeyShape' /\ KeyUsageExact'
  <2>1. PICK q \in Inserting : OneMoves(h, q)
    BY <1>1, CreateEffect
  <2>2. UNCHANGED <<kRow, kSpent, kForced, kStale, kRaised, kBeside>> /\ kCrowded' \in BOOLEAN
    BY <1>1, CreateEffect
  <2>3. q.pc = "insert"
    BY DEF Inserting
  <2> QED BY <2>1, <2>2, <2>3 DEF OneMoves, KeyShape, KeyUsageExact
<1>2. ASSUME NEW h \in KHandlers, NEW k \in KKeys, NEW price \in 1 .. KMaxPrice, Insert(h, k, price)
      PROVE  KeyShape' /\ KeyUsageExact'
  <2>1. PICK q \in Charging \cup {KIdle} : OneMoves(h, q) /\ (q.pc = "serve" => q.key = k)
    BY <1>2, InsertEffect
  <2>2. /\ UNCHANGED <<kSpent, kForced, kStale, kRaised, kBeside, kCrowded>>
        /\ kRow[k].state = "none" /\ kRow' \in [KKeys -> KRows]
        /\ \A j \in KKeys \ {k} : kRow'[j] = kRow[j]
        /\ kRow'[k].state = "live" /\ kRow'[k].used = 0
    BY <1>2, InsertEffect
  <2>3. q.pc # "edit"
    BY <1>0 DEF Charging
  <2>4. kRow[k].used = 0 /\ kSpent[k] = 0
    BY <2>2 DEF KeyShape, KeyUsageExact
  <2> QED BY <1>0, <2>1, <2>2, <2>3, <2>4 DEF OneMoves, KeyShape, KeyUsageExact
<1>3. ASSUME NEW h \in KHandlers, NEW k \in KKeys, NEW edit \in Edits, EditReads(h, k, edit)
      PROVE  KeyShape' /\ KeyUsageExact'
  <2>1. PICK q \in Editing : OneMoves(h, q) /\ q.key = k
    BY <1>3, EditReadsEffect
  <2>2. /\ UNCHANGED <<kRow, kSpent, kForced, kStale, kRaised, kNamed, kBeside, kCrowded>>
        /\ kRow[k].state = "live"
    BY <1>3, EditReadsEffect
  <2> QED BY <1>0, <2>1, <2>2 DEF OneMoves, KeyShape, KeyUsageExact
<1>4. ASSUME NEW h \in KHandlers, EditWrites(h) PROVE KeyShape' /\ KeyUsageExact'
  <2> DEFINE k == kReq[h].key
  <2>1. UNCHANGED <<kSpent, kBeside, kCrowded>> /\ kReq[h].pc = "edit" /\ OneMoves(h, KIdle)
    BY <1>4, EditWritesEffect
  <2>2. k \in KKeys /\ kRow[k].state # "none"
    BY <1>0, <2>1 DEF KeyShape
  <2>3. CASE UNCHANGED <<kRow, kStale, kForced, kRaised>>
    BY <1>0, <2>1, <2>3 DEF OneMoves, KeyShape, KeyUsageExact
  <2>4. CASE /\ kRow' \in [KKeys -> KRows]
             /\ \A j \in KKeys \ {k} : kRow'[j] = kRow[j]
             /\ kRow'[k].state = kRow[k].state /\ kRow'[k].used = kRow[k].used
             /\ kForced' \subseteq kForced \cup {k}
    <3>1. \A j \in KKeys : kRow'[j].state = kRow[j].state /\ kRow'[j].used = kRow[j].used
      BY <2>2, <2>4
    <3>2. \A j \in KKeys : kRow[j].state = "none" => j \notin kForced'
      BY <2>2, <2>4 DEF KeyShape
    <3> HIDE DEF k
    <3> QED BY <1>0, <2>1, <2>4, <3>1, <3>2 DEF OneMoves, KeyShape, KeyUsageExact
  <2> QED BY <1>4, <2>3, <2>4, EditWritesEffect
<1>5. ASSUME NEW k \in KKeys, Delete(k) PROVE KeyShape' /\ KeyUsageExact'
  <2>1. /\ UNCHANGED <<kReq, kSpent, kForced, kCrowded>>
        /\ kRow' \in [KKeys -> KRows]
        /\ \A j \in KKeys : kRow'[j].used = kRow[j].used /\ (kRow'[j].state = "none" <=> kRow[j].state = "none")
    BY <1>5, DeleteEffect
  <2> QED BY <1>0, <2>1 DEF KeyShape, KeyUsageExact
<1>6. ASSUME NEW h \in KHandlers, NEW k \in KKeys, NEW price \in 1 .. KMaxPrice,
             Verify(h, k, price) \/ Playground(h, k, price)
      PROVE  KeyShape' /\ KeyUsageExact'
  <2>1. PICK q \in Charging : OneMoves(h, q) /\ q.key = k
    BY <1>6, AdmitEffect
  <2>2. UNCHANGED <<kRow, kSpent, kForced, kCrowded>> /\ kRow[k].state = "live"
    BY <1>6, AdmitEffect
  <2> QED BY <1>0, <2>1, <2>2 DEF OneMoves, KeyShape, KeyUsageExact
<1>7. ASSUME NEW h \in KHandlers, TouchUsage(h) PROVE KeyShape' /\ KeyUsageExact'
  <2> DEFINE k == kReq[h].key
  <2>1. /\ UNCHANGED <<kForced, kCrowded>> /\ kReq[h].pc = "serve" /\ OneMoves(h, KIdle)
        /\ kRow' \in [KKeys -> KRows] /\ kSpent' \in [KKeys -> Nat]
        /\ \A j \in KKeys \ {k} : kRow'[j] = kRow[j] /\ kSpent'[j] = kSpent[j]
        /\ kRow'[k].state = kRow[k].state
        /\ kRow'[k].used = kRow[k].used + kReq[h].price /\ kSpent'[k] = kSpent[k] + kReq[h].price
    BY <1>7, TouchEffect
  <2>2. k \in KKeys /\ kRow[k].state # "none"
    BY <1>0, <2>1 DEF KeyShape
  <2>3. \A j \in KKeys : kRow'[j].state = kRow[j].state
    BY <2>1
  <2>4. KeyUsageExact'
    BY <2>1, <2>2 DEF KeyUsageExact
  <2>5. \A j \in KKeys : kRow'[j].state = "none" => kRow'[j] = kRow[j]
    BY <2>1, <2>2, <2>3
  <2> HIDE DEF k
  <2> QED BY <1>0, <2>1, <2>3, <2>4, <2>5 DEF OneMoves, KeyShape
<1> QED BY <1>1, <1>2, <1>3, <1>4, <1>5, <1>6, <1>7 DEF KNext

\* The sets of keys are finite; one key more or less.
LEMMA KeySets ==
    /\ IsFiniteSet(Counted) /\ Cardinality(Counted) \in Nat /\ Cardinality(Counted) <= Cardinality(Visible)
    /\ IsFiniteSet(Hidden) /\ Cardinality(Hidden) \in Nat /\ Cardinality(Visible) \in Nat
<1>1. Visible \subseteq KKeys /\ Internal \subseteq KKeys /\ Counted \subseteq Visible /\ Hidden \subseteq Internal
  BY DEF Visible, Internal, Counted, Hidden
<1>2. IsFiniteSet(Visible) /\ IsFiniteSet(Internal)
  BY <1>1, ApiKeysAssumption, FS_Subset
<1>3. /\ IsFiniteSet(Counted) /\ Cardinality(Counted) <= Cardinality(Visible) /\ IsFiniteSet(Hidden)
  BY <1>1, <1>2, FS_Subset
<1> QED BY <1>2, <1>3, FS_CardinalityType

\* Who passed the count finds room for one more key that counts.
LEMMA MayCreateRoom == MayCreate => Room
<1> DEFINE v == Cardinality(Visible)
           w == Cardinality(Counted)
<1>1. v \in Nat /\ w \in Nat /\ w <= v /\ KeyMaxPerUser \in Nat
  BY KeySets, ApiKeysAssumption
<1>2. MayCreate => KeyMaxPerUser = 0 \/ v < KeyMaxPerUser
  BY DEF MayCreate
<1> HIDE DEF v, w
<1>3. MayCreate => KeyMaxPerUser = 0 \/ w < KeyMaxPerUser
  BY <1>1, <1>2
<1> QED BY <1>3 DEF Room, w

\* Keys that are gone do not count.
LEMMA FewerKeys ==
    ASSUME Counted' \subseteq Counted, Hidden' \subseteq Hidden
    PROVE  /\ Cardinality(Counted') \in Nat /\ Cardinality(Counted') <= Cardinality(Counted)
           /\ Cardinality(Hidden') \in Nat /\ Cardinality(Hidden') <= Cardinality(Hidden)
<1>1. /\ IsFiniteSet(Counted') /\ Cardinality(Counted') <= Cardinality(Counted)
      /\ IsFiniteSet(Hidden') /\ Cardinality(Hidden') <= Cardinality(Hidden)
  BY KeySets, FS_Subset
<1> QED BY <1>1, FS_CardinalityType

\* Rows that keep their state, and their name unless the user is named for it,
\* bring no key into the count.
LEMMA NamesStay ==
    ASSUME kNamed \subseteq kNamed',
           \A j \in KKeys : /\ kRow'[j].state = "live" => kRow[j].state = "live"
                            /\ kRow'[j].reserved # kRow[j].reserved => j \in kNamed'
    PROVE  Counted' \subseteq Counted /\ Hidden' \subseteq Hidden
BY DEF Counted, Hidden, Visible, Internal, LiveKey

\* A step that adds no key and starts no creation.
LEMMA CountsStay ==
    ASSUME CountFresh, KeysLimited, Counted' \subseteq Counted, Hidden' \subseteq Hidden,
           kCrowded' = kCrowded,
           \A g \in KHandlers : kReq'[g].pc = "insert" => kReq'[g] = kReq[g]
    PROVE  CountFresh' /\ KeysLimited'
<1>1. /\ Cardinality(Counted') \in Nat /\ Cardinality(Counted') <= Cardinality(Counted)
      /\ Cardinality(Hidden') \in Nat /\ Cardinality(Hidden') <= Cardinality(Hidden)
      /\ Cardinality(Counted) \in Nat /\ Cardinality(Hidden) \in Nat
  BY FewerKeys, KeySets
<1>2. KeyMaxPerUser \in Nat
  BY ApiKeysAssumption
<1> DEFINE v == Cardinality(Counted)
           w == Cardinality(Counted')
           i == Cardinality(Hidden)
           j == Cardinality(Hidden')
<1>3. /\ v \in Nat /\ w \in Nat /\ i \in Nat /\ j \in Nat /\ w <= v /\ j <= i
      /\ ~kCrowded => (KeyMaxPerUser > 0 => v <= KeyMaxPerUser) /\ i <= 1
  BY <1>1 DEF KeysLimited, Counted, Hidden
<1>4. Room => KeyMaxPerUser = 0 \/ v < KeyMaxPerUser
  BY DEF Room
<1> HIDE DEF v, w, i, j
<1>5. /\ ~kCrowded => (KeyMaxPerUser > 0 => w <= KeyMaxPerUser) /\ j <= 1
      /\ Room => KeyMaxPerUser = 0 \/ w < KeyMaxPerUser
  BY <1>2, <1>3, <1>4
<1>6. KeysLimited'
  BY <1>5 DEF KeysLimited, Counted, Hidden, w, j
<1>7. Room => Room'
  BY <1>5 DEF Room, w
<1>8. Hidden = {} => Hidden' = {}
  OBVIOUS
<1> QED BY <1>6, <1>7, <1>8 DEF CountFresh

\* Without a crowd of creations no user has more keys that count than the limit.
LEMMA KeyCountStep ==
    ASSUME KeyShape, KeyShape', CountFresh, KeysLimited, KNext
    PROVE  CountFresh' /\ KeysLimited'
<1>0. /\ KIdle.pc = "idle"
      /\ \A h \in KHandlers : kReq[h].pc \in {"edit", "serve"} => kReq[h].key \in KKeys
      /\ \A q \in Charging : q.pc = "serve"
      /\ \A q \in Editing : q.pc = "edit"
  BY KeyRequestKinds DEF KIdle, KeyShape, Charging, Editing
<1>1. ASSUME NEW h \in KHandlers, (\E quota \in KQuotas, reserved \in BOOLEAN : CreateCounts(h, quota, reserved)) \/ EnsureInternalKey(h)
      PROVE  CountFresh' /\ KeysLimited'
  <2>1. PICK q \in Inserting : /\ OneMoves(h, q)
                               /\ ~q.known => q.limit = 0 /\ q.reserved /\ Internal = {}
                               /\ q.known => MayCreate
    BY <1>1, CreateEffect
  <2>2. /\ kRow' = kRow /\ kNamed' = kNamed
        /\ kCrowded' = (kCrowded \/ \E g \in KHandlers : kReq[g].pc = "insert")
    BY <1>1, CreateEffect
  <2>3. Counted' = Counted /\ Hidden' = Hidden /\ (Internal = {} => Hidden = {})
    BY <2>2 DEF Counted, Hidden, Visible, Internal, LiveKey
  <2>4. (Room' <=> Room) /\ KeysLimited'
    <3>1. Cardinality(Counted') = Cardinality(Counted) /\ Cardinality(Hidden') = Cardinality(Hidden)
      BY <2>3
    <3> QED BY <2>2, <3>1 DEF Room, KeysLimited, Counted, Hidden
  <2>5. CountFresh'
    <3> SUFFICES ASSUME ~kCrowded' PROVE CountFresh'
      BY DEF CountFresh
    <3>1. \A g \in KHandlers : kReq[g].pc # "insert"
      BY <2>2
    <3>2. \A g \in KHandlers : kReq'[g].pc = "insert" => g = h
      BY <2>1, <3>1 DEF OneMoves
    <3>3. kReq'[h] = q
      BY <2>1 DEF OneMoves
    <3> QED BY <2>1, <2>3, <2>4, <3>2, <3>3, MayCreateRoom DEF CountFresh
  <2> QED BY <2>4, <2>5
<1>2. ASSUME NEW h \in KHandlers, NEW k \in KKeys, NEW price \in 1 .. KMaxPrice, Insert(h, k, price)
      PROVE  CountFresh' /\ KeysLimited'
  <2>1. PICK q \in Charging \cup {KIdle} : OneMoves(h, q)
    BY <1>2, InsertEffect
  <2>2. /\ kCrowded' = kCrowded /\ kReq[h].pc = "insert"
        /\ kReq[h].reserved \in BOOLEAN /\ kReq[h].known \in BOOLEAN
        /\ kRow[k].state = "none"
        /\ \A j \in KKeys \ {k} : kRow'[j] = kRow[j]
        /\ kRow'[k].state = "live" /\ kRow'[k].reserved = kReq[h].reserved
        /\ kNamed' = IF kReq[h].known /\ kReq[h].reserved THEN kNamed \cup {k} ELSE kNamed
    BY <1>2, InsertEffect DEF Inserting
  <2> SUFFICES ASSUME ~kCrowded' PROVE CountFresh' /\ KeysLimited'
    BY DEF CountFresh, KeysLimited
  <2>3. /\ \A g \in KHandlers : kReq[g].pc = "insert" => g = h
        /\ IF kReq[h].known THEN Room ELSE kReq[h].reserved /\ Hidden = {}
        /\ KeyMaxPerUser > 0 => Cardinality(Counted) <= KeyMaxPerUser
        /\ Cardinality(Hidden) <= 1
    BY <2>2 DEF CountFresh, KeysLimited, Counted, Hidden
  <2>4. \A g \in KHandlers : kReq'[g].pc # "insert"
    BY <1>0, <2>1, <2>3 DEF OneMoves
  <2>5. k \notin Counted /\ k \notin Hidden
    BY <2>2 DEF Counted, Hidden, Visible, Internal, LiveKey
  <2>6. \A j \in KKeys \ {k} : /\ j \in Counted' <=> j \in Counted
                               /\ j \in Hidden' <=> j \in Hidden
    BY <2>2 DEF Counted, Hidden, Visible, Internal, LiveKey
  <2>7. Counted \subseteq KKeys /\ Hidden \subseteq KKeys /\ Counted' \subseteq KKeys /\ Hidden' \subseteq KKeys
    BY DEF Counted, Hidden, Visible, Internal
  <2>8. CASE ~kReq[h].known
    <3>1. k \notin Counted'
      BY <2>2, <2>3, <2>8 DEF Counted, Visible
    <3>2. Counted' \subseteq Counted /\ Hidden' \subseteq {k}
      BY <2>3, <2>6, <2>7, <2>8, <3>1
    <3>3. /\ Cardinality(Counted') \in Nat /\ Cardinality(Counted') <= Cardinality(Counted)
          /\ Cardinality(Counted) \in Nat
      BY <3>2, KeySets, FS_Subset, FS_CardinalityType
    <3>4. Cardinality(Hidden') <= 1
      <4>1. IsFiniteSet({k}) /\ Cardinality({k}) = 1
        BY FS_Singleton
      <4> QED BY <3>2, <4>1, FS_Subset
    <3>5. KeyMaxPerUser > 0 => Cardinality(Counted') <= KeyMaxPerUser
      <4> DEFINE v == Cardinality(Counted)
                 w == Cardinality(Counted')
      <4>1. v \in Nat /\ w \in Nat /\ w <= v /\ KeyMaxPerUser \in Nat /\ (KeyMaxPerUser > 0 => v <= KeyMaxPerUser)
        BY <2>3, <3>3, ApiKeysAssumption
      <4> HIDE DEF v, w
      <4>2. KeyMaxPerUser > 0 => w <= KeyMaxPerUser
        BY <4>1
      <4> QED BY <4>2 DEF w
    <3> QED BY <2>4, <3>4, <3>5 DEF CountFresh, KeysLimited, Counted, Hidden
  <2>9. CASE kReq[h].known /\ kReq[h].reserved
    <3>1. k \notin Counted' /\ k \notin Hidden'
      BY <2>2, <2>9 DEF Counted, Hidden
    <3>2. Counted' \subseteq Counted /\ Hidden' \subseteq Hidden
      BY <2>6, <2>7, <3>1
    <3> QED BY <2>2, <2>4, <3>2, CountsStay
  <2>10. CASE kReq[h].known /\ ~kReq[h].reserved
    <3>1. k \in Counted' \/ k \in kNamed
      BY <2>2, <2>10 DEF Counted, Visible, LiveKey
    <3>2. k \notin Hidden'
      BY <2>2, <2>10 DEF Hidden, Internal
    <3>3. Counted' \subseteq Counted \cup {k} /\ Hidden' \subseteq Hidden
      BY <2>6, <2>7, <3>2
    <3>4. /\ Cardinality(Hidden') \in Nat /\ Cardinality(Hidden') <= Cardinality(Hidden)
          /\ Cardinality(Hidden) \in Nat
      BY <3>3, KeySets, FS_Subset, FS_CardinalityType
    <3>5. /\ IsFiniteSet(Counted \cup {k}) /\ Cardinality(Counted \cup {k}) = Cardinality(Counted) + 1
      BY <2>5, KeySets, FS_AddElement
    <3>6. Cardinality(Counted') \in Nat /\ Cardinality(Counted') <= Cardinality(Counted) + 1
      BY <3>3, <3>5, FS_Subset, FS_CardinalityType
    <3>7. KeyMaxPerUser > 0 => Cardinality(Counted') <= KeyMaxPerUser
      <4> DEFINE v == Cardinality(Counted)
                 w == Cardinality(Counted')
      <4>1. /\ v \in Nat /\ w \in Nat /\ w <= v + 1 /\ KeyMaxPerUser \in Nat
            /\ KeyMaxPerUser > 0 => v < KeyMaxPerUser
        BY <2>3, <2>10, <3>6, KeySets, ApiKeysAssumption DEF Room
      <4> HIDE DEF v, w
      <4>2. KeyMaxPerUser > 0 => w <= KeyMaxPerUser
        BY <4>1
      <4> QED BY <4>2 DEF w
    <3>8. Cardinality(Hidden') <= 1
      BY <2>3, <3>4
    <3> QED BY <2>4, <3>7, <3>8 DEF CountFresh, KeysLimited, Counted, Hidden
  <2> QED BY <2>2, <2>8, <2>9, <2>10
<1>3. ASSUME NEW h \in KHandlers, NEW k \in KKeys, NEW edit \in Edits, EditReads(h, k, edit)
      PROVE  CountFresh' /\ KeysLimited'
  <2>1. PICK q \in Editing : OneMoves(h, q)
    BY <1>3, EditReadsEffect
  <2>2. kRow' = kRow /\ kNamed' = kNamed /\ kCrowded' = kCrowded
    BY <1>3, EditReadsEffect
  <2>3. Counted' \subseteq Counted /\ Hidden' \subseteq Hidden
    BY <2>2, NamesStay
  <2> QED BY <1>0, <2>1, <2>2, <2>3, CountsStay DEF OneMoves
<1>4. ASSUME NEW h \in KHandlers, EditWrites(h) PROVE CountFresh' /\ KeysLimited'
  <2> DEFINE k == kReq[h].key
  <2>1. kCrowded' = kCrowded /\ OneMoves(h, KIdle)
    BY <1>4, EditWritesEffect
  <2>2. kNamed \subseteq kNamed'
    BY <1>4, EditWritesEffect
  <2>3. \A j \in KKeys : /\ kRow'[j].state = kRow[j].state
                         /\ kRow'[j].reserved # kRow[j].reserved => j \in kNamed'
    BY <1>4, EditWritesEffect
  <2>4. Counted' \subseteq Counted /\ Hidden' \subseteq Hidden
    BY <2>2, <2>3, NamesStay
  <2> QED BY <1>0, <2>1, <2>4, CountsStay DEF OneMoves
<1>5. ASSUME NEW k \in KKeys, Delete(k) PROVE CountFresh' /\ KeysLimited'
  <2>1. /\ UNCHANGED <<kReq, kNamed, kCrowded>> /\ kRow'[k].state = "deleted"
        /\ kRow'[k].reserved = kRow[k].reserved
        /\ \A j \in KKeys \ {k} : kRow'[j] = kRow[j]
    BY <1>5, DeleteEffect
  <2>2. Counted' \subseteq Counted /\ Hidden' \subseteq Hidden
    BY <2>1, NamesStay
  <2> QED BY <2>1, <2>2, CountsStay
<1>6. ASSUME NEW h \in KHandlers, NEW k \in KKeys, NEW price \in 1 .. KMaxPrice,
             Verify(h, k, price) \/ Playground(h, k, price)
      PROVE  CountFresh' /\ KeysLimited'
  <2>1. PICK q \in Charging : OneMoves(h, q)
    BY <1>6, AdmitEffect
  <2>2. kRow' = kRow /\ kNamed' = kNamed /\ kCrowded' = kCrowded
    BY <1>6, AdmitEffect
  <2>3. Counted' \subseteq Counted /\ Hidden' \subseteq Hidden
    BY <2>2, NamesStay
  <2> QED BY <1>0, <2>1, <2>2, <2>3, CountsStay DEF OneMoves
<1>7. ASSUME NEW h \in KHandlers, TouchUsage(h) PROVE CountFresh' /\ KeysLimited'
  <2>1. kCrowded' = kCrowded /\ kNamed' = kNamed /\ OneMoves(h, KIdle)
    BY <1>7, TouchEffect
  <2>2. \A j \in KKeys : kRow'[j].state = kRow[j].state /\ kRow'[j].reserved = kRow[j].reserved
    BY <1>7, TouchEffect
  <2>3. Counted' \subseteq Counted /\ Hidden' \subseteq Hidden
    BY <2>1, <2>2, NamesStay
  <2> QED BY <1>0, <2>1, <2>3, CountsStay DEF OneMoves
<1> QED BY <1>1, <1>2, <1>3, <1>4, <1>5, <1>6, <1>7 DEF KNext

\* A quota is overshot only beside another request or after an edit.
LEMMA KeyQuotaStep ==
    ASSUME KeyShape, KeyShape', ServesWithin, KeyOvershootOnlyBeside, KNext
    PROVE  ServesWithin' /\ KeyOvershootOnlyBeside'
<1>0. /\ KIdle.pc = "idle" /\ KMaxPrice \in Nat
      /\ \A h \in KHandlers : kReq[h].pc \in {"edit", "serve"} => kReq[h].key \in KKeys
      /\ \A q \in Charging : q.pc = "serve" /\ q.price \in Nat /\ q.price <= KMaxPrice
      /\ \A q \in Editing : q.pc = "edit"
      /\ \A q \in Inserting : q.pc = "insert"
      /\ \A k \in KKeys : kRow[k].limit \in Nat /\ kRow[k].used \in Nat
  BY KeyRequestKinds, ApiKeysAssumption DEF KIdle, KeyShape, Charging, Editing, Inserting, KRows
\* The other handlers, when the rows they charge are as before.
<1>9. ASSUME NEW h \in KHandlers, NEW q, OneMoves(h, q), kBeside \subseteq kBeside', Unbound \subseteq Unbound',
             \A k \in KKeys \ Unbound' :
                kRow[k].state # "none" => /\ kRow'[k].reserved = kRow[k].reserved
                                          /\ kRow'[k].limit = kRow[k].limit,
             \A k \in KKeys \ Unbound' : kRow'[k].reserved => kRow'[k].limit = 0,
             q.pc = "insert" /\ ~q.known => q.limit = 0,
             q.pc = "serve" => /\ q.key \in KKeys
                               /\ \A g \in KHandlers \ {h} :
                                     kReq[g].pc = "serve" /\ kReq[g].key = q.key => q.key \in kBeside'
                               /\ q.key \notin Unbound' \cup kBeside' /\ kRow'[q.key].limit > 0 =>
                                     kRow'[q.key].used < kRow'[q.key].limit,
             \A g \in KHandlers \ {h} :
                kReq[g].pc = "serve" /\ kReq[g].key \notin kBeside' => kRow'[kReq[g].key].used = kRow[kReq[g].key].used
      PROVE  ServesWithin'
  <2>1. kReq'[h] = q /\ \A g \in KHandlers \ {h} : kReq'[g] = kReq[g]
    BY <1>9 DEF OneMoves
  <2>2. \A g \in KHandlers : kReq'[g].pc = "insert" /\ ~kReq'[g].known => kReq'[g].limit = 0
    BY <1>9, <2>1 DEF ServesWithin
  <2>3. ASSUME NEW f \in KHandlers, NEW g \in KHandlers, kReq'[f].pc = "serve", kReq'[g].pc = "serve",
               kReq'[f].key = kReq'[g].key, kReq'[f].key \notin kBeside'
        PROVE  f = g
    <3>1. CASE f # h /\ g # h
      BY <1>9, <2>1, <2>3, <3>1 DEF ServesWithin
    <3>2. CASE f = h /\ g # h
      BY <1>9, <2>1, <2>3, <3>2
    <3>3. CASE f # h /\ g = h
      BY <1>9, <2>1, <2>3, <3>3
    <3> QED BY <3>1, <3>2, <3>3
  <2>4. ASSUME NEW g \in KHandlers, kReq'[g].pc = "serve", kReq'[g].key \notin Unbound' \cup kBeside',
               kRow'[kReq'[g].key].limit > 0
        PROVE  kRow'[kReq'[g].key].used < kRow'[kReq'[g].key].limit
    <3>1. CASE g = h
      BY <1>9, <2>1, <2>4, <3>1
    <3>2. CASE g # h
      <4>1. kReq'[g] = kReq[g] /\ kReq[g].key \in KKeys /\ kRow[kReq[g].key].state # "none"
        BY <1>0, <2>1, <2>4, <3>2 DEF KeyShape
      <4>2. /\ kRow'[kReq[g].key].limit = kRow[kReq[g].key].limit
            /\ kRow'[kReq[g].key].used = kRow[kReq[g].key].used
        BY <1>9, <2>4, <3>2, <4>1
      <4> QED BY <1>9, <2>4, <4>1, <4>2 DEF ServesWithin
    <3> QED BY <3>1, <3>2
  <2> QED BY <1>9, <2>2, <2>3, <2>4 DEF ServesWithin
<1>1. ASSUME NEW h \in KHandlers, (\E quota \in KQuotas, reserved \in BOOLEAN : CreateCounts(h, quota, reserved)) \/ EnsureInternalKey(h)
      PROVE  ServesWithin' /\ KeyOvershootOnlyBeside'
  <2>1. PICK q \in Inserting : OneMoves(h, q) /\ (~q.known => q.limit = 0)
    BY <1>1, CreateEffect
  <2>2. UNCHANGED <<kRow, kBeside>> /\ Unbound' = Unbound
    BY <1>1, CreateEffect DEF Unbound
  <2>3. KeyOvershootOnlyBeside'
    BY <2>2 DEF KeyOvershootOnlyBeside
  <2>4. \A k \in KKeys \ Unbound : kRow[k].reserved => kRow[k].limit = 0
    BY DEF ServesWithin
  <2> QED BY <1>0, <1>9, <2>1, <2>2, <2>3, <2>4
<1>2. ASSUME NEW h \in KHandlers, NEW k \in KKeys, NEW price \in 1 .. KMaxPrice, Insert(h, k, price)
      PROVE  ServesWithin' /\ KeyOvershootOnlyBeside'
  <2>1. PICK q \in Charging \cup {KIdle} : OneMoves(h, q) /\ (q.pc = "serve" => q.key = k /\ ~kReq[h].known)
    BY <1>2, InsertEffect
  <2>2. /\ kBeside' = kBeside /\ kReq[h].pc = "insert" /\ kReq[h].limit \in Nat
        /\ Unbound' = IF kReq[h].known /\ kReq[h].reserved THEN Unbound \cup {k} ELSE Unbound
        /\ kRow[k].state = "none"
        /\ \A j \in KKeys \ {k} : kRow'[j] = kRow[j]
        /\ kRow'[k].reserved = kReq[h].reserved /\ kRow'[k].limit = kReq[h].limit /\ kRow'[k].used = 0
    BY <1>2, InsertEffect DEF Inserting, Unbound
  <2>3. ~kReq[h].known => kRow'[k].limit = 0
    BY <2>2 DEF ServesWithin
  <2>4. \A j \in KKeys \ Unbound' : kRow'[j].reserved => kRow'[j].limit = 0
    BY <2>2, <2>3 DEF ServesWithin
  <2>5. \A g \in KHandlers : kReq[g].pc = "serve" => kReq[g].key \in KKeys \ {k}
    BY <1>0, <2>2 DEF KeyShape
  <2>6. KeyOvershootOnlyBeside'
    <3>1. kRow'[k].limit > 0 => kRow'[k].used <= kRow'[k].limit - 1 + KMaxPrice
      BY <1>0, <2>2
    <3> QED BY <2>2, <3>1 DEF KeyOvershootOnlyBeside
  <2>7. q.pc # "insert"
    BY <1>0, <2>1
  <2>8. ServesWithin'
    <3>1. q.pc = "serve" => q.key = k /\ kRow'[k].limit = 0
      BY <2>1, <2>3
    <3>2. ~(kRow'[k].limit > 0) \/ q.pc # "serve"
      BY <3>1
    <3> QED BY <1>9, <2>1, <2>2, <2>4, <2>5, <2>7, <3>1, <3>2
  <2> QED BY <2>6, <2>8
<1>3. ASSUME NEW h \in KHandlers, NEW k \in KKeys, NEW edit \in Edits, EditReads(h, k, edit)
      PROVE  ServesWithin' /\ KeyOvershootOnlyBeside'
  <2>1. PICK q \in Editing : OneMoves(h, q)
    BY <1>3, EditReadsEffect
  <2>2. UNCHANGED <<kRow, kBeside>> /\ Unbound' = Unbound
    BY <1>3, EditReadsEffect DEF Unbound
  <2>3. KeyOvershootOnlyBeside'
    BY <2>2 DEF KeyOvershootOnlyBeside
  <2>4. \A j \in KKeys \ Unbound : kRow[j].reserved => kRow[j].limit = 0
    BY DEF ServesWithin
  <2> QED BY <1>0, <1>9, <2>1, <2>2, <2>3, <2>4
<1>4. ASSUME NEW h \in KHandlers, EditWrites(h) PROVE ServesWithin' /\ KeyOvershootOnlyBeside'
  <2> DEFINE k == kReq[h].key
  <2>1. kBeside' = kBeside /\ OneMoves(h, KIdle) /\ k \in KKeys
    BY <1>0, <1>4, EditWritesEffect
  <2>2. \A j \in KKeys \ Unbound : kRow[j].reserved => kRow[j].limit = 0
    BY DEF ServesWithin
  <2>3. /\ Unbound \subseteq Unbound' /\ \A j \in KKeys : kRow'[j].used = kRow[j].used
        /\ \A j \in KKeys \ Unbound' : kRow'[j] = kRow[j]
    <3>1. CASE UNCHANGED <<kRow, kRaised, kNamed>>
      BY <3>1 DEF Unbound
    <3>2. CASE /\ \A j \in KKeys \ {k} : kRow'[j] = kRow[j]
               /\ kRow'[k].used = kRow[k].used
               /\ kRaised' = kRaised \cup {k} /\ kNamed \subseteq kNamed'
      BY <3>2 DEF Unbound
    <3> QED BY <1>4, <3>1, <3>2, EditWritesEffect
  <2>4. KeyOvershootOnlyBeside'
    BY <2>1, <2>3 DEF KeyOvershootOnlyBeside
  <2> HIDE DEF k
  <2>5. \A g \in KHandlers : kReq[g].pc = "serve" => kReq[g].key \in KKeys
    BY <1>0
  <2>6. \A j \in KKeys \ Unbound' : kRow'[j].reserved => kRow'[j].limit = 0
    BY <2>2, <2>3
  <2> QED BY <1>0, <1>9, <2>1, <2>3, <2>4, <2>5, <2>6
<1>5. ASSUME NEW k \in KKeys, Delete(k) PROVE ServesWithin' /\ KeyOvershootOnlyBeside'
  <2>1. /\ UNCHANGED <<kReq, kBeside>> /\ Unbound' = Unbound
        /\ \A j \in KKeys : /\ kRow'[j].reserved = kRow[j].reserved /\ kRow'[j].limit = kRow[j].limit
                            /\ kRow'[j].used = kRow[j].used
    BY <1>5, DeleteEffect DEF Unbound
  <2> QED BY <1>0, <2>1 DEF ServesWithin, KeyOvershootOnlyBeside
<1>6. ASSUME NEW h \in KHandlers, NEW k \in KKeys, NEW price \in 1 .. KMaxPrice,
             Verify(h, k, price) \/ Playground(h, k, price)
      PROVE  ServesWithin' /\ KeyOvershootOnlyBeside'
  <2>1. PICK q \in Charging : OneMoves(h, q) /\ q.key = k
    BY <1>6, AdmitEffect
  <2>2. /\ kRow' = kRow /\ Unbound' = Unbound /\ kBeside \subseteq kBeside'
        /\ WithinQuota(k) \/ kRow[k].reserved
        /\ \A g \in KHandlers : kReq[g].pc = "serve" /\ kReq[g].key = k => k \in kBeside'
    BY <1>6, AdmitEffect DEF Unbound
  <2>3. KeyOvershootOnlyBeside'
    BY <2>2 DEF KeyOvershootOnlyBeside
  <2>4. \A j \in KKeys \ Unbound : kRow[j].reserved => kRow[j].limit = 0
    BY DEF ServesWithin
  <2>5. k \notin Unbound /\ kRow[k].limit > 0 => kRow[k].used < kRow[k].limit
    <3> SUFFICES ASSUME k \notin Unbound, kRow[k].limit > 0 PROVE kRow[k].used < kRow[k].limit
      OBVIOUS
    <3>1. kRow[k].limit # 0
      BY <1>0
    <3>2. ~kRow[k].reserved
      BY <2>4, <3>1
    <3> QED BY <2>2, <3>1, <3>2 DEF WithinQuota
  <2> QED BY <1>0, <1>9, <2>1, <2>2, <2>3, <2>4, <2>5
<1>7. ASSUME NEW h \in KHandlers, TouchUsage(h) PROVE ServesWithin' /\ KeyOvershootOnlyBeside'
  <2> DEFINE k == kReq[h].key
             price == kReq[h].price
  <2>1. /\ kBeside' = kBeside /\ Unbound' = Unbound /\ kReq[h].pc = "serve" /\ OneMoves(h, KIdle)
        /\ k \in KKeys /\ price \in Nat /\ price <= KMaxPrice
        /\ \A j \in KKeys \ {k} : kRow'[j] = kRow[j]
        /\ kRow'[k].reserved = kRow[k].reserved /\ kRow'[k].limit = kRow[k].limit
        /\ kRow'[k].used = kRow[k].used + price
    BY <1>0, <1>7, TouchEffect DEF Unbound
  <2>2. KeyOvershootOnlyBeside'
    <3>1. ASSUME k \notin Unbound \cup kBeside, kRow'[k].limit > 0
          PROVE  kRow'[k].used <= kRow'[k].limit - 1 + KMaxPrice
      <4>1. kRow[k].used < kRow[k].limit
        BY <2>1, <3>1 DEF ServesWithin
      <4> QED BY <1>0, <2>1, <4>1
    <3> HIDE DEF k
    <3> QED BY <2>1, <3>1 DEF KeyOvershootOnlyBeside
  <2>3. \A g \in KHandlers \ {h} : kReq[g].pc = "serve" /\ kReq[g].key \notin kBeside => kReq[g].key # k
    BY <2>1 DEF ServesWithin
  <2>4. \A g \in KHandlers : kReq[g].pc = "serve" => kReq[g].key \in KKeys
    BY <1>0
  <2>5. \A j \in KKeys \ Unbound : kRow'[j].reserved => kRow'[j].limit = 0
    BY <2>1 DEF ServesWithin
  <2> HIDE DEF k
  <2>6. ServesWithin'
    BY <1>0, <1>9, <2>1, <2>3, <2>4, <2>5
  <2> QED BY <2>2, <2>6
<1> QED BY <1>1, <1>2, <1>3, <1>4, <1>5, <1>6, <1>7 DEF KNext

\* A disabled key stays so unless an edit was read before it was disabled.
LEMMA KeySwitchStep ==
    ASSUME KeyShape, KeyShape', ReadFresh, DisabledStays, KNext
    PROVE  ReadFresh' /\ DisabledStays'
<1>0. /\ KIdle.pc = "idle"
      /\ \A h \in KHandlers : kReq[h].pc = "edit" => kReq[h].key \in KKeys /\ kReq[h].row.rev \in Nat
                                                     /\ kReq[h].row.on \in BOOLEAN
      /\ \A q \in Charging : q.pc = "serve"
      /\ \A q \in Editing : q.pc = "edit"
      /\ \A q \in Inserting : q.pc = "insert"
      /\ \A k \in KKeys : kRow[k].rev \in Nat /\ kRow[k].on \in BOOLEAN
  BY KeyRequestKinds DEF KIdle, KeyShape, Charging, Editing, Inserting, KRows
\* Steps that touch no switch of a key that exists.
<1>9. ASSUME UNCHANGED <<kForced, kStale>>,
             \A k \in KKeys : kRow[k].state # "none" => kRow'[k].on = kRow[k].on /\ kRow'[k].rev = kRow[k].rev,
             \A h \in KHandlers : \/ kReq'[h] = kReq[h] \/ kReq'[h].pc # "edit"
                                  \/ kReq'[h].key \in KKeys /\ kReq'[h].row = kRow'[kReq'[h].key]
      PROVE  ReadFresh' /\ DisabledStays'
  <2>1. DisabledStays'
    BY <1>9 DEF DisabledStays, KeyShape
  <2>2. ASSUME NEW h \in KHandlers, kReq'[h].pc = "edit"
        PROVE  /\ kReq'[h].row.rev <= kRow'[kReq'[h].key].rev
               /\ kReq'[h].row.rev = kRow'[kReq'[h].key].rev => kReq'[h].row.on = kRow'[kReq'[h].key].on
    <3>1. CASE kReq'[h] = kReq[h]
      <4>1. kReq[h].key \in KKeys /\ kRow[kReq[h].key].state # "none"
        BY <1>0, <2>2, <3>1 DEF KeyShape
      <4> QED BY <1>9, <2>2, <3>1, <4>1 DEF ReadFresh
    <3>2. CASE kReq'[h].key \in KKeys /\ kReq'[h].row = kRow'[kReq'[h].key]
      <4>1. kRow'[kReq'[h].key].rev \in Nat
        BY <3>2 DEF KeyShape, KRows
      <4> QED BY <3>2, <4>1
    <3> QED BY <1>9, <2>2, <3>1, <3>2
  <2> QED BY <2>1, <2>2 DEF ReadFresh
<1>1. ASSUME NEW h \in KHandlers, (\E quota \in KQuotas, reserved \in BOOLEAN : CreateCounts(h, quota, reserved)) \/ EnsureInternalKey(h)
      PROVE  ReadFresh' /\ DisabledStays'
  <2>1. PICK q \in Inserting : OneMoves(h, q)
    BY <1>1, CreateEffect
  <2>2. UNCHANGED <<kRow, kForced, kStale>>
    BY <1>1, CreateEffect
  <2> QED BY <1>0, <1>9, <2>1, <2>2 DEF OneMoves
<1>2. ASSUME NEW h \in KHandlers, NEW k \in KKeys, NEW price \in 1 .. KMaxPrice, Insert(h, k, price)
      PROVE  ReadFresh' /\ DisabledStays'
  <2>1. PICK q \in Charging \cup {KIdle} : OneMoves(h, q)
    BY <1>2, InsertEffect
  <2>2. UNCHANGED <<kForced, kStale>> /\ kRow[k].state = "none" /\ \A j \in KKeys \ {k} : kRow'[j] = kRow[j]
    BY <1>2, InsertEffect
  <2> QED BY <1>0, <1>9, <2>1, <2>2 DEF OneMoves
<1>3. ASSUME NEW h \in KHandlers, NEW k \in KKeys, NEW edit \in Edits, EditReads(h, k, edit)
      PROVE  ReadFresh' /\ DisabledStays'
  <2>1. PICK q \in Editing : OneMoves(h, q) /\ q.key = k /\ q.row = kRow[k]
    BY <1>3, EditReadsEffect
  <2>2. UNCHANGED <<kRow, kForced, kStale>>
    BY <1>3, EditReadsEffect
  <2>3. \A g \in KHandlers : kReq'[g] = kReq[g] \/ (kReq'[g].key \in KKeys /\ kReq'[g].row = kRow'[kReq'[g].key])
    BY <2>1, <2>2 DEF OneMoves
  <2> QED BY <1>9, <2>2, <2>3
<1>4. ASSUME NEW h \in KHandlers, EditWrites(h) PROVE ReadFresh' /\ DisabledStays'
  <2> DEFINE k == kReq[h].key
             row == kReq[h].row
  <2>1. /\ kReq[h].pc = "edit" /\ OneMoves(h, KIdle) /\ k \in KKeys
        /\ row.rev \in Nat /\ row.on \in BOOLEAN
    BY <1>0, <1>4, EditWritesEffect
  <2>2. CASE UNCHANGED <<kRow, kForced, kStale>>
    BY <1>0, <1>9, <2>1, <2>2 DEF OneMoves
  <2>3. CASE /\ \A j \in KKeys \ {k} : kRow'[j] = kRow[j]
             /\ kRow'[k].rev = kRow[k].rev + 1
             /\ kStale \subseteq kStale'
             /\ kRow[k].rev # row.rev => k \in kStale'
             /\ kForced' \subseteq kForced \cup {k}
             /\ k \in kForced' /\ kRow'[k].on => k \in kForced /\ row.on
    <3>1. row.rev = kRow[k].rev => row.on = kRow[k].on
      BY <2>1 DEF ReadFresh
    <3>2. k \in kForced' /\ kRow'[k].on => k \in kStale'
      <4> SUFFICES ASSUME k \in kForced', kRow'[k].on, k \notin kStale' PROVE FALSE
        OBVIOUS
      <4>1. k \in kForced /\ row.on /\ row.rev = kRow[k].rev /\ k \notin kStale
        BY <2>3
      <4>2. kRow[k].on
        BY <3>1, <4>1
      <4> QED BY <2>1, <4>1, <4>2 DEF DisabledStays
    <3>3. DisabledStays'
      BY <2>3, <3>2 DEF DisabledStays
    <3>4. ASSUME NEW g \in KHandlers, kReq'[g].pc = "edit"
          PROVE  /\ kReq'[g].row.rev <= kRow'[kReq'[g].key].rev
                 /\ kReq'[g].row.rev = kRow'[kReq'[g].key].rev => kReq'[g].row.on = kRow'[kReq'[g].key].on
      <4>1. kReq'[g] = kReq[g] /\ kReq[g].key \in KKeys /\ kReq[g].row.rev \in Nat
        BY <1>0, <2>1, <3>4 DEF OneMoves
      <4>2. /\ kReq[g].row.rev <= kRow[kReq[g].key].rev
            /\ kReq[g].row.rev = kRow[kReq[g].key].rev => kReq[g].row.on = kRow[kReq[g].key].on
        BY <3>4, <4>1 DEF ReadFresh
      <4>3. CASE kReq[g].key = k
        <5>1. kRow[k].rev \in Nat /\ kReq[g].row.rev <= kRow[k].rev /\ kRow'[k].rev = kRow[k].rev + 1
          BY <1>0, <2>1, <2>3, <4>2, <4>3
        <5>2. kReq[g].row.rev <= kRow'[k].rev /\ kReq[g].row.rev # kRow'[k].rev
          BY <4>1, <5>1
        <5> QED BY <4>1, <4>3, <5>2
      <4>4. CASE kReq[g].key # k
        BY <2>3, <4>1, <4>2, <4>4
      <4> QED BY <4>3, <4>4
    <3> QED BY <3>3, <3>4 DEF ReadFresh
  <2> QED BY <1>4, <2>2, <2>3, EditWritesEffect
<1>5. ASSUME NEW k \in KKeys, Delete(k) PROVE ReadFresh' /\ DisabledStays'
  <2>1. /\ UNCHANGED <<kReq, kForced, kStale>>
        /\ \A j \in KKeys : kRow'[j].on = kRow[j].on /\ kRow'[j].rev = kRow[j].rev
    BY <1>5, DeleteEffect
  <2> QED BY <1>9, <2>1
<1>6. ASSUME NEW h \in KHandlers, NEW k \in KKeys, NEW price \in 1 .. KMaxPrice,
             Verify(h, k, price) \/ Playground(h, k, price)
      PROVE  ReadFresh' /\ DisabledStays'
  <2>1. PICK q \in Charging : OneMoves(h, q)
    BY <1>6, AdmitEffect
  <2>2. UNCHANGED <<kRow, kForced, kStale>>
    BY <1>6, AdmitEffect
  <2> QED BY <1>0, <1>9, <2>1, <2>2 DEF OneMoves
<1>7. ASSUME NEW h \in KHandlers, TouchUsage(h) PROVE ReadFresh' /\ DisabledStays'
  <2>1. /\ UNCHANGED <<kForced, kStale>> /\ OneMoves(h, KIdle)
        /\ \A j \in KKeys : kRow'[j].on = kRow[j].on /\ kRow'[j].rev = kRow[j].rev
    BY <1>7, TouchEffect
  <2> QED BY <1>0, <1>9, <2>1 DEF OneMoves
<1> QED BY <1>1, <1>2, <1>3, <1>4, <1>5, <1>6, <1>7 DEF KNext

\* Every step of the handlers keeps the invariant.
LEMMA KeyStep == ASSUME KeyInv, [KNext]_kVars PROVE KeyInv'
<1>1. CASE KNext
  <2>1. KeyShape' /\ KeyUsageExact'
    BY <1>1, KeyShapeStep DEF KeyInv
  <2>2. CountFresh' /\ KeysLimited'
    BY <1>1, <2>1, KeyCountStep DEF KeyInv
  <2>3. ServesWithin' /\ KeyOvershootOnlyBeside'
    BY <1>1, <2>1, KeyQuotaStep DEF KeyInv
  <2>4. ReadFresh' /\ DisabledStays'
    BY <1>1, <2>1, KeySwitchStep DEF KeyInv
  <2> QED BY <2>1, <2>2, <2>3, <2>4 DEF KeyInv
<1>2. CASE UNCHANGED kVars
  <2>1. UNCHANGED <<kRow, kReq, kSpent, kForced, kStale, kRaised, kNamed, kBeside, kCrowded>>
    BY <1>2 DEF kVars
  <2>2. Counted' \subseteq Counted /\ Hidden' \subseteq Hidden
    BY <2>1, NamesStay
  <2>3. CountFresh' /\ KeysLimited'
    BY <2>1, <2>2, CountsStay DEF KeyInv
  <2>4. KeyShape' /\ KeyUsageExact'
    BY <2>1 DEF KeyInv, KeyShape, KeyUsageExact
  <2>5. ServesWithin' /\ KeyOvershootOnlyBeside'
    BY <2>1 DEF KeyInv, ServesWithin, KeyOvershootOnlyBeside, Unbound
  <2>6. ReadFresh' /\ DisabledStays'
    BY <2>1 DEF KeyInv, ReadFresh, DisabledStays
  <2> QED BY <2>3, <2>4, <2>5, <2>6 DEF KeyInv
<1> QED BY <1>1, <1>2

\* No key satisfies the invariant.
LEMMA KeyStart == ASSUME KInit PROVE KeyInv
<1>1. /\ NoKey \in KRows /\ NoKey.state = "none" /\ NoKey.used = 0 /\ NoKey.limit = 0 /\ NoKey.reserved = FALSE
      /\ KIdle \in KRequests /\ KIdle.pc = "idle"
  BY DEF NoKey, KRows, KIdle, KRequests
<1>2. (\A k \in KKeys : kRow[k] = NoKey) /\ \A h \in KHandlers : kReq[h] = KIdle
  BY DEF KInit
<1>3. KeyShape /\ KeyUsageExact
  BY <1>1, <1>2 DEF KInit, KeyShape, KeyUsageExact
<1>4. Counted = {} /\ Hidden = {}
  BY <1>1, <1>2 DEF Counted, Hidden, Visible, Internal, LiveKey
<1>5. KeysLimited /\ CountFresh
  <2>1. Cardinality(Counted) = 0 /\ Cardinality(Hidden) = 0
    BY <1>4, FS_EmptySet
  <2> QED BY <1>1, <1>2, <2>1, ApiKeysAssumption DEF KeysLimited, CountFresh, Counted, Hidden
<1>6. ServesWithin /\ KeyOvershootOnlyBeside
  BY <1>1, <1>2 DEF ServesWithin, KeyOvershootOnlyBeside
<1>7. ReadFresh /\ DisabledStays
  BY <1>1, <1>2 DEF KInit, ReadFresh, DisabledStays
<1> QED BY <1>3, <1>5, <1>6, <1>7 DEF KeyInv

\* The invariant says what KeysSound says.
LEMMA KeyInvSound == KeyInv => KeysSound
BY DEF KeyInv, KeysSound

\* A key's usage is exact; without overlapping creations, the keys the user has
\* not given or taken the reserved name stay within the limit; a quota is
\* overshot only beside another request, after an edit or through the reserved
\* name; and a disabled key stays disabled, as KeysSound says (Create, Update,
\* Verify and TouchUsage of the API keys).
THEOREM KeysStaySound == KSpec => []KeysSound
BY KeyInvSound, KeyStart, KeyStep, PTL DEF KSpec

-----------------------------------------------------------------------------
(* The rate limiter.                                                       *)

\* What flows into the bucket of a key until time t.
Flow(t) == t * RRefill

Buckets == [tokens : Int, ts : Nat, expires : Int]
Asking == [pc : {"ask"}, left : {<<1>>, <<1, 1>>}, need : 0 .. 2, at : Nat]
Serving == [pc : {"serve"}, left : {<<>>}, need : 0 .. 2, at : {0}]
BeingServed == {h \in RHandlers : rReq[h].pc = "serve"}

\* A bucket: with the tokens still in it, what was granted is covered by what
\* has flowed in; a clock read in the past takes no more out than flows in
\* again; and what was granted was covered when the key was last written.
BucketCovers ==
    /\ rGranted + rBucket.tokens <= RCap + Flow(rBucket.ts)
    /\ Flow(rBucket.ts) <= rBucket.tokens + Flow(rNow)
    /\ rGranted <= RCap + Flow(rBucket.expires) - Flow(TTL)

\* Without a bucket the next script finds a full one, whenever its caller
\* has read the clock.
FullCovers ==
    /\ rGranted <= Flow(rNow)
    /\ \A h \in RHandlers : rReq[h].pc = "ask" => rGranted <= Flow(rReq[h].at)

\* The inductive invariant.
RateShape ==
    /\ rNow \in Nat /\ rGranted \in Nat /\ rSpare \in Int
    /\ rReq \in [RHandlers -> {RIdle} \cup Asking \cup Serving]
    /\ rBucket \in Buckets \cup {NoBucket}
RateInv ==
    /\ RateShape
    /\ rBucket # NoBucket => BucketCovers
    /\ rBucket = NoBucket => FullCovers
    /\ \A h \in RHandlers : rReq[h].pc = "ask" => rReq[h].at <= rNow /\ rNow - rReq[h].at <= RMaxDelay
    /\ Cardinality(BeingServed) <= rSpare

\* Arithmetic of a steady flow.
LEMMA FlowFacts ==
    /\ \A t \in Int : Flow(t) \in Int
    /\ \A s, t \in Int : s <= t => Flow(s) <= Flow(t)
    /\ \A s, t \in Int : Flow(t - s) = Flow(t) - Flow(s)
    /\ \A s, t \in Int : Flow(t + s) = Flow(t) + Flow(s)
    /\ Flow(0) = 0
<1>1. RRefill \in Nat
  BY RateLimitAssumption
<1>2. \A r \in Nat : /\ \A t \in Int : t * r \in Int
                     /\ \A s, t \in Int : s <= t => s * r <= t * r
                     /\ \A s, t \in Int : (t - s) * r = t * r - s * r
                     /\ \A s, t \in Int : (t + s) * r = t * r + s * r
                     /\ 0 * r = 0
  OBVIOUS
<1> QED BY <1>1, <1>2 DEF Flow

\* What Min of the script picks.
LEMMA MinOfTwo ==
    ASSUME NEW a \in Int, NEW b \in Int
    PROVE  Min({a, b}) = IF a <= b THEN a ELSE b
<1> DEFINE m == IF a <= b THEN a ELSE b
<1>1. m \in {a, b} /\ \A y \in {a, b} : m =< y
  OBVIOUS
<1>2. \A x \in {a, b} : (\A y \in {a, b} : x =< y) => x = m
  OBVIOUS
<1> HIDE DEF m
<1>3. Min({a, b}) = m
  BY <1>1, <1>2 DEF Min
<1> QED BY <1>3 DEF m

\* The key outlives the time to fill a bucket twice.
LEMMA TTLFills == TTL \in Nat /\ 2 * RCap <= Flow(TTL)
<1>1. ASSUME NEW c \in Nat \ {0}, NEW r \in Nat \ {0}
      PROVE  (c + r - 1) \div r \in Nat /\ c <= ((c + r - 1) \div r) * r
  <2> DEFINE n == c + r - 1
  <2>1. n \in Nat
    OBVIOUS
  <2> HIDE DEF n
  <2>2. n \div r \in Nat /\ n < (n \div r) * r + r
    BY <2>1
  <2> QED BY <2>2 DEF n
<1>2. ASSUME NEW m \in Nat, NEW r \in Nat PROVE (2 * m) * r = 2 * (m * r)
  OBVIOUS
<1> DEFINE m == (RCap + RRefill - 1) \div RRefill
<1>3. m \in Nat /\ RCap <= m * RRefill
  BY <1>1, RateLimitAssumption
<1>4. TTL = 2 * m
  BY DEF TTL
<1> HIDE DEF m
<1>5. (2 * m) * RRefill = 2 * (m * RRefill) /\ m * RRefill \in Int
  BY <1>2, <1>3, RateLimitAssumption
<1> QED BY <1>3, <1>4, <1>5, RateLimitAssumption DEF Flow

\* The script: whatever time its caller read, it leaves a bucket that covers
\* what was granted.
LEMMA ScriptCovers ==
    ASSUME RateInv, NEW now \in Nat, now <= rNow, NEW cost \in Nat,
           rBucket = NoBucket => rGranted <= Flow(now),
           NEW granted, granted = IF Script(now, cost).ok THEN rGranted + cost ELSE rGranted
    PROVE  LET b == Script(now, cost).bucket
           IN /\ Script(now, cost).ok \in BOOLEAN
              /\ b \in Buckets /\ b # NoBucket
              /\ granted \in Nat
              /\ granted + b.tokens <= RCap + Flow(b.ts)
              /\ Flow(b.ts) <= b.tokens + Flow(rNow)
              /\ granted <= RCap + Flow(b.expires) - Flow(TTL)
<1> DEFINE tokens == Refilled(now)
           b == Script(now, cost).bucket
           ok == Script(now, cost).ok
<1>1. rNow \in Nat /\ rGranted \in Nat /\ RCap \in Nat /\ TTL \in Nat
  BY TTLFills, RateLimitAssumption DEF RateInv, RateShape
<1>2. Flow(now) \in Int /\ Flow(rNow) \in Int /\ Flow(now) <= Flow(rNow) /\ Flow(now - now) = 0
  <2>1. now \in Int /\ rNow \in Int /\ now - now = 0
    BY <1>1
  <2> QED BY <2>1, FlowFacts
<1>3. /\ tokens \in Int
      /\ rGranted + tokens <= RCap + Flow(now)
      /\ Flow(now) <= tokens + Flow(rNow)
  <2>1. CASE rBucket = NoBucket
    <3>1. tokens = Min({RCap, RCap + (now - now) * RRefill})
      BY <2>1 DEF Refilled
    <3>2. (now - now) * RRefill = 0
      BY <1>2 DEF Flow
    <3>3. tokens = RCap
      BY <1>1, <3>1, <3>2, MinOfTwo
    <3> QED BY <1>1, <1>2, <2>1, <3>3
  <2>2. CASE rBucket # NoBucket
    <3>1. /\ rBucket.tokens \in Int /\ rBucket.ts \in Nat
          /\ rGranted + rBucket.tokens <= RCap + Flow(rBucket.ts)
          /\ Flow(rBucket.ts) <= rBucket.tokens + Flow(rNow)
      BY <2>2 DEF RateInv, RateShape, Buckets, BucketCovers
    <3>2. tokens = Min({RCap, rBucket.tokens + (now - rBucket.ts) * RRefill})
      BY <2>2 DEF Refilled
    <3>3. (now - rBucket.ts) * RRefill = Flow(now) - Flow(rBucket.ts) /\ Flow(rBucket.ts) \in Int
      <4>1. rBucket.ts \in Int /\ now \in Int
        BY <3>1
      <4>2. Flow(now - rBucket.ts) = Flow(now) - Flow(rBucket.ts) /\ Flow(rBucket.ts) \in Int
        BY <4>1, FlowFacts
      <4>3. (now - rBucket.ts) * RRefill = Flow(now - rBucket.ts)
        BY DEF Flow
      <4> QED BY <4>2, <4>3
    <3> DEFINE x == rBucket.tokens + (now - rBucket.ts) * RRefill
    <3>4. x = rBucket.tokens + Flow(now) - Flow(rBucket.ts) /\ x \in Int
      BY <1>2, <3>1, <3>3
    <3>5. tokens = Min({RCap, x})
      BY <3>2
    <3> HIDE DEF x
    <3>6. tokens = IF RCap <= x THEN RCap ELSE x
      BY <1>1, <3>4, <3>5, MinOfTwo
    <3> QED BY <1>1, <1>2, <3>1, <3>3, <3>4, <3>6
  <2> QED BY <2>1, <2>2
<1>4. /\ ok \in BOOLEAN /\ (ok <=> tokens >= cost)
      /\ b = [tokens |-> IF ok THEN tokens - cost ELSE tokens, ts |-> now, expires |-> rNow + TTL]
  <2>1. /\ ok = (tokens >= cost)
        /\ b = [tokens |-> IF ok THEN tokens - cost ELSE tokens, ts |-> now, expires |-> rNow + TTL]
    BY DEF Script
  <2> HIDE DEF tokens, b, ok
  <2>2. (tokens >= cost) \in BOOLEAN
    BY <1>3
  <2>3. ok \in BOOLEAN /\ (ok <=> tokens >= cost)
    BY <2>1, <2>2, Zenon
  <2> QED BY <2>1, <2>3
<1> HIDE DEF tokens, b, ok
<1>5. /\ b.tokens = (IF ok THEN tokens - cost ELSE tokens) /\ b.ts = now /\ b.expires = rNow + TTL
      /\ b \in Buckets /\ b # NoBucket /\ b.tokens \in Int
  BY <1>1, <1>3, <1>4 DEF Buckets, NoBucket
<1>6. Flow(b.expires) - Flow(TTL) = Flow(rNow)
  BY <1>1, <1>2, <1>5, FlowFacts
<1>7. ok => 0 <= b.tokens
  BY <1>3, <1>4, <1>5
<1>8. granted = IF ok THEN rGranted + cost ELSE rGranted
  BY DEF ok
<1>9. granted \in Nat /\ granted + b.tokens <= RCap + Flow(b.ts) /\ Flow(b.ts) <= b.tokens + Flow(rNow)
  BY <1>1, <1>2, <1>3, <1>5, <1>7, <1>8
<1>10. granted <= RCap + Flow(rNow)
  BY <1>1, <1>2, <1>5, <1>9
<1> QED BY <1>4, <1>5, <1>6, <1>9, <1>10 DEF b, ok

\* Requests that are being served, when one of them moves.
LEMMA ServedMoves ==
    ASSUME RateShape, NEW h \in RHandlers, NEW q, rReq' = [rReq EXCEPT ![h] = q]
    PROVE  /\ Cardinality(BeingServed) \in Nat
           /\ q.pc = "serve" /\ rReq[h].pc # "serve" =>
                 Cardinality(BeingServed') = Cardinality(BeingServed) + 1
           /\ q.pc # "serve" /\ rReq[h].pc = "serve" =>
                 Cardinality(BeingServed') = Cardinality(BeingServed) - 1
           /\ q.pc # "serve" /\ rReq[h].pc # "serve" =>
                 Cardinality(BeingServed') = Cardinality(BeingServed)
<1>1. IsFiniteSet(BeingServed)
  BY RateLimitAssumption, FS_Subset DEF BeingServed
<1>2. rReq'[h] = q /\ \A g \in RHandlers \ {h} : rReq'[g] = rReq[g]
  BY DEF RateShape
<1>3. q.pc = "serve" /\ rReq[h].pc # "serve" => BeingServed' = BeingServed \cup {h} /\ h \notin BeingServed
  BY <1>2 DEF BeingServed
<1>4. q.pc # "serve" /\ rReq[h].pc = "serve" => BeingServed' = BeingServed \ {h} /\ h \in BeingServed
  BY <1>2 DEF BeingServed
<1>5. q.pc # "serve" /\ rReq[h].pc # "serve" => BeingServed' = BeingServed
  BY <1>2 DEF BeingServed
<1>6. Cardinality(BeingServed) \in Nat
  BY <1>1, FS_CardinalityType
<1>7. h \notin BeingServed => Cardinality(BeingServed \cup {h}) = Cardinality(BeingServed) + 1
  BY <1>1, FS_AddElement
<1>8. h \in BeingServed => Cardinality(BeingServed \ {h}) = Cardinality(BeingServed) - 1
  BY <1>1, FS_RemoveElement
<1> QED BY <1>3, <1>4, <1>5, <1>6, <1>7, <1>8

\* A request that asks: its next question, or it is served.
LEMMA NextAskShape ==
    ASSUME RateShape, NEW q \in Asking
    PROVE  /\ Head(q.left) = 1
           /\ NextAsk(q) \in Asking \cup Serving
           /\ NextAsk(q).pc = "ask" => NextAsk(q).at = rNow
<1>1. /\ q.pc = "ask" /\ q.left \in {<<1>>, <<1, 1>>} /\ q.need \in 0 .. 2
      /\ q = [pc |-> q.pc, left |-> q.left, need |-> q.need, at |-> q.at]
  BY DEF Asking
<1>2. Head(q.left) = 1
  BY <1>1
<1>3. CASE q.left = <<1>>
  <2> DEFINE q1 == [q EXCEPT !.pc = "serve"]
             q2 == [q1 EXCEPT !.left = <<>>]
             q3 == [q2 EXCEPT !.at = 0]
  <2>1. q1 \in [pc : {"serve"}, left : {<<1>>, <<1, 1>>}, need : 0 .. 2, at : Nat]
    BY DEF Asking
  <2>2. NextAsk(q) = q3
    BY <1>3 DEF NextAsk
  <2> HIDE DEF q1
  <2>3. q2 \in [pc : {"serve"}, left : {<<>>}, need : 0 .. 2, at : Nat]
    BY <2>1
  <2> HIDE DEF q2
  <2>4. q3 \in [pc : {"serve"}, left : {<<>>}, need : 0 .. 2, at : {0}]
    BY <2>3
  <2> HIDE DEF q3
  <2> QED BY <1>2, <2>2, <2>4 DEF Serving
<1>4. CASE q.left = <<1, 1>>
  <2> DEFINE q1 == [q EXCEPT !.left = Tail(q.left)]
             q2 == [q1 EXCEPT !.at = rNow]
  <2>0. Tail(q.left) = <<1>> /\ rNow \in Nat
    BY <1>4 DEF RateShape
  <2>1. q1 \in Asking
    BY <2>0 DEF Asking
  <2>2. NextAsk(q) = q2
    BY <1>4 DEF NextAsk
  <2> HIDE DEF q1
  <2>3. q2 \in Asking /\ q2.at = rNow
    BY <2>0, <2>1 DEF Asking
  <2> HIDE DEF q2
  <2> QED BY <1>2, <2>2, <2>3
<1> QED BY <1>1, <1>3, <1>4

\* What is left to prove of a step of one handler.
LEMMA HandlerStep ==
    ASSUME RateInv, NEW h \in RHandlers, NEW q \in {RIdle} \cup Asking \cup Serving,
           rReq' = [rReq EXCEPT ![h] = q], rNow' = rNow,
           q.pc = "ask" => q.at = rNow,
           \/ UNCHANGED <<rBucket, rGranted>>
           \/ rBucket' \in Buckets /\ rBucket' # NoBucket /\ rGranted' \in Nat /\ BucketCovers',
           rSpare' \in Int,
           q.pc = "serve" /\ rReq[h].pc # "serve" => rSpare' >= rSpare + 1,
           q.pc # "serve" /\ rReq[h].pc = "serve" => rSpare' >= rSpare - 1,
           q.pc # "serve" /\ rReq[h].pc # "serve" => rSpare' >= rSpare,
           ~(q.pc = "serve" /\ rReq[h].pc = "serve")
    PROVE  RateInv'
<1>1. RateShape /\ rSpare \in Int /\ Cardinality(BeingServed) <= rSpare /\ rNow \in Nat
  BY DEF RateInv, RateShape
<1>2. rReq'[h] = q /\ \A g \in RHandlers \ {h} : rReq'[g] = rReq[g]
  BY <1>1 DEF RateShape
<1>3. RateShape'
  BY <1>1 DEF RateShape
<1>4. \A g \in RHandlers : rReq'[g].pc = "ask" => rReq'[g].at <= rNow' /\ rNow' - rReq'[g].at <= RMaxDelay
  <2>1. q.pc = "ask" => q.at <= rNow /\ rNow - q.at <= RMaxDelay
    BY <1>1, RateLimitAssumption
  <2> QED BY <1>2, <2>1 DEF RateInv
<1>5. Cardinality(BeingServed') <= rSpare'
  <2>1. /\ Cardinality(BeingServed) \in Nat
        /\ q.pc = "serve" /\ rReq[h].pc # "serve" => Cardinality(BeingServed') = Cardinality(BeingServed) + 1
        /\ q.pc # "serve" /\ rReq[h].pc = "serve" => Cardinality(BeingServed') = Cardinality(BeingServed) - 1
        /\ q.pc # "serve" /\ rReq[h].pc # "serve" => Cardinality(BeingServed') = Cardinality(BeingServed)
    BY <1>1, ServedMoves
  <2> DEFINE n == Cardinality(BeingServed)
             m == Cardinality(BeingServed')
  <2>2. CASE q.pc = "serve" /\ rReq[h].pc # "serve"
    <3>1. m = n + 1 /\ rSpare' >= rSpare + 1 /\ n \in Nat /\ n <= rSpare
      BY <1>1, <2>1, <2>2
    <3> HIDE DEF m, n
    <3>2. m <= rSpare'
      BY <1>1, <3>1
    <3> QED BY <3>2 DEF m
  <2>3. CASE q.pc # "serve" /\ rReq[h].pc = "serve"
    <3>1. m = n - 1 /\ rSpare' >= rSpare - 1 /\ n \in Nat /\ n <= rSpare
      BY <1>1, <2>1, <2>3
    <3> HIDE DEF m, n
    <3>2. m <= rSpare'
      BY <1>1, <3>1
    <3> QED BY <3>2 DEF m
  <2>4. CASE q.pc # "serve" /\ rReq[h].pc # "serve"
    <3>1. m = n /\ rSpare' >= rSpare /\ n \in Nat /\ n <= rSpare
      BY <1>1, <2>1, <2>4
    <3> HIDE DEF m, n
    <3>2. m <= rSpare'
      BY <1>1, <3>1
    <3> QED BY <3>2 DEF m
  <2> QED BY <2>2, <2>3, <2>4
<1>6. (rBucket # NoBucket => BucketCovers)'
  BY DEF RateInv, BucketCovers
<1>7. (rBucket = NoBucket => FullCovers)'
  <2> SUFFICES ASSUME rBucket' = NoBucket PROVE FullCovers'
    OBVIOUS
  <2>1. rBucket = NoBucket /\ rGranted' = rGranted /\ FullCovers
    BY DEF RateInv
  <2>2. q.pc = "ask" => rGranted <= Flow(q.at)
    BY <2>1 DEF FullCovers
  <2> QED BY <1>2, <2>1, <2>2 DEF FullCovers
<1> QED BY <1>3, <1>4, <1>5, <1>6, <1>7 DEF RateInv, BeingServed

\* Every step of the callers, of the clock and of Redis keeps the invariant.
LEMMA RateStep == ASSUME RateInv, [RNext]_rVars PROVE RateInv'
<1>0. /\ RateShape /\ rNow \in Nat /\ rGranted \in Nat /\ rSpare \in Int
      /\ rReq \in [RHandlers -> {RIdle} \cup Asking \cup Serving]
      /\ RIdle.pc = "idle" /\ RIdle \notin Asking /\ RIdle \notin Serving
  BY DEF RateInv, RateShape, RIdle, Asking, Serving
<1>1. ASSUME NEW h \in RHandlers, NEW k \in Kinds, Allow(h, k) PROVE RateInv'
  <2> DEFINE q == [pc |-> "ask", left |-> k.ask, need |-> k.need, at |-> rNow]
  <2>1. q \in Asking /\ q.pc = "ask" /\ q.at = rNow
    BY <1>0 DEF Kinds, Asking
  <2>2. /\ rReq[h].pc = "idle" /\ rReq' = [rReq EXCEPT ![h] = q]
        /\ UNCHANGED <<rBucket, rNow, rGranted, rSpare>>
    BY <1>0, <1>1 DEF Allow
  <2> HIDE DEF q
  <2>3. rSpare' \in Int /\ rSpare' >= rSpare
    BY <1>0, <2>2
  <2> QED BY <2>1, <2>2, <2>3, HandlerStep
<1>2. ASSUME NEW h \in RHandlers, Asked(h) PROVE RateInv'
  <2> DEFINE q == rReq[h]
             r == Script(q.at, Head(q.left))
             next == IF r.ok THEN NextAsk(q) ELSE RIdle
  <2>1. q \in Asking /\ q.pc = "ask"
    BY <1>0, <1>2 DEF Asked, Serving
  <2>2. /\ Head(q.left) = 1 /\ NextAsk(q) \in Asking \cup Serving
        /\ NextAsk(q).pc = "ask" => NextAsk(q).at = rNow
    BY <1>0, <2>1, NextAskShape
  <2>3. /\ q.at \in Nat /\ q.at <= rNow
        /\ rBucket = NoBucket => rGranted <= Flow(q.at)
    BY <2>1 DEF RateInv, FullCovers, Asking
  <2>4. /\ rBucket' = r.bucket /\ rReq' = [rReq EXCEPT ![h] = next] /\ rNow' = rNow
        /\ rGranted' = IF r.ok THEN rGranted + 1 ELSE rGranted
        /\ rSpare' = IF r.ok THEN rSpare + 1 ELSE rSpare
    BY <1>2, <2>2 DEF Asked
  <2>5. /\ r.ok \in BOOLEAN /\ r.bucket \in Buckets /\ r.bucket # NoBucket
        /\ rGranted' \in Nat
        /\ rGranted' + r.bucket.tokens <= RCap + Flow(r.bucket.ts)
        /\ Flow(r.bucket.ts) <= r.bucket.tokens + Flow(rNow)
        /\ rGranted' <= RCap + Flow(r.bucket.expires) - Flow(TTL)
    <3> DEFINE now == q.at
               cost == Head(q.left)
    <3>1. now \in Nat /\ now <= rNow /\ cost \in Nat /\ (rBucket = NoBucket => rGranted <= Flow(now))
      BY <2>2, <2>3
    <3>2. rGranted' = IF Script(now, cost).ok THEN rGranted + cost ELSE rGranted
      BY <2>2, <2>4
    <3> HIDE DEF now, cost
    <3>3. /\ Script(now, cost).ok \in BOOLEAN
          /\ Script(now, cost).bucket \in Buckets /\ Script(now, cost).bucket # NoBucket
          /\ rGranted' \in Nat
          /\ rGranted' + Script(now, cost).bucket.tokens <= RCap + Flow(Script(now, cost).bucket.ts)
          /\ Flow(Script(now, cost).bucket.ts) <= Script(now, cost).bucket.tokens + Flow(rNow)
          /\ rGranted' <= RCap + Flow(Script(now, cost).bucket.expires) - Flow(TTL)
      BY <3>1, <3>2, ScriptCovers
    <3> QED BY <3>3 DEF now, cost
  <2>6. next \in {RIdle} \cup Asking \cup Serving /\ (next.pc = "ask" => next.at = rNow)
    BY <1>0, <2>2
  <2>7. BucketCovers'
    BY <2>4, <2>5 DEF BucketCovers, TTL
  <2>8. /\ rSpare' \in Int
        /\ next.pc = "serve" => rSpare' >= rSpare + 1
        /\ rSpare' >= rSpare
    BY <1>0, <2>4, <2>5
  <2> HIDE DEF next, r
  <2> QED BY <2>1, <2>4, <2>5, <2>6, <2>7, <2>8, HandlerStep
<1>3. ASSUME NEW h \in RHandlers, AskFails(h) PROVE RateInv'
  <2> DEFINE q == rReq[h]
             next == NextAsk(q)
  <2>1. q \in Asking /\ q.pc = "ask"
    BY <1>0, <1>3 DEF AskFails, Serving
  <2>2. Head(q.left) = 1 /\ next \in Asking \cup Serving /\ (next.pc = "ask" => next.at = rNow)
    BY <1>0, <2>1, NextAskShape
  <2>3. rReq' = [rReq EXCEPT ![h] = next] /\ rSpare' = rSpare + 1 /\ UNCHANGED <<rBucket, rNow, rGranted>>
    BY <1>3, <2>2 DEF AskFails
  <2> HIDE DEF next
  <2>4. rSpare' \in Int /\ rSpare' >= rSpare + 1 /\ rSpare' >= rSpare
    BY <1>0, <2>3
  <2> QED BY <2>1, <2>2, <2>3, <2>4, HandlerStep
<1>4. ASSUME NEW h \in RHandlers, Served(h) PROVE RateInv'
  <2> DEFINE q == rReq[h]
             d == Difference(q.need)
             r == Script(rNow, d)
  <2>1. q \in Serving /\ q.pc = "serve" /\ q.need \in 0 .. 2
    BY <1>0, <1>4 DEF Served, Serving, Asking
  <2>2. d \in Nat /\ d - q.need >= -1 /\ d - q.need \in Int
    BY <2>1 DEF Difference
  <2>3. rReq' = [rReq EXCEPT ![h] = RIdle] /\ rNow' = rNow /\ rSpare' = rSpare + d - q.need
    BY <1>4 DEF Served
  <2>4. rSpare' \in Int /\ rSpare' >= rSpare - 1
    BY <1>0, <2>1, <2>2, <2>3
  <2>5. CASE d = 0
    <3>1. UNCHANGED <<rBucket, rGranted>>
      BY <1>4, <2>5 DEF Served
    <3> QED BY <1>0, <2>1, <2>3, <2>4, <3>1, HandlerStep
  <2>6. CASE d # 0
    <3>1. rBucket' = r.bucket /\ rGranted' = IF r.ok THEN rGranted + d ELSE rGranted
      BY <1>4, <2>6 DEF Served
    <3>2. rBucket = NoBucket => rGranted <= Flow(rNow)
      BY DEF RateInv, FullCovers
    <3> HIDE DEF d
    <3>3. /\ r.bucket \in Buckets /\ r.bucket # NoBucket /\ rGranted' \in Nat
          /\ rGranted' + r.bucket.tokens <= RCap + Flow(r.bucket.ts)
          /\ Flow(r.bucket.ts) <= r.bucket.tokens + Flow(rNow)
          /\ rGranted' <= RCap + Flow(r.bucket.expires) - Flow(TTL)
      BY <1>0, <2>2, <3>1, <3>2, ScriptCovers
    <3> HIDE DEF r
    <3>4. BucketCovers' /\ rBucket' \in Buckets /\ rBucket' # NoBucket
      BY <2>3, <3>1, <3>3 DEF BucketCovers, TTL
    <3> QED BY <1>0, <2>1, <2>3, <2>4, <3>3, <3>4, HandlerStep
  <2> QED BY <2>5, <2>6
<1>5. CASE RTick
  <2>1. /\ rNow' = rNow + 1 /\ UNCHANGED <<rReq, rGranted, rSpare>>
        /\ rBucket' = IF rBucket # NoBucket /\ rBucket.expires <= rNow + 1 THEN NoBucket ELSE rBucket
        /\ \A h \in RHandlers : rReq[h].pc = "ask" => rNow - rReq[h].at < RMaxDelay
    BY <1>5 DEF RTick
  <2>2. RateShape' /\ BeingServed' = BeingServed
    BY <1>0, <2>1 DEF RateShape, BeingServed
  <2>3. \A h \in RHandlers : rReq[h].pc = "ask" => rReq[h].at \in Nat /\ rReq[h].at <= rNow
    BY <1>0 DEF RateInv, Asking, Serving
  <2>4. \A h \in RHandlers : rReq'[h].pc = "ask" => rReq'[h].at <= rNow' /\ rNow' - rReq'[h].at <= RMaxDelay
    BY <1>0, <2>1, <2>3, RateLimitAssumption
  <2>5. Flow(rNow) <= Flow(rNow') /\ Flow(rNow) \in Int /\ Flow(rNow') \in Int
    <3>1. rNow \in Int /\ rNow + 1 \in Int /\ rNow <= rNow + 1
      BY <1>0
    <3> QED BY <2>1, <3>1, FlowFacts
  <2>6. (rBucket # NoBucket => BucketCovers)'
    <3> SUFFICES ASSUME rBucket' # NoBucket PROVE BucketCovers'
      OBVIOUS
    <3>1. rBucket' = rBucket /\ rBucket # NoBucket /\ BucketCovers
      BY <2>1 DEF RateInv
    <3>2. rBucket.tokens \in Int /\ rBucket.ts \in Int
      BY <1>0, <3>1 DEF RateShape, Buckets
    <3>3. Flow(rBucket.ts) \in Int
      BY <3>2, FlowFacts
    <3>4. Flow(rBucket.ts) <= rBucket.tokens + Flow(rNow')
      BY <2>5, <3>1, <3>2, <3>3 DEF BucketCovers
    <3> QED BY <2>1, <3>1, <3>4 DEF BucketCovers, TTL
  <2>7. (rBucket = NoBucket => FullCovers)'
    <3> SUFFICES ASSUME rBucket' = NoBucket PROVE FullCovers'
      OBVIOUS
    <3>1. CASE rBucket = NoBucket
      BY <1>0, <2>1, <2>5, <3>1 DEF RateInv, FullCovers
    <3>2. CASE rBucket # NoBucket
      <4>1. rBucket.expires <= rNow + 1 /\ rBucket.expires \in Int
        BY <1>0, <2>1, <3>2 DEF RateShape, Buckets
      <4>2. Flow(rBucket.expires) <= Flow(rNow') /\ Flow(rBucket.expires) \in Int
        <5>1. rNow' \in Int
          BY <1>0, <2>1
        <5> QED BY <2>1, <4>1, <5>1, FlowFacts
      <4>3. rGranted <= RCap + Flow(rBucket.expires) - Flow(TTL)
        BY <3>2 DEF RateInv, BucketCovers
      <4>4. 2 * RCap <= Flow(TTL) /\ Flow(TTL) \in Int /\ RCap \in Nat
        <5>1. TTL \in Int
          BY TTLFills
        <5> QED BY <5>1, TTLFills, FlowFacts, RateLimitAssumption
      <4>5. rGranted + RCap <= Flow(rNow')
        BY <1>0, <2>5, <4>2, <4>3, <4>4
      <4>6. ASSUME NEW h \in RHandlers, rReq[h].pc = "ask" PROVE rGranted <= Flow(rReq[h].at)
        <5>1. /\ rReq[h].at \in Int /\ RMaxDelay \in Int /\ rNow' \in Int /\ rNow' - rReq[h].at \in Int
              /\ rNow' - rReq[h].at <= RMaxDelay
          BY <1>0, <2>1, <2>3, <2>4, <4>6, RateLimitAssumption
        <5>2. /\ Flow(rNow' - rReq[h].at) <= Flow(RMaxDelay)
              /\ Flow(rNow' - rReq[h].at) = Flow(rNow') - Flow(rReq[h].at)
              /\ Flow(rReq[h].at) \in Int /\ Flow(RMaxDelay) \in Int
          BY <5>1, FlowFacts
        <5>3. Flow(RMaxDelay) <= RCap
          BY RateLimitAssumption DEF Flow
        <5> QED BY <1>0, <2>5, <4>4, <4>5, <5>2, <5>3
      <4>7. rGranted <= Flow(rNow')
        BY <1>0, <2>5, <4>4, <4>5
      <4> QED BY <2>1, <4>6, <4>7 DEF FullCovers
    <3> QED BY <3>1, <3>2
  <2>8. Cardinality(BeingServed)' <= rSpare'
    BY <2>1, <2>2 DEF RateInv
  <2> QED BY <2>2, <2>4, <2>6, <2>7, <2>8 DEF RateInv
<1>6. CASE UNCHANGED rVars
  BY <1>6 DEF rVars, RateInv, RateShape, BucketCovers, FullCovers, BeingServed, TTL
<1> QED BY <1>1, <1>2, <1>3, <1>4, <1>5, <1>6 DEF RNext

\* No bucket and nothing granted satisfies the invariant.
LEMMA RateStart == ASSUME RInit PROVE RateInv
<1>1. RateShape /\ rBucket = NoBucket /\ rGranted = 0 /\ rNow = 0 /\ rSpare = 0
  BY DEF RInit, RateShape
<1>2. \A h \in RHandlers : rReq[h].pc = "idle"
  BY DEF RInit, RIdle
<1>3. BeingServed = {}
  BY <1>2 DEF BeingServed
<1>4. Cardinality(BeingServed) = 0
  BY <1>3, FS_EmptySet
<1>5. FullCovers
  <2>1. Flow(rNow) = 0
    BY <1>1, FlowFacts
  <2> QED BY <1>1, <1>2, <2>1 DEF FullCovers
<1> QED BY <1>1, <1>2, <1>4, <1>5 DEF RateInv

\* The invariant bounds what was granted, and what was granted covers who is
\* served.
LEMMA RateInvBounds == ASSUME RateInv PROVE RateBounded
<1>1. rGranted \in Nat /\ rNow \in Int /\ RCap \in Nat /\ rSpare \in Int
  BY RateLimitAssumption DEF RateInv, RateShape
<1>2. Flow(rNow) \in Int /\ RRefill * rNow = Flow(rNow)
  BY <1>1, FlowFacts, RateLimitAssumption DEF Flow
<1>3. rGranted <= RCap + Flow(rNow)
  <2>1. CASE rBucket = NoBucket
    BY <1>1, <1>2, <2>1 DEF RateInv, FullCovers
  <2>2. CASE rBucket # NoBucket
    <3>1. rBucket.tokens \in Int /\ rBucket.ts \in Int
      BY <2>2 DEF RateInv, RateShape, Buckets
    <3>2. Flow(rBucket.ts) \in Int
      BY <3>1, FlowFacts
    <3> QED BY <1>1, <1>2, <2>2, <3>1, <3>2 DEF RateInv, BucketCovers
  <2> QED BY <2>1, <2>2
<1>4. IsFiniteSet(BeingServed)
  BY RateLimitAssumption, FS_Subset DEF BeingServed
<1>5. Cardinality(BeingServed) \in Nat /\ Cardinality(BeingServed) <= rSpare
  BY <1>4, FS_CardinalityType DEF RateInv
<1>6. rSpare >= 0
  BY <1>1, <1>5
<1> QED BY <1>2, <1>3, <1>6 DEF RateBounded

\* With clocks that reach Redis up to RMaxDelay late, and whenever the key
\* expires, the script grants no more than a full bucket and what has flowed
\* in, and every token in use was taken before (AllowRPM, AllowTPM, AdjustTPM).
THEOREM RateStaysBounded == RSpec => []RateBounded
BY RateStart, RateStep, RateInvBounds, PTL DEF RSpec

-----------------------------------------------------------------------------
(* The usage log.                                                          *)

\* Rows in the order of writing.
Increasing(s) == \A i, j \in DOMAIN s : i < j => s[i] < s[j]
Below(S, T) == \A x \in S, y \in T : x < y

\* The inductive invariant: every row written is in one place, rows move from
\* the channel to the batch to the table in order, and what the goroutine
\* leaves behind came after Close.
UsageInv ==
    /\ uNext \in Nat /\ uPc \in {"run", "drain", "done"}
    /\ uChan \in Seq(Nat) /\ uBatch \in Seq(Nat) /\ uTable \in Seq(Nat)
    /\ 0 .. uNext - 1 = ToSet(uTable) \cup ToSet(uBatch) \cup ToSet(uChan) \cup uLost
    /\ (ToSet(uBatch) \cup ToSet(uChan)) \cap uLost = {}
    /\ ToSet(uTable) \cap uLost = uUnanswered
    /\ Increasing(uTable) /\ Increasing(uBatch) /\ Increasing(uChan)
    /\ Below(ToSet(uTable), ToSet(uBatch) \cup ToSet(uChan))
    /\ Below(ToSet(uBatch), ToSet(uChan))
    /\ uPc = "done" => uBatch = <<>> /\ ToSet(uChan) \subseteq uLate

\* Nothing is in the empty sequence.
LEMMA EmptySeqFacts == ToSet(<<>>) = {} /\ Increasing(<<>>) /\ <<>> \in Seq(Nat)
<1>1. DOMAIN <<>> = {}
  OBVIOUS
<1> QED BY <1>1 DEF ToSet, Increasing

\* A row at the end.
LEMMA AppendFacts ==
    ASSUME NEW s \in Seq(Nat), NEW x \in Nat
    PROVE  /\ Append(s, x) \in Seq(Nat)
           /\ ToSet(Append(s, x)) = ToSet(s) \cup {x}
           /\ Increasing(s) /\ Below(ToSet(s), {x}) => Increasing(Append(s, x))
<1> DEFINE n == Len(s)
           t == Append(s, x)
<1>1. n \in Nat /\ DOMAIN s = 1 .. n /\ \A i \in 1 .. n : s[i] \in Nat
  OBVIOUS
<1>2. t \in Seq(Nat) /\ Len(t) = n + 1 /\ t[n + 1] = x /\ \A i \in 1 .. n : t[i] = s[i]
  OBVIOUS
<1>3. DOMAIN t = 1 .. n + 1
  BY <1>2
<1> HIDE DEF n, t
<1>4. ToSet(t) = ToSet(s) \cup {x}
  BY <1>1, <1>2, <1>3 DEF ToSet
<1>5. ASSUME Increasing(s), Below(ToSet(s), {x}) PROVE Increasing(t)
  <2>1. \A i \in 1 .. n : s[i] < x
    BY <1>1, <1>5 DEF Below, ToSet
  <2> QED BY <1>1, <1>2, <1>3, <1>5, <2>1 DEF Increasing
<1> QED BY <1>2, <1>4, <1>5 DEF t

\* A batch at the end.
LEMMA ConcatFacts ==
    ASSUME NEW s \in Seq(Nat), NEW t \in Seq(Nat)
    PROVE  /\ s \o t \in Seq(Nat)
           /\ ToSet(s \o t) = ToSet(s) \cup ToSet(t)
           /\ Increasing(s) /\ Increasing(t) /\ Below(ToSet(s), ToSet(t)) => Increasing(s \o t)
<1> DEFINE n == Len(s)
           m == Len(t)
           u == s \o t
<1>1. /\ n \in Nat /\ DOMAIN s = 1 .. n /\ \A i \in 1 .. n : s[i] \in Nat
      /\ m \in Nat /\ DOMAIN t = 1 .. m /\ \A i \in 1 .. m : t[i] \in Nat
  OBVIOUS
<1>2. /\ u \in Seq(Nat) /\ Len(u) = n + m
      /\ \A i \in 1 .. n + m : u[i] = IF i <= n THEN s[i] ELSE t[i - n]
  BY ConcatProperties
<1>3. DOMAIN u = 1 .. n + m
  BY <1>2
<1> HIDE DEF n, m, u
<1>4. ToSet(u) = ToSet(s) \cup ToSet(t)
  <2>1. \A i \in 1 .. n + m : (i <= n => i \in 1 .. n) /\ (~(i <= n) => i - n \in 1 .. m)
    BY <1>1
  <2>2. ToSet(u) \subseteq ToSet(s) \cup ToSet(t)
    BY <1>1, <1>2, <1>3, <2>1 DEF ToSet
  <2>3. ASSUME NEW i \in 1 .. n PROVE s[i] \in ToSet(u)
    <3>1. i \in 1 .. n + m /\ i <= n
      BY <1>1
    <3> QED BY <1>2, <1>3, <3>1 DEF ToSet
  <2>4. ASSUME NEW i \in 1 .. m PROVE t[i] \in ToSet(u)
    <3>1. i + n \in 1 .. n + m /\ ~(i + n <= n) /\ (i + n) - n = i
      BY <1>1
    <3>2. u[i + n] = t[i]
      BY <1>2, <3>1
    <3> QED BY <1>3, <3>1, <3>2 DEF ToSet
  <2> QED BY <1>1, <2>2, <2>3, <2>4 DEF ToSet
<1>5. ASSUME Increasing(s), Increasing(t), Below(ToSet(s), ToSet(t)) PROVE Increasing(u)
  <2> SUFFICES ASSUME NEW i \in 1 .. n + m, NEW j \in 1 .. n + m, i < j PROVE u[i] < u[j]
    BY <1>3 DEF Increasing
  <2>1. CASE j <= n
    <3>1. i \in 1 .. n /\ j \in 1 .. n /\ i <= n
      BY <1>1, <2>1
    <3> QED BY <1>1, <1>2, <1>5, <2>1, <3>1 DEF Increasing
  <2>2. CASE ~(j <= n) /\ i <= n
    <3>1. i \in 1 .. n /\ j - n \in 1 .. m
      BY <1>1, <2>2
    <3>2. s[i] < t[j - n]
      BY <1>1, <1>5, <3>1 DEF Below, ToSet
    <3> QED BY <1>2, <2>2, <3>2
  <2>3. CASE ~(j <= n) /\ ~(i <= n)
    <3>1. i - n \in 1 .. m /\ j - n \in 1 .. m /\ i - n < j - n
      BY <1>1, <2>3
    <3>2. t[i - n] < t[j - n]
      BY <1>1, <1>5, <3>1 DEF Increasing
    <3> QED BY <1>2, <2>3, <3>2
  <2> QED BY <2>1, <2>2, <2>3
<1> QED BY <1>2, <1>4, <1>5 DEF u

\* The first row is taken.
LEMMA TailFacts ==
    ASSUME NEW s \in Seq(Nat), s # <<>>
    PROVE  /\ Head(s) \in Nat /\ Tail(s) \in Seq(Nat)
           /\ ToSet(s) = {Head(s)} \cup ToSet(Tail(s))
           /\ Increasing(s) => Increasing(Tail(s)) /\ Below({Head(s)}, ToSet(Tail(s)))
<1> DEFINE n == Len(s)
           t == Tail(s)
<1>1. /\ n \in Nat \ {0} /\ DOMAIN s = 1 .. n /\ (\A i \in 1 .. n : s[i] \in Nat) /\ Head(s) = s[1]
  OBVIOUS
<1>2. t \in Seq(Nat) /\ Len(t) = n - 1 /\ \A i \in 1 .. n - 1 : t[i] = s[i + 1]
  OBVIOUS
<1>3. DOMAIN t = 1 .. n - 1
  BY <1>2
<1> HIDE DEF n, t
<1>4. ToSet(s) = {Head(s)} \cup ToSet(t)
  <2>1. \A i \in 1 .. n : i = 1 \/ (i - 1 \in 1 .. n - 1 /\ (i - 1) + 1 = i)
    BY <1>1
  <2>2. \A i \in 1 .. n - 1 : i + 1 \in 1 .. n
    BY <1>1
  <2>3. 1 \in 1 .. n
    BY <1>1
  <2>4. ToSet(s) \subseteq {Head(s)} \cup ToSet(t)
    <3> SUFFICES ASSUME NEW i \in 1 .. n PROVE s[i] \in {Head(s)} \cup ToSet(t)
      BY <1>1 DEF ToSet
    <3>1. CASE i = 1
      BY <1>1, <3>1
    <3>2. CASE i # 1
      <4>1. i - 1 \in 1 .. n - 1 /\ t[i - 1] = s[i]
        BY <1>2, <2>1, <3>2
      <4> QED BY <1>3, <4>1 DEF ToSet
    <3> QED BY <3>1, <3>2
  <2>5. {Head(s)} \cup ToSet(t) \subseteq ToSet(s)
    BY <1>1, <1>2, <1>3, <2>2, <2>3 DEF ToSet
  <2> QED BY <2>4, <2>5
<1>5. ASSUME Increasing(s) PROVE Increasing(t) /\ Below({Head(s)}, ToSet(t))
  <2>1. \A i \in 1 .. n - 1 : i + 1 \in 1 .. n /\ 1 < i + 1 /\ 1 \in 1 .. n
    BY <1>1
  <2>2. \A i, j \in 1 .. n - 1 : i < j => i + 1 < j + 1
    OBVIOUS
  <2>3. Increasing(t)
    BY <1>1, <1>2, <1>3, <1>5, <2>1, <2>2 DEF Increasing
  <2>4. \A i \in 1 .. n - 1 : s[1] < t[i]
    BY <1>1, <1>2, <1>5, <2>1 DEF Increasing
  <2> QED BY <1>1, <1>3, <2>3, <2>4 DEF Below, ToSet
<1> QED BY <1>1, <1>2, <1>4, <1>5 DEF t

\* Rows below others are not among them.
LEMMA BelowApart ==
    ASSUME NEW S \in SUBSET Nat, NEW T, Below(S, T)
    PROVE  S \cap T = {}
<1> SUFFICES ASSUME NEW x \in S, x \in T PROVE FALSE
  OBVIOUS
<1>1. x < x /\ x \in Nat
  BY DEF Below
<1> QED BY <1>1

\* The goroutine gets rid of a batch: into the table, or into the log.
LEMMA FlushKeeps ==
    ASSUME UsageInv, NEW batch \in Seq(Nat), Flush(batch), UNCHANGED <<uNext, uLate>>,
           Increasing(batch), uChan' \in Seq(Nat), Increasing(uChan'),
           ToSet(batch) \cup ToSet(uChan') = ToSet(uBatch) \cup ToSet(uChan),
           Below(ToSet(batch), ToSet(uChan')),
           uPc' \in {"run", "drain", "done"}, uPc' = "done" => uChan' = <<>>
    PROVE  UsageInv'
<1> DEFINE T == ToSet(uTable)
           B == ToSet(batch)
           C == ToSet(uChan')
<1>1. /\ uNext \in Nat /\ uTable \in Seq(Nat) /\ Increasing(uTable)
      /\ 0 .. uNext - 1 = T \cup B \cup C \cup uLost
      /\ (B \cup C) \cap uLost = {} /\ T \cap uLost = uUnanswered
      /\ Below(T, B \cup C)
  BY DEF UsageInv
<1>2. Below(T, B) /\ Below(T, C) /\ Below(B, C)
  BY <1>1 DEF Below
<1>3. T \subseteq Nat /\ B \subseteq Nat /\ C \subseteq Nat
  BY <1>1
<1>4. uBatch' = <<>> /\ ToSet(uBatch') = {} /\ uBatch' \in Seq(Nat) /\ Increasing(uBatch')
  BY EmptySeqFacts DEF Flush
<1>5. uPc' = "done" => uBatch' = <<>> /\ ToSet(uChan') \subseteq uLate'
  BY <1>4, EmptySeqFacts
<1>6. T \cap B = {} /\ B \cap C = {} /\ T \cap C = {}
  BY <1>2, <1>3, BelowApart
<1>7. /\ Below(T \cup B, {} \cup C) /\ Below(T, {} \cup C) /\ Below({}, C)
      /\ uTable' = uTable \o batch =>
            uTable' \in Seq(Nat) /\ ToSet(uTable') = T \cup B /\ Increasing(uTable')
  <2>1. Below(T \cup B, {} \cup C) /\ Below(T, {} \cup C) /\ Below({}, C)
    BY <1>2 DEF Below
  <2>2. /\ uTable \o batch \in Seq(Nat) /\ ToSet(uTable \o batch) = T \cup B
        /\ Increasing(uTable \o batch)
    BY <1>1, <1>2, ConcatFacts
  <2> HIDE DEF T, B, C
  <2> QED BY <2>1, <2>2
<1>8. CASE uTable' = uTable \o batch /\ UNCHANGED <<uLost, uUnanswered>>
  <2>1. /\ (T \cup B) \cap uLost' = uUnanswered' /\ ({} \cup C) \cap uLost' = {}
        /\ 0 .. uNext - 1 = (T \cup B) \cup {} \cup C \cup uLost'
    BY <1>1, <1>8
  <2> HIDE DEF T, B
  <2> QED BY <1>1, <1>4, <1>5, <1>7, <1>8, <2>1 DEF UsageInv
<1>9. CASE uLost' = uLost \cup B /\ UNCHANGED <<uTable, uUnanswered>>
  <2>1. /\ T \cap uLost' = uUnanswered' /\ ({} \cup C) \cap uLost' = {}
        /\ 0 .. uNext - 1 = T \cup {} \cup C \cup uLost'
    BY <1>1, <1>6, <1>9
  <2> HIDE DEF B
  <2> QED BY <1>1, <1>4, <1>5, <1>7, <1>9, <2>1 DEF UsageInv
<1>10. CASE uTable' = uTable \o batch /\ uLost' = uLost \cup B /\ uUnanswered' = uUnanswered \cup B
  <2>1. /\ (T \cup B) \cap uLost' = uUnanswered' /\ ({} \cup C) \cap uLost' = {}
        /\ 0 .. uNext - 1 = (T \cup B) \cup {} \cup C \cup uLost'
    BY <1>1, <1>6, <1>10
  <2> HIDE DEF T, B
  <2> QED BY <1>1, <1>4, <1>5, <1>7, <1>10, <2>1 DEF UsageInv
<1> QED BY <1>8, <1>9, <1>10 DEF Flush

\* Every step of writers, goroutine and Close keeps the invariant.
LEMMA UsageStep == ASSUME UsageInv, [UNext]_uVars PROVE UsageInv'
<1>0. /\ uNext \in Nat /\ uPc \in {"run", "drain", "done"}
      /\ uChan \in Seq(Nat) /\ uBatch \in Seq(Nat) /\ uTable \in Seq(Nat)
      /\ Increasing(uTable) /\ Increasing(uBatch) /\ Increasing(uChan)
      /\ Below(ToSet(uTable), ToSet(uBatch) \cup ToSet(uChan)) /\ Below(ToSet(uBatch), ToSet(uChan))
      /\ 0 .. uNext - 1 = ToSet(uTable) \cup ToSet(uBatch) \cup ToSet(uChan) \cup uLost
      /\ (ToSet(uBatch) \cup ToSet(uChan)) \cap uLost = {}
      /\ ToSet(uTable) \cap uLost = uUnanswered
      /\ uPc = "done" => uBatch = <<>> /\ ToSet(uChan) \subseteq uLate
  BY DEF UsageInv
<1>1. CASE Write
  <2>1. /\ uNext' = uNext + 1 /\ UNCHANGED <<uBatch, uTable, uUnanswered, uPc>>
        /\ uPc = "run" => uLate' = uLate
        /\ uPc # "run" => uLate' = uLate \cup {uNext}
    BY <1>1 DEF Write
  <2>2. uNext' \in Nat /\ 0 .. uNext' - 1 = (0 .. uNext - 1) \cup {uNext} /\ uNext \notin 0 .. uNext - 1
    BY <1>0, <2>1
  <2>3. \A x \in 0 .. uNext - 1 : x < uNext
    BY <1>0
  <2>4. CASE uChan' = Append(uChan, uNext) /\ UNCHANGED uLost
    <3>1. Below(ToSet(uChan), {uNext}) /\ Below(ToSet(uBatch), {uNext}) /\ Below(ToSet(uTable), {uNext})
      BY <1>0, <2>3 DEF Below
    <3>2. /\ uChan' \in Seq(Nat) /\ ToSet(uChan') = ToSet(uChan) \cup {uNext} /\ Increasing(uChan')
      BY <1>0, <2>4, <3>1, AppendFacts
    <3>3. /\ Below(ToSet(uTable), ToSet(uBatch) \cup (ToSet(uChan) \cup {uNext}))
          /\ Below(ToSet(uBatch), ToSet(uChan) \cup {uNext})
      BY <1>0, <3>1 DEF Below
    <3>4. uNext \notin uLost
      BY <1>0, <2>2
    <3>5. /\ 0 .. uNext' - 1 = ToSet(uTable) \cup ToSet(uBatch) \cup ToSet(uChan') \cup uLost
          /\ (ToSet(uBatch) \cup ToSet(uChan')) \cap uLost = {}
      BY <1>0, <2>2, <3>2, <3>4
    <3>6. uPc = "done" => ToSet(uChan') \subseteq uLate'
      BY <1>0, <2>1, <3>2
    <3> QED BY <1>0, <2>1, <2>2, <2>4, <3>2, <3>3, <3>5, <3>6 DEF UsageInv
  <2>5. CASE uLost' = uLost \cup {uNext} /\ UNCHANGED uChan
    <3>1. uNext \notin ToSet(uTable) \cup ToSet(uBatch) \cup ToSet(uChan)
      BY <1>0, <2>2
    <3>2. /\ 0 .. uNext' - 1 = ToSet(uTable) \cup ToSet(uBatch) \cup ToSet(uChan) \cup uLost'
          /\ (ToSet(uBatch) \cup ToSet(uChan)) \cap uLost' = {}
          /\ ToSet(uTable) \cap uLost' = uUnanswered
      BY <1>0, <2>2, <2>5, <3>1
    <3> QED BY <1>0, <2>1, <2>2, <2>5, <3>2 DEF UsageInv
  <2> QED BY <1>1, <2>4, <2>5 DEF Write
<1>2. CASE Close
  BY <1>0, <1>2 DEF Close, UsageInv
<1>3. CASE Take
  <2> DEFINE x == Head(uChan)
             batch == Append(uBatch, x)
  <2>1. /\ uChan # <<>> /\ uChan' = Tail(uChan) /\ uPc \in {"run", "drain"}
        /\ UNCHANGED <<uNext, uLate, uPc>>
        /\ Flush(batch) \/ (uBatch' = batch /\ UNCHANGED <<uTable, uLost, uUnanswered>>)
    BY <1>3 DEF Take
  <2>2. /\ x \in Nat /\ uChan' \in Seq(Nat) /\ ToSet(uChan) = {x} \cup ToSet(uChan')
        /\ Increasing(uChan') /\ Below({x}, ToSet(uChan'))
    BY <1>0, <2>1, TailFacts
  <2> HIDE DEF x
  <2>3. Below(ToSet(uBatch), {x}) /\ Below(ToSet(uBatch), ToSet(uChan'))
    BY <1>0, <2>2 DEF Below
  <2>4. batch \in Seq(Nat) /\ ToSet(batch) = ToSet(uBatch) \cup {x} /\ Increasing(batch)
    BY <1>0, <2>2, <2>3, AppendFacts
  <2> HIDE DEF batch
  <2>5. /\ Below(ToSet(batch), ToSet(uChan'))
        /\ ToSet(batch) \cup ToSet(uChan') = ToSet(uBatch) \cup ToSet(uChan)
    BY <2>2, <2>3, <2>4 DEF Below
  <2>6. CASE Flush(batch)
    BY <2>1, <2>2, <2>4, <2>5, <2>6, FlushKeeps
  <2>7. CASE uBatch' = batch /\ UNCHANGED <<uTable, uLost, uUnanswered>>
    BY <1>0, <2>1, <2>2, <2>4, <2>5, <2>7 DEF UsageInv
  <2> QED BY <2>1, <2>6, <2>7
<1>4. CASE TickFlush \/ Drained
  <2>1. /\ Flush(uBatch) /\ UNCHANGED <<uNext, uChan, uLate>>
        /\ uPc' \in {"run", "drain", "done"} /\ (uPc' = "done" => uChan' = <<>>)
    BY <1>4 DEF TickFlush, Drained
  <2> QED BY <1>0, <2>1, FlushKeeps
<1>5. CASE UNCHANGED uVars
  BY <1>5 DEF uVars, UsageInv
<1> QED BY <1>1, <1>2, <1>3, <1>4, <1>5 DEF UNext, ULoop

\* An empty log satisfies the invariant.
LEMMA UsageStart == ASSUME UInit PROVE UsageInv
<1>1. uNext = 0 /\ 0 .. 0 - 1 = {}
  BY DEF UInit
<1> QED BY <1>1, EmptySeqFacts DEF UInit, UsageInv, Below

\* The invariant accounts for every row.
LEMMA UsageInvAccounts == ASSUME UsageInv PROVE UsageAccounted
<1>1. uPc = "done" => ToSet(uChan) \cup ToSet(uBatch) \subseteq uLate
  BY EmptySeqFacts DEF UsageInv
<1>2. ToSet(uTable) \cap (ToSet(uBatch) \cup ToSet(uChan)) = {}
  <2>1. /\ Below(ToSet(uTable), ToSet(uBatch) \cup ToSet(uChan))
        /\ ToSet(uTable) \in SUBSET Nat
    BY DEF UsageInv, ToSet
  <2> QED BY <2>1, BelowApart
<1> QED BY <1>1, <1>2 DEF UsageInv, UsageAccounted, Increasing

\* Every row written is in the channel, in the batch, in the table or reported
\* as lost; a row is reported and stored only when its INSERT was not answered,
\* and the table has each row once, in the order of writing (Write, flush and
\* Close of the usage log).
THEOREM UsageStaysAccounted == USpec => []UsageAccounted
BY UsageStart, UsageStep, UsageInvAccounts, PTL DEF USpec

-----------------------------------------------------------------------------
(* Keys, buckets and log, as the run of MCEntry takes them.                *)

\* AccessSound holds of every behaviour of MCEntry: a step of another
\* component leaves keys, buckets and the usage log alone.
THEOREM EntryAccessSound == EntrySpec => []AccessSound
<1> DEFINE Inv == KeyInv /\ RateInv /\ UsageInv
<1>1. EntryInit => Inv
  BY KeyStart, RateStart, UsageStart DEF EntryInit
<1>2. Inv /\ [EntryNext]_entryVars => Inv'
  <2>1. [EntryNext]_entryVars => [KNext]_kVars /\ [RNext]_rVars /\ [UNext]_uVars
    BY DEF EntryNext, entryVars, Buying, Granting, Joining, Mailing, Keying, Limiting, Logging
  <2> QED BY <2>1, KeyStep, RateStep, UsageStep
<1>3. Inv => AccessSound
  BY KeyInvSound, RateInvBounds, UsageInvAccounts DEF AccessSound
<1> HIDE DEF Inv
<1> QED BY <1>1, <1>2, <1>3, PTL DEF EntrySpec
=============================================================================
