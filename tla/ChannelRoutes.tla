--------------------------- MODULE ChannelRoutes ---------------------------
(***************************************************************************)
(* External channels (internal/channel) as the gateway uses them: Resolve  *)
(* reads the enabled mappings with their channels, the request tries one   *)
(* route after another, and MarkHealth writes the failure count and status *)
(* back, computed from the copy of the row that Resolve read.  An image    *)
(* request asks a route again for the images that are missing.             *)
(*                                                                         *)
(* A channel stands for its row together with its one mapping of the model *)
(* in question.  Billing around the route loop is Gateway.                 *)
(***************************************************************************)
EXTENDS Integers, Sequences, FiniteSets, SequencesExt

CONSTANTS
    Channels,       \* channel ids; their priority grows with the id
    CRequests,      \* gateway requests for the model
    CTests,         \* administrators' connection tests
    RefChannels,    \* channels whose adapter takes reference images
    Wanted,         \* images an image request asks for (ImageRequest.N)
    CFailing,       \* channels that have failed twice before
    CMaxEdits       \* bound on administrators' changes and tests

ASSUME ChannelRoutesAssumption ==
    /\ IsFiniteSet(Channels) /\ Channels \subseteq Nat
    /\ IsFiniteSet(CRequests)
    /\ IsFiniteSet(CTests)
    /\ RefChannels \subseteq Channels
    /\ Wanted \in Nat \ {0}
    /\ CFailing \subseteq Channels
    /\ CMaxEdits \in Nat

UnhealthyAt == 3    \* MarkHealth: failCount >= 3

VARIABLES
    channel,    \* upstream_channels
    creq,       \* requests and tests
    streak,     \* failures reported since the last reported success
    overlap,    \* channels some report of which was computed from an old row
    cedits      \* changes and tests so far

cVars == <<channel, creq, streak, overlap, cedits>>

HealthStatuses == {"healthy", "unhealthy"}
CKinds == {"chat", "image", "edit"}     \* edit: an image request with references
Rows == [on : BOOLEAN, key : BOOLEAN, fails : Nat, status : HealthStatuses]

\* A route keeps a copy of the channel row.
Route(c) == [id |-> c, row |-> channel[c]]

CIdle == [pc |-> "idle"]
CDone == [pc |-> "done"]

\* Types of the channel rows and of the requests.
ChannelType ==
    /\ \A c \in Channels : channel[c] \in Rows
    /\ \A r \in CRequests \cup CTests :
          creq[r].pc \in {"idle", "try", "report", "stream", "done", "ping"}
    /\ streak \in [Channels -> Nat]
    /\ overlap \subseteq Channels

\* Channels that are fresh, or one failure away from unhealthy.
CInit ==
    /\ channel = [c \in Channels |-> [on |-> TRUE, key |-> TRUE, status |-> "healthy",
                                      fails |-> IF c \in CFailing THEN UnhealthyAt - 1 ELSE 0]]
    /\ creq = [r \in CRequests \cup CTests |-> CIdle]
    /\ streak = [c \in Channels |-> channel[c].fails]
    /\ overlap = {}
    /\ cedits = 0

-----------------------------------------------------------------------------
(* Resolve.                                                                *)

\* ResolveByLocalModel: the enabled rows.
ResolveByLocalModel == {Route(c) : c \in {d \in Channels : channel[d].on}}

\* A channel whose key does not decrypt has no adapter.
Resolve == {rt \in ResolveByLocalModel : rt.row.key}

\* The order of the query is by priority; unhealthy routes are moved to the
\* tail as a fallback, and each part keeps that order.
RouteBefore(x, y) ==
    IF x.row.status = y.row.status THEN x.id < y.id ELSE y.row.status = "unhealthy"

RouteOrder(routes) ==
    {s \in SetToSeqs(routes) : \A i, j \in DOMAIN s : i < j => RouteBefore(s[i], s[j])}

\* buildChannelImageRequest: references need a route that takes them.
Routes(kind) == RouteOrder({rt \in Resolve : kind = "edit" => rt.id \in RefChannels})

\* A request arrives.  Without a route it goes to the account pool, or with
\* references it is refused; neither touches a channel.
CArrive(r) ==
    /\ creq[r].pc = "idle"
    /\ \E kind \in CKinds : \E routes \in Routes(kind) :
          creq' = [creq EXCEPT ![r] =
              IF routes = <<>>
              THEN CDone
              ELSE [pc |-> "try", kind |-> kind, routes |-> routes, failed |-> <<>>,
                    at |-> 1, got |-> 0, calls |-> 0, reported |-> 0]]
    /\ UNCHANGED <<channel, streak, overlap, cedits>>

-----------------------------------------------------------------------------
(* MarkHealth.                                                             *)

\* Mutant: a success takes one failure back.
MarkedStepwise(row, ok) ==
    LET n == row.fails + (IF ok THEN -1 ELSE 1)
    IN [fails |-> n, status |-> IF n >= UnhealthyAt THEN "unhealthy" ELSE "healthy"]

\* The new count and status, from the copy the caller holds.
Marked(row, ok) ==
    IF ok THEN [fails |-> 0, status |-> "healthy"]
    ELSE [fails |-> row.fails + 1,
          status |-> IF row.fails + 1 >= UnhealthyAt THEN "unhealthy" ELSE row.status]

\* UpdateHealth writes them, whatever the row holds by now.
MarkHealth(rt, ok) ==
    LET m == Marked(rt.row, ok)
    IN /\ channel' = [channel EXCEPT ![rt.id].fails = m.fails, ![rt.id].status = m.status]
       /\ streak' = [streak EXCEPT ![rt.id] = IF ok THEN 0 ELSE @ + 1]
       /\ overlap' = IF ok THEN overlap \ {rt.id}
                     ELSE IF rt.row.fails # channel[rt.id].fails THEN overlap \cup {rt.id}
                     ELSE overlap

-----------------------------------------------------------------------------
(* Trying the routes.                                                      *)

Current(r) == creq[r].routes[creq[r].at]

\* What the request does once its current route has failed for good.
NextRoute(q) ==
    IF q.at < Len(q.routes)
    THEN [q EXCEPT !.pc = "try", !.at = @ + 1, !.got = 0, !.calls = 0]
    ELSE [q EXCEPT !.pc = "report", !.at = @ + 1]

\* The route is noted as failed on the way.
PassOver(q, rt) == NextRoute([q EXCEPT !.failed = Append(@, rt)])

Reported(q) == [q EXCEPT !.reported = @ + 1]

\* A chat call fails: it is reported at once, and the next route is tried.
ChatFails(r) ==
    /\ creq[r].pc = "try" /\ creq[r].kind = "chat"
    /\ MarkHealth(Current(r), FALSE)
    /\ creq' = [creq EXCEPT ![r] = Reported(PassOver(@, Current(r)))]
    /\ UNCHANGED cedits

\* It opens a stream: the channel is marked healthy before the stream ends.
ChatOpens(r) ==
    /\ creq[r].pc = "try" /\ creq[r].kind = "chat"
    /\ MarkHealth(Current(r), TRUE)
    /\ creq' = [creq EXCEPT ![r].pc = "stream"]
    /\ UNCHANGED cedits

\* The stream is copied to the client; an error in it ends it quietly.
ChatEnds(r) ==
    /\ creq[r].pc = "stream"
    /\ creq' = [creq EXCEPT ![r] = CDone]
    /\ UNCHANGED <<channel, streak, overlap, cedits>>

\* imageGenerateWithRetry asks at most this often.
MaxCalls == IF Wanted < 2 THEN 2 ELSE Wanted

\* trimAdapterImageResult.
Trim(n, remaining) == IF n > remaining THEN remaining ELSE n

\* All images are there.
HasAll(q) == q.got >= Wanted

\* One more call and its images.
Called(q, n) == [q EXCEPT !.calls = @ + 1, !.got = @ + Trim(n, Wanted - @)]

\* The order is filled, the route is asked again, or it has failed.
AfterCall(q, rt) ==
    IF HasAll(q) THEN [q EXCEPT !.pc = "report"]
    ELSE IF q.calls < MaxCalls THEN q
    ELSE PassOver(q, rt)

\* An image call returns n images (one too many is possible), or fails: n = 0.
ImageCall(r) ==
    /\ creq[r].pc = "try" /\ creq[r].kind # "chat"
    /\ \E n \in 0 .. Wanted + 1 :
          creq' = [creq EXCEPT ![r] = AfterCall(Called(@, n), Current(r))]
    /\ UNCHANGED <<channel, streak, overlap, cedits>>

\* The channel cannot take references after all: no retry.
ReferencesUnsupported(r) ==
    /\ creq[r].pc = "try" /\ creq[r].kind = "edit"
    /\ creq' = [creq EXCEPT ![r] = PassOver(@, Current(r))]
    /\ UNCHANGED <<channel, streak, overlap, cedits>>

\* Once a route was picked, or none is left, the failures are reported one
\* after another, then the success; a chat has reported its failures.
Report(r) ==
    LET q == creq[r]
    IN /\ q.pc = "report"
       /\ \/ /\ q.reported < Len(q.failed)
             /\ MarkHealth(q.failed[q.reported + 1], FALSE)
             /\ creq' = [creq EXCEPT ![r] = Reported(q)]
          \/ /\ q.reported = Len(q.failed)
             /\ q.at <= Len(q.routes)
             /\ MarkHealth(q.routes[q.at], TRUE)
             /\ creq' = [creq EXCEPT ![r] = CDone]
          \/ /\ q.reported = Len(q.failed)
             /\ q.at > Len(q.routes)
             /\ creq' = [creq EXCEPT ![r] = CDone]
             /\ UNCHANGED <<channel, streak, overlap>>
       /\ UNCHANGED cedits

-----------------------------------------------------------------------------
(* Administration.                                                         *)

\* Test: read the row, ping, report.
TestBegins(t, c) ==
    /\ creq[t].pc = "idle"
    /\ channel[c].key
    /\ cedits < CMaxEdits
    /\ cedits' = cedits + 1
    /\ creq' = [creq EXCEPT ![t] = [pc |-> "ping", route |-> Route(c)]]
    /\ UNCHANGED <<channel, streak, overlap>>

TestEnds(t) ==
    /\ creq[t].pc = "ping"
    /\ \E ok \in BOOLEAN : MarkHealth(creq[t].route, ok)
    /\ creq' = [creq EXCEPT ![t] = CDone]
    /\ UNCHANGED cedits

\* Update, Delete and the mapping's counterparts: enabled or not; its key can
\* become unreadable (the server's own encryption key was changed) or be set
\* anew.  Count and status stay.
UpdateChannel(c) ==
    /\ cedits < CMaxEdits
    /\ cedits' = cedits + 1
    /\ \E on, key \in BOOLEAN : channel' = [channel EXCEPT ![c].on = on, ![c].key = key]
    /\ UNCHANGED <<creq, streak, overlap>>

CRequestStep(r) ==
    \/ CArrive(r) \/ ChatFails(r) \/ ChatOpens(r) \/ ChatEnds(r)
    \/ ImageCall(r) \/ ReferencesUnsupported(r) \/ Report(r)

CNext ==
    \/ \E r \in CRequests :
          \/ CArrive(r) \/ ChatFails(r) \/ ChatOpens(r) \/ ChatEnds(r)
          \/ ImageCall(r) \/ ReferencesUnsupported(r) \/ Report(r)
    \/ \E t \in CTests : TestEnds(t) \/ \E c \in Channels : TestBegins(t, c)
    \/ \E c \in Channels : UpdateChannel(c)

CSpec == CInit /\ [][CNext]_cVars

-----------------------------------------------------------------------------
(* Properties.                                                             *)

\* Whatever stale copies MarkHealth is called with, the status says what the
\* count says: unhealthy exactly from three failures on.
StatusMatchesCount ==
    \A c \in Channels : channel[c].status = "unhealthy" <=> channel[c].fails >= UnhealthyAt

\* The count is the number of consecutive failures unless some report since
\* the last success was computed from a copy of the row that another report
\* had changed meanwhile.
CountExactUnlessOverlapped ==
    \A c \in Channels : c \notin overlap => channel[c].fails = streak[c]

\* A request tries every usable channel it resolved, the unhealthy ones
\* last, before it gives up: a circuit breaker that never locks out.
NoRouteLeftBehind ==
    \A r \in CRequests :
        LET q == creq[r]
        IN q.pc \in {"try", "report", "stream"} =>
              /\ \A i, j \in DOMAIN q.routes : i < j =>
                    \/ q.routes[i].row.status = "healthy"
                    \/ q.routes[j].row.status = "unhealthy"
              /\ q.at > Len(q.routes) => Len(q.failed) = Len(q.routes)

\* An image request that succeeds has exactly the images it asked for, all
\* of one channel, and no channel was asked more often than imageGenerate-
\* WithRetry allows.
ExactImages ==
    \A r \in CRequests :
        LET q == creq[r]
        IN q.pc \in {"try", "report"} /\ q.kind # "chat" =>
              /\ q.calls <= MaxCalls
              /\ q.pc = "report" /\ q.at <= Len(q.routes) => q.got = Wanted

\* What a channel's row says and what a request makes of it (the types and the four above).
ChannelsSound ==
    ChannelType /\ StatusMatchesCount /\ CountExactUnlessOverlapped /\ NoRouteLeftBehind /\ ExactImages

\* Every request ends: a finite list of routes, a bounded number of calls.
RoutingEnds == \A r \in CRequests : creq[r].pc = "try" ~> creq[r].pc = "done"
=============================================================================
