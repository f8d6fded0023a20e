----------------------------- MODULE PrivateRooms -----------------------------
(***************************************************************************)
(* Private rooms found by a temporary code: the directory service that     *)
(* keeps rooms and requests (services/directory/jamlink_directory.py), its *)
(* client in every application (apps/desktop/private_room_directory.cpp)   *)
(* and the calls of the controller that open, join and leave a room        *)
(* (apps/desktop/app_controller.cpp).                                      *)
(*                                                                         *)
(* The service answers one call at a time.  A call and its answer are two  *)
(* steps, every call is on a connection of its own, so calls overtake one  *)
(* another; a call may fail, before or after the service has acted on it.  *)
(* Owner tokens and request tokens are drawn at random by the service and  *)
(* are the number of the registration or of the request here.              *)
(***************************************************************************)
EXTENDS Naturals, Sequences, FiniteSets

CONSTANTS Hosts,         \* musicians who open a room
          Guests,        \* musicians who ask to be let into one
          Codes,         \* temporary codes
          NoCode,        \* the empty code of an idle client
          MaxWaiting,    \* MAXIMUM_PRIVATE_REQUESTS_PER_ROOM
          InviteForm,    \* what the host's build writes in front of an invite
          MaxRegs,       \* bound: rooms registered in a behaviour
          MaxReqs,       \* bound: requests made in a behaviour
          MaxLost,       \* bound: calls that fail in a behaviour
          MaxOrders      \* bound: unfinished calls that are not polls

ASSUME SizesAssumption == /\ IsFiniteSet(Hosts) /\ IsFiniteSet(Guests)
                          /\ MaxRegs \in Nat /\ MaxReqs \in Nat

Apps == Hosts \cup Guests

None == 0
Regs == 1..MaxRegs
Reqs == 1..MaxReqs

(***************************************************************************)
(* Heartbeats are 25 s apart and a room lives 90 s without one: it is gone *)
(* between the third heartbeat that did not arrive and the next.           *)
(***************************************************************************)
RoomPeriods == 3

VARIABLES rooms,       \* private_rooms: the registration under each code
          regs,        \* every registration made: [by, code, closed, missed]
          requests,    \* every request made: [reg, by, status, live]
          dir,         \* the PrivateRoomDirectory and session of each application
          net,         \* calls that are not finished
          holders,     \* history: <<registration, request>> given the invite
          lost         \* how many calls have failed

vars == <<rooms, regs, requests, dir, net, holders, lost>>

service == <<rooms, regs, requests, holders>>

NoAnswer == [ok |-> FALSE, id |-> None, list |-> {}, status |-> ""]

Idle == [showing |-> FALSE, code |-> NoCode, token |-> None, req |-> None,
         list |-> {}, busy |-> FALSE, active |-> FALSE, hosting |-> FALSE,
         waiting |-> FALSE, beating |-> FALSE, polling |-> FALSE, told |-> ""]

Call(a, op, c, t, q, yes) ==
  [app |-> a, op |-> op, code |-> c, token |-> t, req |-> q, yes |-> yes,
   stage |-> "sent", answer |-> NoAnswer]

Init == /\ rooms = [c \in Codes |-> None]
        /\ regs = <<>>
        /\ requests = <<>>
        /\ dir = [a \in Apps |-> Idle]
        /\ net = {}
        /\ holders = {}
        /\ lost = 0

-------------------------------------------------------------------------------
(* The service.                                                             *)

Live(q) == requests[q].live
Waiting(c) == {q \in DOMAIN requests :
                 /\ Live(q) /\ requests[q].status = "waiting"
                 /\ regs[requests[q].reg].code = c}

\* private_token_matches(): the caller holds the token of the room under the code.
Owns(x) == rooms[x.code] # None /\ x.token = rooms[x.code]

\* Mistake: A room leaves its requests behind.
WithoutRequestsOfKept(c) == requests

\* The requests of a room leave with it.
WithoutRequestsOf(c) ==
  [q \in DOMAIN requests |->
     [requests[q] EXCEPT !.live = @ /\ regs[requests[q].reg].code # c]]

\* The answer of a call goes back to its caller, unless the caller gave up.
Reply(x, answer) ==
  net' = (net \ {x}) \cup
         IF x.stage = "sent"
           THEN {[x EXCEPT !.stage = "answered", !.answer = answer]}
           ELSE {}

Accepted == [NoAnswer EXCEPT !.ok = TRUE]

\* create_private_room(); the client never sends a token with it.
ServeCreate(x) ==
  IF rooms[x.code] = None /\ InviteForm = "JL1"
    THEN /\ regs' = Append(regs, [by |-> x.app, code |-> x.code,
                                  closed |-> FALSE, missed |-> 0])
         /\ rooms' = [rooms EXCEPT ![x.code] = Len(regs')]
         /\ requests' = WithoutRequestsOf(x.code)
         /\ Reply(x, [Accepted EXCEPT !.id = Len(regs')])
         /\ UNCHANGED holders
    ELSE Reply(x, NoAnswer) /\ UNCHANGED service

\* heartbeat_private_room()
ServeBeat(x) ==
  /\ IF Owns(x)
       THEN regs' = [regs EXCEPT ![x.token].missed = 0] /\ Reply(x, Accepted)
       ELSE UNCHANGED regs /\ Reply(x, NoAnswer)
  /\ UNCHANGED <<rooms, requests, holders>>

\* remove_private_room()
ServeRemove(x) ==
  /\ IF Owns(x)
       THEN /\ rooms' = [rooms EXCEPT ![x.code] = None]
            /\ requests' = WithoutRequestsOf(x.code)
       ELSE UNCHANGED <<rooms, requests>>
  /\ Reply(x, Accepted)
  /\ UNCHANGED <<regs, holders>>

\* request_private_room(); a build that differs is refused like a closed room.
TakesRequests(c) == /\ rooms[c] # None
                    /\ ~regs[rooms[c]].closed
                    /\ Cardinality(Waiting(c)) < MaxWaiting

ServeJoin(x) ==
  /\ IF TakesRequests(x.code)
       THEN /\ requests' = Append(requests,
                 [reg |-> rooms[x.code], by |-> x.app, status |-> "waiting",
                  live |-> TRUE])
            /\ Reply(x, [Accepted EXCEPT !.id = Len(requests')])
       ELSE UNCHANGED requests /\ Reply(x, NoAnswer)
  /\ UNCHANGED <<rooms, regs, holders>>

\* decide_private_request(): one musician is let in and everybody else refused.
MayDecide(x) == /\ Live(x.req) /\ regs[requests[x.req].reg].code = x.code
                /\ Owns(x)
                /\ requests[x.req].status = "waiting"
                /\ ~(x.yes /\ regs[x.token].closed)

Verdict(x, q) == IF q = x.req THEN IF x.yes THEN "admitted" ELSE "denied"
                              ELSE "denied"

DecidedBy(x) == {x.req} \cup IF x.yes THEN Waiting(x.code) ELSE {}

ServeDecide(x) ==
  /\ IF MayDecide(x)
       THEN /\ requests' = [q \in DOMAIN requests |->
                              IF q \in DecidedBy(x)
                                THEN [requests[q] EXCEPT !.status = Verdict(x, q)]
                                ELSE requests[q]]
            /\ regs' = [regs EXCEPT ![x.token].closed = @ \/ x.yes]
            /\ Reply(x, Accepted)
       ELSE UNCHANGED <<requests, regs>> /\ Reply(x, NoAnswer)
  /\ UNCHANGED <<rooms, holders>>

\* list_private_requests()
AnswerToList(x) == IF Owns(x) THEN [Accepted EXCEPT !.list = Waiting(x.code)] ELSE NoAnswer

\* private_request_status(): the musician let in is handed the room's invite.
Handed(q) == IF Live(q) /\ requests[q].status = "admitted"
               THEN {<<rooms[regs[requests[q].reg].code], q>>} \ {<<None, q>>}
               ELSE {}

AnswerToStatus(x) ==
  IF Live(x.req) /\ (requests[x.req].status = "admitted" => Handed(x.req) # {})
    THEN [Accepted EXCEPT !.status = requests[x.req].status]
    ELSE NoAnswer

Serve(x) ==
  /\ x.stage \in {"sent", "abandoned"}
  /\ \/ x.op = "create" /\ ServeCreate(x)
     \/ x.op = "beat"   /\ ServeBeat(x)
     \/ x.op = "remove" /\ ServeRemove(x)
     \/ x.op = "join"   /\ ServeJoin(x)
     \/ x.op = "decide" /\ ServeDecide(x)
  /\ UNCHANGED <<dir, lost>>

\* Every call is over within 8 s (setTransferTimeout), well before a period is.
Settled == \A x \in net : x.stage = "abandoned"

\* expire(): nothing was heard of a room for its whole life; a request is gone
\* 120 s after its last change, which are not counted here.
ExpireRoom(c) ==
  /\ rooms[c] # None /\ Settled
  /\ regs[rooms[c]].missed = RoomPeriods
  /\ rooms' = [rooms EXCEPT ![c] = None]
  /\ requests' = WithoutRequestsOf(c)
  /\ UNCHANGED <<regs, dir, net, holders, lost>>

ExpireRequest(q) ==
  /\ Live(q) /\ Settled
  /\ requests' = [requests EXCEPT ![q].live = FALSE]
  /\ UNCHANGED <<rooms, regs, dir, net, holders, lost>>

-------------------------------------------------------------------------------
(* The client.                                                              *)

Polls == {"list", "status"}
Spare == Cardinality({x \in net : x.op \notin Polls}) < MaxOrders

\* A call whose answer nobody will heed: the service may still serve it.
Abandoned(calls) == {[x EXCEPT !.stage = "abandoned"] : x \in {y \in calls : y.stage = "sent"}}

\* Mistake: the answer to a poll is heeded in any generation.
OvertakenButPolls(a, calls) ==
  LET own == {x \in calls : x.app = a /\ x.stage # "abandoned" /\ x.op # "status"}
  IN (calls \ own) \cup Abandoned(own)

\* ++generation_: no answer to a call made before is heeded.
Overtaken(a, calls) == LET own == {x \in calls : x.app = a /\ x.stage # "abandoned"}
                       IN (calls \ own) \cup Abandoned(own)

\* stop(), as leaveSession() calls it.  The answer to the removal is ignored.
StopCalls(a, calls) ==
  Overtaken(a, calls) \cup
  IF dir[a].hosting
    THEN Abandoned({Call(a, "remove", dir[a].code, dir[a].token, None, FALSE)})
    ELSE {}

\* hostInviteCodeSession(): leaves, opens a room of its own, publishes its code.
HostCode(a, c) ==
  /\ Spare
  /\ Len(regs) + Cardinality({x \in net : x.op = "create"}) < MaxRegs
  /\ dir' = [dir EXCEPT ![a] = [Idle EXCEPT !.showing = TRUE, !.code = c, !.busy = TRUE]]
  /\ net' = StopCalls(a, net) \cup {Call(a, "create", c, None, None, FALSE)}
  /\ UNCHANGED <<service, lost>>

\* joinSession() with a temporary code: leaves and asks to be let in.
JoinCode(a, c) ==
  /\ Spare /\ Len(requests) + Cardinality({x \in net : x.op = "join"}) < MaxReqs
  /\ dir' = [dir EXCEPT ![a] = [Idle EXCEPT !.code = c, !.busy = TRUE, !.active = TRUE]]
  /\ net' = StopCalls(a, net) \cup {Call(a, "join", c, None, None, FALSE)}
  /\ UNCHANGED <<service, lost>>

\* joinSession() with the invite the host sees: dialled if it begins as an
\* invite does, taken for a temporary code, and an invalid one, if it does not.
JoinInvite(a, h) ==
  /\ dir[h].showing
  /\ IF InviteForm = "JL1"
       THEN /\ dir' = [dir EXCEPT ![a] = Idle]
            /\ net' = StopCalls(a, net)
       ELSE /\ dir' = [dir EXCEPT ![a].told = "refused"]
            /\ UNCHANGED net
  /\ UNCHANGED <<service, lost>>

\* leaveSession()
Leave(a) ==
  /\ dir[a].showing \/ dir[a].active \/ dir[a].hosting
  /\ dir' = [dir EXCEPT ![a] = Idle]
  /\ net' = StopCalls(a, net)
  /\ UNCHANGED <<service, lost>>

\* decide(), on a request the host is shown; decideWaitingRequest() has turned
\* an admission into a refusal if the room could not carry another musician.
Decide(a, q, yes) ==
  /\ Spare /\ dir[a].hosting /\ ~dir[a].busy /\ q \in dir[a].list
  /\ dir' = [dir EXCEPT ![a].busy = TRUE]
  /\ net' = net \cup {Call(a, "decide", dir[a].code, dir[a].token, q, yes)}
  /\ UNCHANGED <<service, lost>>

\* pollHost() and pollGuest().  A question changes nothing at the service: it
\* is answered when it is asked, and the answer may take its time.
Asked(x, answer) == [x EXCEPT !.stage = "answered", !.answer = answer]

PollHost(a) == LET x == Call(a, "list", dir[a].code, dir[a].token, None, FALSE)
               IN Asked(x, AnswerToList(x))

PollGuest(a) == LET x == Call(a, "status", NoCode, None, dir[a].req, FALSE)
                IN Asked(x, AnswerToStatus(x))

Poll(a) ==
  /\ ~dir[a].polling
  /\ \/ /\ dir[a].hosting
        /\ net' = net \cup {PollHost(a)}
        /\ UNCHANGED holders
     \/ /\ ~dir[a].hosting /\ dir[a].waiting
        /\ net' = net \cup {PollGuest(a)}
        /\ holders' = holders \cup Handed(dir[a].req)
  /\ dir' = [dir EXCEPT ![a].polling = TRUE]
  /\ UNCHANGED <<rooms, regs, requests, lost>>

\* 25 s pass: hosts whose last heartbeat is over send the next.
Beats == {a \in Apps : dir[a].hosting /\ ~dir[a].beating}

Period ==
  /\ Settled
  /\ \A c \in Codes : rooms[c] # None => regs[rooms[c]].missed < RoomPeriods
  /\ \E c \in Codes : rooms[c] # None
  /\ regs' = [r \in DOMAIN regs |->
                IF rooms[regs[r].code] = r THEN [regs[r] EXCEPT !.missed = @ + 1] ELSE regs[r]]
  /\ dir' = [a \in Apps |-> [dir[a] EXCEPT !.beating = @ \/ a \in Beats]]
  /\ net' = net \cup {Call(a, "beat", dir[a].code, dir[a].token, None, FALSE) : a \in Beats}
  /\ UNCHANGED <<rooms, requests, holders, lost>>

-------------------------------------------------------------------------------
(* What the client does with an answer: its state and the calls after it.    *)

OnCreate(a, answer) ==
  IF answer.ok THEN [dir[a] EXCEPT !.busy = FALSE, !.token = answer.id,
                                   !.hosting = TRUE, !.waiting = FALSE]
               ELSE [dir[a] EXCEPT !.busy = FALSE, !.code = NoCode]

OnJoin(a, answer) ==
  IF answer.ok THEN [dir[a] EXCEPT !.busy = FALSE, !.req = answer.id,
                                   !.waiting = TRUE, !.hosting = FALSE]
               ELSE [dir[a] EXCEPT !.busy = FALSE]

\* Mistake: A heartbeat that failed stays in flight for ever.
OnBeatStuck(a, answer) == [dir[a] EXCEPT !.beating = ~answer.ok]

OnBeat(a, answer) == [dir[a] EXCEPT !.beating = FALSE]

OnList(a, answer) ==
  [dir[a] EXCEPT !.polling = FALSE, !.list = IF answer.ok THEN answer.list ELSE @]

OnDecide(a, answer) ==
  [dir[a] EXCEPT !.busy = FALSE, !.polling = @ \/ answer.ok]

\* Mistake: A poll that failed stays in flight for ever.
OnStatusStuck(a, answer) ==
  IF answer.ok /\ answer.status = "admitted"
    THEN Idle
    ELSE [dir[a] EXCEPT !.polling = ~answer.ok,
                        !.waiting = @ /\ ~(answer.ok /\ answer.status = "denied"),
                        !.told = IF answer.ok /\ answer.status = "denied" THEN "denied" ELSE @]

\* An admission is joined at once: inviteResolved() leaves the waiting room.
OnStatus(a, answer) ==
  IF answer.ok /\ answer.status = "admitted"
    THEN Idle
    ELSE [dir[a] EXCEPT !.polling = FALSE,
                        !.waiting = @ /\ ~(answer.ok /\ answer.status = "denied"),
                        !.told = IF answer.ok /\ answer.status = "denied" THEN "denied" ELSE @]

Handle(x, answer, rest) ==
  LET a == x.app
  IN CASE x.op = "create" -> dir' = [dir EXCEPT ![a] = OnCreate(a, answer)] /\ net' = rest
       [] x.op = "join"   -> dir' = [dir EXCEPT ![a] = OnJoin(a, answer)] /\ net' = rest
       [] x.op = "beat"   -> dir' = [dir EXCEPT ![a] = OnBeat(a, answer)] /\ net' = rest
       [] x.op = "list"   -> dir' = [dir EXCEPT ![a] = OnList(a, answer)] /\ net' = rest
       [] x.op = "decide" -> /\ dir' = [dir EXCEPT ![a] = OnDecide(a, answer)]
                             /\ net' = rest \cup IF answer.ok /\ ~dir[a].polling
                                                   THEN {PollHost(a)} ELSE {}
       [] x.op = "status" -> /\ dir' = [dir EXCEPT ![a] = OnStatus(a, answer)]
                             /\ net' = IF answer.ok /\ answer.status = "admitted"
                                         THEN StopCalls(a, rest) ELSE rest

Answer(x) ==
  /\ x.stage = "answered"
  /\ Handle(x, x.answer, net \ {x})
  /\ UNCHANGED <<service, lost>>

\* The call or its answer is lost: 8 s later the client knows that it failed.
Fail(x) ==
  /\ lost < MaxLost /\ lost' = lost + 1
  /\ x.stage # "abandoned"
  /\ Handle(x, NoAnswer, net \ {x})
  /\ UNCHANGED service

-------------------------------------------------------------------------------

Next ==
  \/ \E x \in net : Serve(x) \/ Answer(x) \/ Fail(x)
  \/ \E a \in Hosts, c \in Codes : HostCode(a, c)
  \/ \E a \in Guests, c \in Codes : JoinCode(a, c)
  \/ \E a \in Guests, h \in Hosts : JoinInvite(a, h)
  \/ \E a \in Apps : Leave(a) \/ Poll(a)
  \/ \E a \in Hosts, q \in Reqs, yes \in BOOLEAN : Decide(a, q, yes)
  \/ \E c \in Codes : ExpireRoom(c)
  \/ \E q \in DOMAIN requests : ExpireRequest(q)
  \/ Period

\* The application polls every 2 s, and every answer arrives or times out.
Hears(a) == \E x \in net : x.app = a /\ x.op = "status" /\ Answer(x)

Fairness == \A g \in Guests : WF_vars(Poll(g)) /\ WF_vars(Hears(g))

Spec == Init /\ [][Next]_vars /\ Fairness

-------------------------------------------------------------------------------

(***************************************************************************)
(* The room keeps the promise of Admission: each registration lets one     *)
(* request in, whose holder alone is ever handed its invite, whatever      *)
(* calls overtake one another, however often a code is registered again.   *)
(***************************************************************************)
LetInto(r) == {q \in DOMAIN requests : requests[q].reg = r /\ requests[q].status = "admitted"}

Chosen(r) == IF LetInto(r) = {} THEN None ELSE CHOOSE q \in LetInto(r) : TRUE

Adm == INSTANCE Admission WITH Registrations <- Regs, Requests <- Reqs,
                               chosen <- [r \in Regs |-> Chosen(r)]

ImplementsAdmission == Adm!Spec

(***************************************************************************)
(* A musician is told of a refusal only if the request made last is the    *)
(* one refused: what was on its way for an earlier request is not heeded.  *)
(***************************************************************************)
ToldTheTruth ==
  \A g \in Guests :
    dir[g].told = "denied" =>
      dir[g].req \in DOMAIN requests /\ requests[dir[g].req].status = "denied"

(***************************************************************************)
(* A host keeps its room through any two calls that fail: what reaches the *)
(* service under the code it shows is a request to it, not to nobody, nor  *)
(* to another who took the code meanwhile.                                 *)
(***************************************************************************)
HostKeepsItsRoom ==
  \A h \in Hosts :
    dir[h].hosting /\ lost < RoomPeriods =>
      dir[h].code \in Codes /\ rooms[dir[h].code] = dir[h].token

(***************************************************************************)
(* The musician let in gets in, or gives up, or comes too late: a poll     *)
(* that failed is followed by another.                                     *)
(***************************************************************************)
LetIn(g, q) == /\ dir[g].waiting /\ dir[g].req = q
               /\ q \in DOMAIN requests /\ Live(q) /\ requests[q].status = "admitted"

AdmittedGetsIn == \A g \in Guests, q \in Reqs : LetIn(g, q) ~> ~LetIn(g, q)

(***************************************************************************)
(* The invite a host shows is one its guests may paste: running-a-session  *)
(* tells the guest to paste it on Home and choose Join.                    *)
(***************************************************************************)
InviteIsTaken == \A g \in Guests : dir[g].told # "refused"
===============================================================================
