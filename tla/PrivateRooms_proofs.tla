-------------------------- MODULE PrivateRooms_proofs --------------------------
(***************************************************************************)
(* Proof that private rooms keep the promise of Admission, for any number  *)
(* of musicians, codes, registrations, requests and lost calls.            *)
(*                                                                         *)
(* The heart of it is ServiceInv: a request that is still known belongs to *)
(* the registration that is in force under its code, so that the invite a  *)
(* poll is handed is the one of the room the musician was let into; and an *)
(* admission closes the registration, so that there is no second one.      *)
(* TypeInv says of calls and clients what the service relies on, and that *)
(* the bounds of the model are kept, which makes every registration and    *)
(* request one that Admission knows of.                                    *)
(*                                                                         *)
(* The clients are proved in two steps more.  ClientInv: a call that is    *)
(* still heeded is about what the client has now, because whoever starts   *)
(* again gives up every call before; so a refusal is true.  HostInv counts *)
(* for every room the periods it was not heard of against the calls that   *)
(* failed and the heartbeat on its way; so a host keeps its room.          *)
(***************************************************************************)
EXTENDS PrivateRooms, FiniteSetTheorems, SequenceTheorems, TLAPS

Ops == {"create", "join", "beat", "remove", "decide", "list", "status"}
Stages == {"sent", "abandoned", "answered"}
Statuses == {"waiting", "admitted", "denied"}

Registration == [by : Apps, code : Codes, closed : BOOLEAN, missed : Nat]
Request == [reg : Nat, by : Apps, status : Statuses, live : BOOLEAN]
Answers == [ok : BOOLEAN, id : Nat, list : SUBSET Nat, status : Statuses \cup {""}]
Calls == [app : Apps, op : Ops, code : Codes \cup {NoCode}, token : Nat, req : Nat,
          yes : BOOLEAN, stage : Stages, answer : Answers]
Clients == [showing : BOOLEAN, code : Codes \cup {NoCode}, token : Nat, req : Nat,
            list : SUBSET Nat, busy : BOOLEAN, active : BOOLEAN, hosting : BOOLEAN,
            waiting : BOOLEAN, beating : BOOLEAN, polling : BOOLEAN,
            told : {"", "denied", "refused"}]

ServiceTypes == /\ rooms \in [Codes -> Nat]
                /\ regs \in Seq(Registration)
                /\ requests \in Seq(Request)

\* What a call says of requests: those it names are known to the service.  Nobody
\* waits for the answer to a removal.
CallKnown(x) ==
  /\ x.op = "remove" => x.stage = "abandoned"
  /\ x.op \in {"create", "join"} => x.code \in Codes
  /\ x.op = "decide" => x.req \in DOMAIN requests
  /\ x.op = "join" /\ x.answer.ok => x.answer.id \in DOMAIN requests
  /\ x.answer.list \subseteq DOMAIN requests

\* Calls that the service may still act on.
Pending(calls, op) == {x \in calls : x.op = op /\ x.stage # "answered"}

NetOK(calls) ==
  /\ calls \subseteq Calls /\ IsFiniteSet(calls)
  /\ \A x \in calls : CallKnown(x)
  /\ Len(regs) + Cardinality(Pending(calls, "create")) <= MaxRegs
  /\ Len(requests) + Cardinality(Pending(calls, "join")) <= MaxReqs

DirOK(clients) ==
  /\ clients \in [Apps -> Clients]
  /\ \A a \in Apps : /\ clients[a].list \subseteq DOMAIN requests
                     /\ clients[a].waiting => clients[a].req \in DOMAIN requests

TypeInv == ServiceTypes /\ DirOK(dir) /\ NetOK(net) /\ lost \in Nat

\* The registration a request was made to.
RegOf(q) == requests[q].reg

ServiceInv ==
  /\ \A c \in Codes : rooms[c] # None => rooms[c] \in DOMAIN regs /\ regs[rooms[c]].code = c
  /\ \A q \in DOMAIN requests : RegOf(q) \in DOMAIN regs
  /\ \A q \in DOMAIN requests : Live(q) => rooms[regs[RegOf(q)].code] = RegOf(q)
  /\ \A q \in DOMAIN requests : requests[q].status = "admitted" => regs[RegOf(q)].closed
  /\ \A p, q \in DOMAIN requests :
       /\ requests[p].status = "admitted" /\ requests[q].status = "admitted"
       /\ RegOf(p) = RegOf(q)
       => p = q

-------------------------------------------------------------------------------
(* The service's part of a step.                                             *)

\* What a step may do to the rooms and requests, besides nothing at all.
Registers(c) == \E a \in Apps :
  /\ rooms[c] = None
  /\ regs' = Append(regs, [by |-> a, code |-> c, closed |-> FALSE, missed |-> 0])
  /\ rooms' = [rooms EXCEPT ![c] = Len(regs')]
  /\ requests' = WithoutRequestsOf(c)

Removes(c) == /\ rooms' = [rooms EXCEPT ![c] = None]
              /\ requests' = WithoutRequestsOf(c)
              /\ UNCHANGED regs

Asks(c) == \E a \in Apps :
  /\ rooms[c] # None /\ ~regs[rooms[c]].closed
  /\ requests' = Append(requests, [reg |-> rooms[c], by |-> a, status |-> "waiting",
                                   live |-> TRUE])
  /\ UNCHANGED <<rooms, regs>>

Decides == \E x \in Calls :
  /\ x.req \in DOMAIN requests /\ MayDecide(x)
  /\ requests' = [q \in DOMAIN requests |->
                    IF q \in DecidedBy(x)
                      THEN [requests[q] EXCEPT !.status = Verdict(x, q)]
                      ELSE requests[q]]
  /\ regs' = [regs EXCEPT ![x.token].closed = @ \/ x.yes]
  /\ UNCHANGED rooms

Forgets == \E q \in DOMAIN requests :
  /\ requests' = [requests EXCEPT ![q].live = FALSE]
  /\ UNCHANGED <<rooms, regs>>

\* Heartbeats and periods: nothing but how long a room has not been heard of.
Ages == /\ DOMAIN regs' = DOMAIN regs
        /\ \A r \in DOMAIN regs : /\ regs'[r].code = regs[r].code
                                  /\ regs'[r].closed = regs[r].closed
        /\ UNCHANGED <<rooms, requests>>

ServiceStep == \/ \E c \in Codes : Registers(c) \/ Asks(c)
               \/ \E c \in Codes \cup {NoCode} : Removes(c)
               \/ Decides \/ Forgets \/ Ages

\* Requests that are only forgotten keep what they were.
LEMMA WithoutRequestsIs ==
  ASSUME ServiceTypes, NEW c
  PROVE  /\ WithoutRequestsOf(c) \in Seq(Request)
         /\ Len(WithoutRequestsOf(c)) = Len(requests)
         /\ DOMAIN WithoutRequestsOf(c) = DOMAIN requests
         /\ \A q \in DOMAIN requests :
              /\ WithoutRequestsOf(c)[q].reg = requests[q].reg
              /\ WithoutRequestsOf(c)[q].status = requests[q].status
              /\ WithoutRequestsOf(c)[q].live
                   => requests[q].live /\ regs[requests[q].reg].code # c
<1>1. /\ Len(requests) \in Nat /\ DOMAIN requests = 1 .. Len(requests)
      /\ \A q \in 1 .. Len(requests) : requests[q] \in Request
  BY LenProperties, ElementOfSeq DEF ServiceTypes
<1>2. \A q \in 1 .. Len(requests) :
        [requests[q] EXCEPT !.live = @ /\ regs[requests[q].reg].code # c] \in Request
  BY <1>1 DEF Request
<1>3. WithoutRequestsOf(c) \in [1 .. Len(requests) -> Request]
  BY <1>1, <1>2 DEF WithoutRequestsOf
<1>4. WithoutRequestsOf(c) \in Seq(Request) /\ Len(WithoutRequestsOf(c)) = Len(requests)
  BY <1>1, <1>3
<1>5. \A q \in DOMAIN requests :
        /\ WithoutRequestsOf(c)[q].reg = requests[q].reg
        /\ WithoutRequestsOf(c)[q].status = requests[q].status
        /\ WithoutRequestsOf(c)[q].live
             => requests[q].live /\ regs[requests[q].reg].code # c
  BY <1>1 DEF WithoutRequestsOf, Request
<1> QED BY <1>1, <1>3, <1>4, <1>5

\* Every registration is under a code.
LEMMA CodesOfRegs ==
  ASSUME ServiceTypes
  PROVE  \A r \in DOMAIN regs : regs[r].code \in Codes
<1>1. \A r \in DOMAIN regs : regs[r] \in Registration
  BY LenProperties, ElementOfSeq DEF ServiceTypes
<1> QED BY <1>1 DEF Registration

\* A room that is registered under a free code, and one that is gone.
LEMMA RegistersKeeps ==
  ASSUME ServiceTypes, ServiceInv, ServiceTypes', NEW c \in Codes, Registers(c)
  PROVE  ServiceInv'
<1> DEFINE n == Len(regs) + 1
<1>1. PICK a \in Apps :
        regs' = Append(regs, [by |-> a, code |-> c, closed |-> FALSE, missed |-> 0])
  BY DEF Registers
<1>2. rooms[c] = None /\ rooms' = [rooms EXCEPT ![c] = Len(regs')]
      /\ requests' = WithoutRequestsOf(c)
  BY DEF Registers
<1>3. /\ Len(regs) \in Nat /\ DOMAIN regs = 1 .. Len(regs)
      /\ Len(regs') = n /\ DOMAIN regs' = 1 .. n
      /\ regs'[n].code = c
      /\ \A r \in 1 .. Len(regs) : regs'[r] = regs[r]
  BY <1>1 DEF ServiceTypes
<1>4. /\ rooms'[c] = n
      /\ \A d \in Codes : d # c => rooms'[d] = rooms[d]
  BY <1>2, <1>3 DEF ServiceTypes
<1>5. /\ DOMAIN requests' = DOMAIN requests
      /\ \A q \in DOMAIN requests :
           /\ requests'[q].reg = requests[q].reg
           /\ requests'[q].status = requests[q].status
           /\ requests'[q].live
                => requests[q].live /\ regs[requests[q].reg].code # c
  BY <1>2, WithoutRequestsIs
<1> HIDE DEF n
<1>6. \A d \in Codes : rooms'[d] # None => rooms'[d] \in DOMAIN regs' /\ regs'[rooms'[d]].code = d
  <2> SUFFICES ASSUME NEW d \in Codes, rooms'[d] # None
               PROVE  rooms'[d] \in DOMAIN regs' /\ regs'[rooms'[d]].code = d
    OBVIOUS
  <2>1. CASE d = c
    BY <2>1, <1>3, <1>4 DEF n
  <2>2. CASE d # c
    BY <2>2, <1>3, <1>4 DEF ServiceInv, n
  <2> QED BY <2>1, <2>2
<1>7. \A q \in DOMAIN requests : RegOf(q)' = RegOf(q) /\ RegOf(q) \in DOMAIN regs
                                 /\ regs'[RegOf(q)] = regs[RegOf(q)]
  BY <1>3, <1>5 DEF RegOf, ServiceInv
<1>8. \A q \in DOMAIN requests : RegOf(q) \in DOMAIN regs'
  BY <1>7, <1>3 DEF n
<1>9. \A q \in DOMAIN requests :
        requests'[q].live => rooms'[regs'[RegOf(q)].code] = RegOf(q)
  <2> SUFFICES ASSUME NEW q \in DOMAIN requests, requests'[q].live
               PROVE  rooms'[regs'[RegOf(q)].code] = RegOf(q)
    OBVIOUS
  <2>1. requests[q].live /\ regs[RegOf(q)].code # c
    BY <1>5 DEF RegOf
  <2>2. regs[RegOf(q)].code \in Codes
    BY <1>7, CodesOfRegs
  <2>3. rooms[regs[RegOf(q)].code] = RegOf(q)
    BY <2>1 DEF ServiceInv, Live
  <2> QED BY <2>1, <2>2, <2>3, <1>4, <1>7
<1> QED BY <1>5, <1>6, <1>7, <1>8, <1>9 DEF ServiceInv, Live, RegOf

LEMMA RemovesKeeps ==
  ASSUME ServiceTypes, ServiceInv, ServiceTypes', NEW c, Removes(c)
  PROVE  ServiceInv'
<1>1. /\ c \in Codes => rooms'[c] = None
      /\ regs' = regs
      /\ \A d \in Codes : d # c => rooms'[d] = rooms[d]
  BY DEF Removes, ServiceTypes
<1>2. /\ DOMAIN requests' = DOMAIN requests
      /\ \A q \in DOMAIN requests :
           /\ requests'[q].reg = requests[q].reg
           /\ requests'[q].status = requests[q].status
           /\ requests'[q].live
                => requests[q].live /\ regs[requests[q].reg].code # c
  BY WithoutRequestsIs DEF Removes
<1>3. \A q \in DOMAIN requests :
        requests'[q].live => rooms'[regs[RegOf(q)].code] = RegOf(q)
  <2> SUFFICES ASSUME NEW q \in DOMAIN requests, requests'[q].live
               PROVE  rooms'[regs[RegOf(q)].code] = RegOf(q)
    OBVIOUS
  <2>1. requests[q].live /\ regs[RegOf(q)].code # c
    BY <1>2 DEF RegOf
  <2>2. regs[RegOf(q)].code \in Codes
    BY CodesOfRegs DEF ServiceInv
  <2> QED BY <1>1, <2>1, <2>2 DEF ServiceInv, Live
<1>4. \A d \in Codes : rooms'[d] # None => rooms'[d] \in DOMAIN regs' /\ regs'[rooms'[d]].code = d
  BY <1>1 DEF ServiceInv
<1> QED BY <1>1, <1>2, <1>3, <1>4 DEF ServiceInv, Live, RegOf

\* A request that is made belongs to the room in force, which is open.
LEMMA AsksKeeps ==
  ASSUME ServiceTypes, ServiceInv, ServiceTypes', NEW c \in Codes, Asks(c)
  PROVE  ServiceInv'
<1> DEFINE n == Len(requests) + 1
<1>1. PICK a \in Apps :
        requests' = Append(requests, [reg |-> rooms[c], by |-> a, status |-> "waiting",
                                      live |-> TRUE])
  BY DEF Asks
<1>2. rooms' = rooms /\ regs' = regs /\ rooms[c] # None
  BY DEF Asks
<1>3. /\ Len(requests) \in Nat /\ DOMAIN requests = 1 .. Len(requests)
      /\ DOMAIN requests' = 1 .. n
      /\ requests'[n].reg = rooms[c] /\ requests'[n].status = "waiting"
      /\ \A q \in DOMAIN requests : requests'[q] = requests[q]
  BY <1>1 DEF ServiceTypes
<1>4. \A q \in DOMAIN requests' : q \in DOMAIN requests \/ q = n
  BY <1>3
<1>5. rooms[c] \in DOMAIN regs /\ regs[rooms[c]].code = c
  BY <1>2 DEF ServiceInv
<1> HIDE DEF n
<1>6. \A q \in DOMAIN requests' : RegOf(q)' \in DOMAIN regs
  BY <1>3, <1>4, <1>5 DEF ServiceInv, RegOf
<1>7. \A q \in DOMAIN requests' : Live(q)' => rooms[regs[RegOf(q)'].code] = RegOf(q)'
  BY <1>3, <1>4, <1>5 DEF ServiceInv, RegOf, Live
<1>8. \A q \in DOMAIN requests' :
        requests'[q].status = "admitted" => q \in DOMAIN requests /\ requests'[q] = requests[q]
  BY <1>3, <1>4
<1>9. \A q \in DOMAIN requests' : requests'[q].status = "admitted" => regs[RegOf(q)'].closed
  BY <1>8 DEF ServiceInv, RegOf
<1>10. \A p, q \in DOMAIN requests' :
         /\ requests'[p].status = "admitted" /\ requests'[q].status = "admitted"
         /\ RegOf(p)' = RegOf(q)'
         => p = q
  BY <1>8 DEF ServiceInv, RegOf
<1> QED BY <1>2, <1>6, <1>7, <1>9, <1>10 DEF ServiceInv

\* What is decided is about one registration, the one in force.
LEMMA DecisionIs ==
  ASSUME ServiceTypes, ServiceInv, NEW x \in Calls, x.req \in DOMAIN requests, MayDecide(x)
  PROVE  /\ x.token = RegOf(x.req) /\ x.token \in DOMAIN regs
         /\ requests[x.req].status = "waiting"
         /\ x.yes => ~regs[x.token].closed
         /\ \A q \in DecidedBy(x) : /\ q \in DOMAIN requests
                                    /\ requests[q].status = "waiting"
                                    /\ RegOf(q) = x.token
<1>1. /\ Live(x.req) /\ regs[RegOf(x.req)].code = x.code /\ x.token = rooms[x.code]
      /\ requests[x.req].status = "waiting" /\ (x.yes => ~regs[x.token].closed)
  BY DEF MayDecide, Owns, RegOf, Calls
<1>2. RegOf(x.req) \in DOMAIN regs /\ rooms[regs[RegOf(x.req)].code] = RegOf(x.req)
  BY <1>1 DEF ServiceInv
<1>3. \A q \in Waiting(x.code) : /\ q \in DOMAIN requests
                                 /\ requests[q].status = "waiting"
                                 /\ RegOf(q) = x.token
  BY <1>1 DEF Waiting, ServiceInv, RegOf
<1> QED BY <1>1, <1>2, <1>3 DEF DecidedBy

\* After an admission the registration is closed, and nobody else was let in.
LEMMA DecidesKeeps ==
  ASSUME ServiceTypes, ServiceInv, ServiceTypes', Decides
  PROVE  ServiceInv'
<1>1. PICK x \in Calls :
        /\ x.req \in DOMAIN requests /\ MayDecide(x)
        /\ requests' = [q \in DOMAIN requests |->
                          IF q \in DecidedBy(x)
                            THEN [requests[q] EXCEPT !.status = Verdict(x, q)]
                            ELSE requests[q]]
        /\ regs' = [regs EXCEPT ![x.token].closed = @ \/ x.yes]
        /\ rooms' = rooms
  BY DEF Decides
<1>2. /\ x.token = RegOf(x.req) /\ x.token \in DOMAIN regs
      /\ requests[x.req].status = "waiting"
      /\ x.yes => ~regs[x.token].closed
      /\ \A q \in DecidedBy(x) : /\ q \in DOMAIN requests
                                 /\ requests[q].status = "waiting"
                                 /\ RegOf(q) = x.token
  BY <1>1, DecisionIs
<1>3. /\ DOMAIN regs' = DOMAIN regs
      /\ \A r \in DOMAIN regs : regs'[r].code = regs[r].code
                                /\ (regs[r].closed => regs'[r].closed)
      /\ x.yes => regs'[x.token].closed
  <2>1. /\ DOMAIN regs = 1 .. Len(regs) /\ Len(regs) \in Nat
        /\ \A r \in DOMAIN regs : regs[r] \in Registration
    BY LenProperties, ElementOfSeq DEF ServiceTypes
  <2> QED BY <1>1, <1>2, <2>1 DEF Registration, Calls
<1>4. /\ DOMAIN requests' = DOMAIN requests
      /\ \A q \in DOMAIN requests : /\ requests'[q].reg = requests[q].reg
                                    /\ requests'[q].live = requests[q].live
      /\ \A q \in DOMAIN requests : requests'[q].status = IF q \in DecidedBy(x) THEN Verdict(x, q)
                                                          ELSE requests[q].status
  <2>1. \A q \in DOMAIN requests : requests[q] \in Request
    BY LenProperties, ElementOfSeq DEF ServiceTypes
  <2> QED BY <1>1, <2>1 DEF Request
<1>5. \A q \in DOMAIN requests : requests'[q].status = "admitted" =>
        \/ q = x.req /\ x.yes
        \/ requests[q].status = "admitted" /\ q \notin DecidedBy(x)
  BY <1>4 DEF Verdict
<1>6. \A q \in DOMAIN requests : RegOf(q)' = RegOf(q) /\ RegOf(q) \in DOMAIN regs
  BY <1>4 DEF RegOf, ServiceInv
<1>7. \A q \in DOMAIN requests : requests'[q].status = "admitted" => regs'[RegOf(q)].closed
  BY <1>2, <1>3, <1>5, <1>6 DEF ServiceInv
<1>8. \A p, q \in DOMAIN requests :
        /\ requests'[p].status = "admitted" /\ requests'[q].status = "admitted"
        /\ RegOf(p) = RegOf(q)
        => p = q
  BY <1>2, <1>5 DEF ServiceInv
<1>9. \A q \in DOMAIN requests : requests'[q].live => rooms[regs'[RegOf(q)].code] = RegOf(q)
  BY <1>3, <1>4, <1>6 DEF ServiceInv, Live
<1>10. \A c \in Codes : rooms[c] # None => rooms[c] \in DOMAIN regs' /\ regs'[rooms[c]].code = c
  BY <1>3 DEF ServiceInv
<1> QED BY <1>1, <1>3, <1>4, <1>6, <1>7, <1>8, <1>9, <1>10 DEF ServiceInv, Live

LEMMA ForgetsKeeps ==
  ASSUME ServiceTypes, ServiceInv, ServiceTypes', Forgets
  PROVE  ServiceInv'
<1>1. PICK f \in DOMAIN requests : requests' = [requests EXCEPT ![f].live = FALSE]
  BY DEF Forgets
<1>2. \A q \in DOMAIN requests : requests[q] \in Request
  BY LenProperties, ElementOfSeq DEF ServiceTypes
<1>3. /\ DOMAIN requests' = DOMAIN requests
      /\ \A q \in DOMAIN requests : /\ requests'[q].reg = requests[q].reg
                                    /\ requests'[q].status = requests[q].status
                                    /\ requests'[q].live => requests[q].live
  BY <1>1, <1>2 DEF Request
<1>4. rooms' = rooms /\ regs' = regs
  BY DEF Forgets
<1> QED BY <1>3, <1>4 DEF ServiceInv, RegOf, Live

\* Whatever the service does, its rooms and requests stay in order.
LEMMA ServiceStepKeeps ==
  ASSUME ServiceTypes, ServiceInv, ServiceTypes', ServiceStep
  PROVE  ServiceInv'
<1>1. CASE Ages
  BY <1>1 DEF Ages, ServiceInv, RegOf, Live
<1> QED BY <1>1, RegistersKeeps, RemovesKeeps, AsksKeeps, DecidesKeeps, ForgetsKeeps
        DEF ServiceStep

-------------------------------------------------------------------------------
(* Calls and what becomes of them.                                           *)

\* A set that a function takes a finite set onto is no larger.
LEMMA ImageIsFinite ==
  ASSUME NEW S, IsFiniteSet(S), NEW T, NEW f \in [S -> T],
         \A t \in T : \E s \in S : f[s] = t
  PROVE  IsFiniteSet(T) /\ Cardinality(T) <= Cardinality(S)
<1>1. f \in Surjection(S, T)
  BY DEF Surjection
<1> QED BY <1>1, FS_Surjection

LEMMA AnswersAre ==
  /\ NoAnswer \in Answers /\ NoAnswer.ok = FALSE /\ NoAnswer.list = {}
  /\ Accepted \in Answers /\ Accepted.list = {}
  BY DEF NoAnswer, Accepted, Answers, None

\* Fewer calls are in order if all are.
LEMMA FewerCalls ==
  ASSUME ServiceTypes, NEW calls, NetOK(calls), NEW C \in SUBSET calls
  PROVE  NetOK(C)
<1>1. IsFiniteSet(C)
  BY FS_Subset DEF NetOK
<1>2. \A op : /\ Cardinality(Pending(C, op)) <= Cardinality(Pending(calls, op))
              /\ Cardinality(Pending(C, op)) \in Nat
              /\ Cardinality(Pending(calls, op)) \in Nat
  <2> TAKE op
  <2>1. IsFiniteSet(Pending(calls, op))
    BY FS_Subset DEF NetOK, Pending
  <2>2. Pending(C, op) \in SUBSET Pending(calls, op)
    BY DEF Pending
  <2> QED BY <2>1, <2>2, FS_Subset, FS_CardinalityType
<1>3. Len(regs) \in Nat /\ Len(requests) \in Nat
  BY DEF ServiceTypes
<1> QED BY <1>1, <1>2, <1>3, SizesAssumption DEF NetOK

\* More calls are in order if they are nothing to be acted on but questions,
\* heartbeats, removals and decisions.
LEMMA MoreCalls ==
  ASSUME NEW calls, NetOK(calls), NEW C \in SUBSET Calls, IsFiniteSet(C),
         \A x \in C : CallKnown(x) /\ x.op \notin {"create", "join"}
  PROVE  NetOK(calls \cup C)
<1>1. IsFiniteSet(calls \cup C)
  BY FS_Union DEF NetOK
<1>2. \A op \in {"create", "join"} : Pending(calls \cup C, op) = Pending(calls, op)
  BY DEF Pending
<1> QED BY <1>1, <1>2 DEF NetOK

\* ++generation_ and the call to remove a room: calls are given up, none is added
\* that the service would register or let in.
LEMMA StopCallsIs ==
  ASSUME ServiceTypes, DirOK(dir), NEW a \in Apps, NEW calls, NetOK(calls)
  PROVE  /\ NetOK(StopCalls(a, calls))
         /\ \A op \in {"create", "join"} :
              Cardinality(Pending(StopCalls(a, calls), op)) <= Cardinality(Pending(calls, op))
<1> DEFINE own == {x \in calls : x.app = a /\ x.stage # "abandoned"}
           F(x) == [x EXCEPT !.stage = "abandoned"]
           removal == Call(a, "remove", dir[a].code, dir[a].token, None, FALSE)
           kept == (calls \ own) \cup Abandoned(own)
           sent == {x \in own : x.stage = "sent"}
<1>1. \A x \in Calls : /\ F(x) \in Calls /\ F(x).stage = "abandoned"
                       /\ F(x).op = x.op /\ F(x).code = x.code /\ F(x).req = x.req
                       /\ F(x).answer = x.answer /\ (CallKnown(x) => CallKnown(F(x)))
  BY DEF Calls, Stages, CallKnown
<1>2. \A y : y \in Abandoned(own) <=> \E x \in sent : y = F(x)
  BY DEF Abandoned
<1> HIDE DEF F
<1>3. own \subseteq calls /\ calls \subseteq Calls /\ sent \subseteq own
  BY DEF NetOK
<1>4. IsFiniteSet(Abandoned(own))
  <2>1. IsFiniteSet(sent)
    BY <1>3, FS_Subset DEF NetOK
  <2> DEFINE f == [x \in sent |-> F(x)]
  <2>2. f \in [sent -> Abandoned(own)]
    BY <1>2
  <2>3. \A y \in Abandoned(own) : \E x \in sent : f[x] = y
    BY <1>2
  <2> HIDE DEF f
  <2> QED BY <2>1, <2>2, <2>3, ImageIsFinite
<1>5. kept \subseteq Calls /\ IsFiniteSet(kept) /\ \A x \in kept : CallKnown(x)
  <2>1. IsFiniteSet(calls \ own)
    BY FS_Subset DEF NetOK
  <2>2. IsFiniteSet(kept)
    BY <1>4, <2>1, FS_Union
  <2>3. \A x \in kept : x \in Calls /\ CallKnown(x)
    <3> SUFFICES ASSUME NEW y \in kept PROVE y \in Calls /\ CallKnown(y)
      OBVIOUS
    <3>1. CASE y \in calls \ own
      BY <3>1 DEF NetOK
    <3>2. CASE y \in Abandoned(own)
      <4>1. PICK x \in sent : y = F(x)
        BY <3>2, <1>2
      <4>2. x \in Calls /\ CallKnown(x)
        BY <1>3 DEF NetOK
      <4> QED BY <4>1, <4>2, <1>1
    <3> QED BY <3>1, <3>2
  <2> QED BY <2>2, <2>3
<1>6. \A op : /\ Cardinality(Pending(kept, op)) <= Cardinality(Pending(calls, op))
              /\ Cardinality(Pending(kept, op)) \in Nat
              /\ Cardinality(Pending(calls, op)) \in Nat
  <2> TAKE op
  <2> DEFINE S == Pending(calls, op)
             T == Pending(kept, op)
             f == [x \in S |-> IF x \in sent THEN F(x) ELSE x]
  <2>1. IsFiniteSet(S)
    BY FS_Subset DEF NetOK, Pending
  <2>2. \A x \in S : f[x] \in T
    <3> SUFFICES ASSUME NEW x \in S PROVE f[x] \in T
      OBVIOUS
    <3>1. x \in calls /\ x \in Calls /\ x.op = op /\ x.stage # "answered"
      BY <1>3 DEF Pending
    <3>2. CASE x \in sent
      <4>1. F(x) \in kept /\ F(x).op = op /\ F(x).stage # "answered"
        BY <3>1, <3>2, <1>1, <1>2
      <4> QED BY <4>1, <3>2 DEF Pending
    <3>3. CASE x \notin sent
      <4>1. x \notin own
        BY <3>1, <3>3 DEF Calls, Stages
      <4> QED BY <3>1, <3>3, <4>1 DEF Pending
    <3> QED BY <3>2, <3>3
  <2>3. \A y \in T : \E x \in S : f[x] = y
    <3> SUFFICES ASSUME NEW y \in T PROVE \E x \in S : f[x] = y
      OBVIOUS
    <3>1. y \in kept /\ y.op = op /\ y.stage # "answered"
      BY DEF Pending
    <3>2. CASE y \in calls \ own
      <4>1. y \in S /\ f[y] = y
        BY <3>1, <3>2, <1>3 DEF Pending
      <4> QED BY <4>1
    <3>3. CASE y \in Abandoned(own)
      <4>1. PICK x \in sent : y = F(x)
        BY <3>3, <1>2
      <4>2. x \in S
        BY <4>1, <3>1, <1>1, <1>3 DEF Pending
      <4> QED BY <4>1, <4>2
    <3> QED BY <3>1, <3>2, <3>3
  <2>4. f \in [S -> T]
    BY <2>2
  <2> HIDE DEF f, S, T
  <2>5. IsFiniteSet(T) /\ Cardinality(T) <= Cardinality(S)
    BY <2>1, <2>3, <2>4, ImageIsFinite
  <2> QED BY <2>1, <2>5, FS_CardinalityType DEF S, T
<1>7. NetOK(kept)
  <2>1. Len(regs) \in Nat /\ Len(requests) \in Nat
    BY DEF ServiceTypes
  <2> QED BY <1>5, <1>6, <2>1, SizesAssumption DEF NetOK
<1>8. StopCalls(a, calls) = kept \cup IF dir[a].hosting THEN Abandoned({removal}) ELSE {}
  BY DEF StopCalls, Overtaken
<1>9. CASE ~dir[a].hosting
  BY <1>6, <1>7, <1>8, <1>9
<1>10. CASE dir[a].hosting
  <2>1. removal \in Calls /\ removal.op = "remove" /\ removal.answer = NoAnswer
    <3>1. dir[a].code \in Codes \cup {NoCode} /\ dir[a].token \in Nat
      BY DEF DirOK, Clients
    <3> QED BY <3>1, AnswersAre DEF Call, Calls, Ops, Stages, None
  <2>2. removal.stage = "sent"
    BY DEF Call
  <2> HIDE DEF removal
  <2>3. Abandoned({removal}) = {F(removal)}
    BY <2>2 DEF Abandoned, F
  <2>4. F(removal) \in Calls /\ F(removal).op = "remove" /\ CallKnown(F(removal))
    BY <1>1, <2>1, AnswersAre DEF CallKnown
  <2> HIDE DEF kept
  <2>5. NetOK(kept \cup {F(removal)})
    BY <1>7, <2>4, MoreCalls, FS_Singleton
  <2>6. \A op \in {"create", "join"} : Pending(kept \cup {F(removal)}, op) = Pending(kept, op)
    BY <2>4 DEF Pending
  <2> QED BY <1>6, <1>8, <1>10, <2>3, <2>5, <2>6
<1> QED BY <1>9, <1>10

-------------------------------------------------------------------------------
(* The client's part of a step.                                              *)

\* One client changes, and names only what the service knows.
LEMMA OneClient ==
  ASSUME DirOK(dir), NEW a \in Apps, NEW client \in Clients,
         client.list \subseteq DOMAIN requests,
         client.waiting => client.req \in DOMAIN requests
  PROVE  DirOK([dir EXCEPT ![a] = client])
  BY DEF DirOK

\* One client changes, but neither the requests it is shown nor its own.
LEMMA OneFieldOfClient ==
  ASSUME DirOK(dir), NEW a \in Apps, NEW client \in Clients,
         client.list = dir[a].list,
         client.waiting = dir[a].waiting, client.req = dir[a].req,
         dir' = [dir EXCEPT ![a] = client], UNCHANGED requests
  PROVE  DirOK(dir')
<1>1. client.list \subseteq DOMAIN requests /\ (client.waiting => client.req \in DOMAIN requests)
  BY DEF DirOK
<1> QED BY <1>1, OneClient

LEMMA IdleIs == Idle \in Clients /\ Idle.list = {} /\ Idle.waiting = FALSE
  BY DEF Idle, Clients, None

\* A call that is asked to nobody's disadvantage, whoever makes it.
LEMMA OneMore ==
  ASSUME NEW calls, NetOK(calls), NEW x \in Calls, CallKnown(x),
         x.op \notin {"create", "join"}
  PROVE  NetOK(calls \cup {x})
  BY MoreCalls, FS_Singleton

\* A room to register or a request to make: one more to be bounded.
LEMMA OneToServe ==
  ASSUME ServiceTypes, NEW calls, NetOK(calls), NEW x \in Calls, CallKnown(x),
         x.op = "create" =>
           Len(regs) + Cardinality(Pending(calls, "create")) + 1 <= MaxRegs,
         x.op = "join" =>
           Len(requests) + Cardinality(Pending(calls, "join")) + 1 <= MaxReqs
  PROVE  NetOK(calls \cup {x})
<1>1. IsFiniteSet(calls \cup {x})
  BY FS_AddElement DEF NetOK
<1>2. \A op : /\ Cardinality(Pending(calls, op)) \in Nat
              /\ Cardinality(Pending(calls \cup {x}, op)) \in Nat
              /\ Cardinality(Pending(calls \cup {x}, op))
                   <= Cardinality(Pending(calls, op)) + IF x.op = op THEN 1 ELSE 0
  <2> TAKE op
  <2>1. IsFiniteSet(Pending(calls, op))
    BY FS_Subset DEF NetOK, Pending
  <2>2. CASE x.op = op /\ x.stage # "answered"
    <3>1. Pending(calls \cup {x}, op) = Pending(calls, op) \cup {x}
      BY <2>2 DEF Pending
    <3> DEFINE P == Pending(calls, op)
    <3>2. IsFiniteSet(P) /\ Cardinality(P) \in Nat
      BY <2>1, FS_CardinalityType
    <3> HIDE DEF P
    <3>3. IsFiniteSet(P \cup {x}) /\ (x \in P \/ Cardinality(P \cup {x}) = Cardinality(P) + 1)
      BY <3>2, FS_AddElement
    <3>4. x \in P => P \cup {x} = P
      OBVIOUS
    <3>5. Cardinality(P \cup {x}) \in Nat /\ Cardinality(P \cup {x}) <= Cardinality(P) + 1
      <4>1. CASE x \in P
        <5>1. Cardinality(P \cup {x}) = Cardinality(P)
          BY <3>4, <4>1, Zenon
        <5> QED BY <3>2, <5>1
      <4>2. CASE x \notin P
        BY <3>2, <3>3, <4>2
      <4> QED BY <4>1, <4>2
    <3> QED BY <2>2, <3>1, <3>2, <3>5 DEF P
  <2>3. CASE ~(x.op = op /\ x.stage # "answered")
    <3>1. Pending(calls \cup {x}, op) = Pending(calls, op)
      BY <2>3 DEF Pending
    <3> QED BY <2>1, <3>1, FS_CardinalityType
  <2> QED BY <2>2, <2>3
<1>3. Len(regs) \in Nat /\ Len(requests) \in Nat
  BY DEF ServiceTypes
<1>4. /\ Len(regs) + Cardinality(Pending(calls, "create")) <= MaxRegs
      /\ Len(requests) + Cardinality(Pending(calls, "join")) <= MaxReqs
  BY DEF NetOK
<1> DEFINE more(op) == Cardinality(Pending(calls \cup {x}, op))
           now(op) == Cardinality(Pending(calls, op))
<1>5. Len(regs) + more("create") <= MaxRegs
  <2>1. /\ now("create") \in Nat /\ more("create") \in Nat
        /\ more("create") <= now("create") + IF x.op = "create" THEN 1 ELSE 0
    BY <1>2
  <2>2. /\ Len(regs) + now("create") <= MaxRegs
        /\ x.op = "create" => Len(regs) + now("create") + 1 <= MaxRegs
    BY <1>4
  <2> HIDE DEF more, now
  <2>3. CASE x.op = "create"
    BY <1>3, <2>1, <2>2, <2>3, SizesAssumption
  <2>4. CASE x.op # "create"
    BY <1>3, <2>1, <2>2, <2>4, SizesAssumption
  <2> QED BY <2>3, <2>4
<1>6. Len(requests) + more("join") <= MaxReqs
  <2>1. /\ now("join") \in Nat /\ more("join") \in Nat
        /\ more("join") <= now("join") + IF x.op = "join" THEN 1 ELSE 0
    BY <1>2
  <2>2. /\ Len(requests) + now("join") <= MaxReqs
        /\ x.op = "join" => Len(requests) + now("join") + 1 <= MaxReqs
    BY <1>4
  <2> HIDE DEF more, now
  <2>3. CASE x.op = "join"
    BY <1>3, <2>1, <2>2, <2>3, SizesAssumption
  <2>4. CASE x.op # "join"
    BY <1>3, <2>1, <2>2, <2>4, SizesAssumption
  <2> QED BY <2>3, <2>4
<1>7. calls \cup {x} \subseteq Calls /\ \A y \in calls \cup {x} : CallKnown(y)
  BY DEF NetOK
<1> QED BY <1>1, <1>5, <1>6, <1>7 DEF NetOK

\* What is pending after a generation is no more than what there was.
LEMMA StopCallsPending ==
  ASSUME ServiceTypes, NEW calls, NetOK(calls), NEW stopped, NetOK(stopped), NEW op,
         NEW n \in Nat, NEW m \in Nat,
         Cardinality(Pending(stopped, op)) <= Cardinality(Pending(calls, op)),
         n + Cardinality({x \in calls : x.op = op}) < m
  PROVE  n + Cardinality(Pending(stopped, op)) + 1 <= m
<1>1. IsFiniteSet({x \in calls : x.op = op})
  BY FS_Subset DEF NetOK
<1>2. Pending(calls, op) \in SUBSET {x \in calls : x.op = op}
  BY DEF Pending
<1>3. IsFiniteSet(Pending(stopped, op))
  BY FS_Subset DEF NetOK, Pending
<1>4. /\ Cardinality(Pending(calls, op)) <= Cardinality({x \in calls : x.op = op})
      /\ Cardinality({x \in calls : x.op = op}) \in Nat
      /\ Cardinality(Pending(calls, op)) \in Nat
      /\ Cardinality(Pending(stopped, op)) \in Nat
  BY <1>1, <1>2, <1>3, FS_Subset, FS_CardinalityType
<1> QED BY <1>4

\* The service's part is left alone, so what is in order stays so.
LEMMA SameService ==
  ASSUME TypeInv, UNCHANGED service, DirOK(dir'), NetOK(net'), lost' \in Nat
  PROVE  TypeInv'
<1>1. rooms' = rooms /\ regs' = regs /\ requests' = requests
  BY DEF service
<1> QED BY <1>1 DEF TypeInv, ServiceTypes, DirOK, NetOK, CallKnown, Live

LEMMA HostCodeTyped ==
  ASSUME TypeInv, NEW a \in Apps, NEW c \in Codes, HostCode(a, c)
  PROVE  TypeInv'
<1> DEFINE stopped == StopCalls(a, net)
           call == Call(a, "create", c, None, None, FALSE)
           client == [Idle EXCEPT !.showing = TRUE, !.code = c, !.busy = TRUE]
<1>1. /\ dir' = [dir EXCEPT ![a] = client]
      /\ net' = stopped \cup {call}
      /\ Len(regs) + Cardinality({x \in net : x.op = "create"}) < MaxRegs
      /\ UNCHANGED service /\ lost' = lost
  BY DEF HostCode
<1>2. call \in Calls /\ call.op = "create" /\ CallKnown(call)
  <2>1. call \in Calls /\ call.op = "create" /\ call.code = c /\ call.answer = NoAnswer
    BY AnswersAre DEF Call, Calls, Ops, Stages, None
  <2> QED BY <2>1, AnswersAre DEF CallKnown
<1>3. NetOK(stopped) /\ Cardinality(Pending(stopped, "create"))
                          <= Cardinality(Pending(net, "create"))
  BY StopCallsIs DEF TypeInv
<1> HIDE DEF stopped, call
<1>4. Len(regs) + Cardinality(Pending(stopped, "create")) + 1 <= MaxRegs
  <2>1. Len(regs) \in Nat /\ ServiceTypes /\ NetOK(net)
    BY DEF TypeInv, ServiceTypes
  <2> QED BY <1>1, <1>3, <2>1, StopCallsPending, SizesAssumption
<1>5. NetOK(net')
  BY <1>1, <1>2, <1>3, <1>4, OneToServe DEF TypeInv
<1>6. client \in Clients /\ client.list = {} /\ ~client.waiting
  BY IdleIs DEF Clients, Idle
<1> HIDE DEF client
<1>7. DirOK(dir')
  BY <1>1, <1>6, OneClient DEF TypeInv
<1> QED BY <1>1, <1>5, <1>7, SameService DEF TypeInv

LEMMA JoinCodeTyped ==
  ASSUME TypeInv, NEW a \in Apps, NEW c \in Codes, JoinCode(a, c)
  PROVE  TypeInv'
<1> DEFINE stopped == StopCalls(a, net)
           call == Call(a, "join", c, None, None, FALSE)
           client == [Idle EXCEPT !.code = c, !.busy = TRUE, !.active = TRUE]
<1>1. /\ dir' = [dir EXCEPT ![a] = client]
      /\ net' = stopped \cup {call}
      /\ Len(requests) + Cardinality({x \in net : x.op = "join"}) < MaxReqs
      /\ UNCHANGED service /\ lost' = lost
  BY DEF JoinCode
<1>2. call \in Calls /\ call.op = "join" /\ CallKnown(call)
  <2>1. call \in Calls /\ call.op = "join" /\ call.code = c /\ call.answer = NoAnswer
    BY AnswersAre DEF Call, Calls, Ops, Stages, None
  <2> QED BY <2>1, AnswersAre DEF CallKnown
<1>3. NetOK(stopped) /\ Cardinality(Pending(stopped, "join"))
                          <= Cardinality(Pending(net, "join"))
  BY StopCallsIs DEF TypeInv
<1> HIDE DEF stopped, call
<1>4. Len(requests) + Cardinality(Pending(stopped, "join")) + 1 <= MaxReqs
  <2>1. Len(requests) \in Nat /\ ServiceTypes /\ NetOK(net)
    BY DEF TypeInv, ServiceTypes
  <2> QED BY <1>1, <1>3, <2>1, StopCallsPending, SizesAssumption
<1>5. NetOK(net')
  BY <1>1, <1>2, <1>3, <1>4, OneToServe DEF TypeInv
<1>6. client \in Clients /\ client.list = {} /\ ~client.waiting
  BY IdleIs DEF Clients, Idle
<1> HIDE DEF client
<1>7. DirOK(dir')
  BY <1>1, <1>6, OneClient DEF TypeInv
<1> QED BY <1>1, <1>5, <1>7, SameService DEF TypeInv

\* Leaving, and an invite that is dialled or taken for a code.
LEMMA LeaveTyped ==
  ASSUME TypeInv, NEW a \in Apps, Leave(a) \/ \E h \in Hosts : JoinInvite(a, h)
  PROVE  TypeInv'
<1>1. UNCHANGED service /\ lost' = lost
  BY DEF Leave, JoinInvite
<1>2. CASE dir' = [dir EXCEPT ![a] = Idle] /\ net' = StopCalls(a, net)
  <2>1. DirOK(dir')
    BY <1>2, IdleIs, OneClient DEF TypeInv
  <2>2. NetOK(net')
    BY <1>2, StopCallsIs DEF TypeInv
  <2> QED BY <1>1, <2>1, <2>2, SameService DEF TypeInv
<1>3. CASE dir' = [dir EXCEPT ![a].told = "refused"] /\ net' = net
  <2> DEFINE client == [dir[a] EXCEPT !.told = "refused"]
  <2>1. DirOK(dir')
    <3>1. dir' = [dir EXCEPT ![a] = client] /\ UNCHANGED requests
      BY <1>1, <1>3 DEF service
    <3>2. /\ client \in Clients /\ client.list = dir[a].list
          /\ client.waiting = dir[a].waiting /\ client.req = dir[a].req
      BY DEF TypeInv, DirOK, Clients
    <3> HIDE DEF client
    <3> QED BY <3>1, <3>2, OneFieldOfClient DEF TypeInv
  <2> QED BY <1>1, <1>3, <2>1, SameService DEF TypeInv
<1> QED BY <1>2, <1>3 DEF Leave, JoinInvite

LEMMA DecideTyped ==
  ASSUME TypeInv, NEW a \in Apps, NEW q \in Reqs, NEW yes \in BOOLEAN, Decide(a, q, yes)
  PROVE  TypeInv'
<1> DEFINE call == Call(a, "decide", dir[a].code, dir[a].token, q, yes)
<1>1. /\ dir' = [dir EXCEPT ![a].busy = TRUE] /\ net' = net \cup {call}
      /\ UNCHANGED service /\ lost' = lost /\ q \in dir[a].list
  BY DEF Decide
<1>2. call \in Calls /\ call.op = "decide" /\ CallKnown(call)
  <2>1. dir[a].code \in Codes \cup {NoCode} /\ dir[a].token \in Nat /\ q \in Nat
        /\ q \in DOMAIN requests
    BY <1>1 DEF TypeInv, DirOK, Clients, Reqs
  <2>2. call \in Calls /\ call.op = "decide" /\ call.req = q /\ call.answer = NoAnswer
    BY <2>1, AnswersAre DEF Call, Calls, Ops, Stages, None
  <2> QED BY <2>1, <2>2, AnswersAre DEF CallKnown
<1> HIDE DEF call
<1>3. NetOK(net')
  BY <1>1, <1>2, OneMore DEF TypeInv
<1>4. DirOK(dir')
  <2> DEFINE client == [dir[a] EXCEPT !.busy = TRUE]
  <2>1. dir' = [dir EXCEPT ![a] = client] /\ UNCHANGED requests
    BY <1>1 DEF service
  <2>2. /\ client \in Clients /\ client.list = dir[a].list
        /\ client.waiting = dir[a].waiting /\ client.req = dir[a].req
    BY DEF TypeInv, DirOK, Clients
  <2> HIDE DEF client
  <2> QED BY <2>1, <2>2, OneFieldOfClient DEF TypeInv
<1> QED BY <1>1, <1>3, <1>4, SameService DEF TypeInv

\* The questions a host and a guest ask, with their answers.
LEMMA PollHostIs ==
  ASSUME ServiceTypes, DirOK(dir), NEW a \in Apps
  PROVE  PollHost(a) \in Calls /\ PollHost(a).op = "list" /\ CallKnown(PollHost(a))
<1> DEFINE x == Call(a, "list", dir[a].code, dir[a].token, None, FALSE)
<1>1. x \in Calls /\ x.op = "list" /\ x.code = dir[a].code
  <2>1. dir[a].code \in Codes \cup {NoCode} /\ dir[a].token \in Nat
    BY DEF DirOK, Clients
  <2> QED BY <2>1, AnswersAre DEF Call, Calls, Ops, Stages, None
<1>2. AnswerToList(x) \in Answers /\ AnswerToList(x).list \subseteq DOMAIN requests
  <2>1. \A c : Waiting(c) \subseteq DOMAIN requests /\ Waiting(c) \subseteq Nat
    BY LenProperties DEF Waiting, ServiceTypes
  <2> QED BY <2>1, AnswersAre DEF AnswerToList, Answers
<1>3. PollHost(a) = [x EXCEPT !.stage = "answered", !.answer = AnswerToList(x)]
  BY DEF PollHost, Asked
<1> HIDE DEF x
<1> QED BY <1>1, <1>2, <1>3 DEF Calls, Stages, CallKnown

LEMMA PollGuestIs ==
  ASSUME ServiceTypes, DirOK(dir), NEW a \in Apps, dir[a].waiting
  PROVE  PollGuest(a) \in Calls /\ PollGuest(a).op = "status" /\ CallKnown(PollGuest(a))
<1> DEFINE x == Call(a, "status", NoCode, None, dir[a].req, FALSE)
<1>1. x \in Calls /\ x.op = "status" /\ x.req = dir[a].req
  <2>1. dir[a].req \in Nat
    BY DEF DirOK, Clients
  <2> QED BY <2>1, AnswersAre DEF Call, Calls, Ops, Stages, None
<1>2. requests[x.req].status \in Statuses
  <2>1. x.req \in DOMAIN requests
    BY <1>1 DEF DirOK
  <2>2. requests[x.req] \in Request
    BY <2>1, LenProperties, ElementOfSeq DEF ServiceTypes
  <2> QED BY <2>2 DEF Request
<1> HIDE DEF x
<1>3. AnswerToStatus(x) \in Answers /\ AnswerToStatus(x).list = {}
  BY <1>2, AnswersAre DEF AnswerToStatus, Answers
<1>4. PollGuest(a) = [x EXCEPT !.stage = "answered", !.answer = AnswerToStatus(x)]
  BY DEF PollGuest, Asked, x
<1> QED BY <1>1, <1>3, <1>4 DEF Calls, Stages, CallKnown

LEMMA PollTyped ==
  ASSUME TypeInv, NEW a \in Apps, Poll(a)
  PROVE  TypeInv'
<1>1. /\ dir' = [dir EXCEPT ![a].polling = TRUE] /\ lost' = lost
      /\ UNCHANGED <<rooms, regs, requests>>
  BY DEF Poll
<1>2. DirOK(dir')
  <2> DEFINE client == [dir[a] EXCEPT !.polling = TRUE]
  <2>1. dir' = [dir EXCEPT ![a] = client] /\ UNCHANGED requests
    BY <1>1
  <2>2. /\ client \in Clients /\ client.list = dir[a].list
        /\ client.waiting = dir[a].waiting /\ client.req = dir[a].req
    BY DEF TypeInv, DirOK, Clients
  <2> HIDE DEF client
  <2> QED BY <2>1, <2>2, OneFieldOfClient DEF TypeInv
<1>3. \E x \in Calls : net' = net \cup {x} /\ CallKnown(x) /\ x.op \notin {"create", "join"}
  BY PollHostIs, PollGuestIs DEF Poll, TypeInv
<1>4. NetOK(net')
  BY <1>3, OneMore DEF TypeInv
<1> QED BY <1>1, <1>2, <1>4 DEF TypeInv, ServiceTypes, DirOK, NetOK, CallKnown

\* What a client makes of an answer names no request the service does not know.
LEMMA ClientAfter ==
  ASSUME DirOK(dir), NEW a \in Apps, NEW answer \in Answers,
         answer.list \subseteq DOMAIN requests
  PROVE  /\ OnCreate(a, answer) \in Clients
         /\ OnCreate(a, answer).list = dir[a].list
         /\ OnCreate(a, answer).waiting
              => dir[a].waiting /\ OnCreate(a, answer).req = dir[a].req
         /\ OnJoin(a, answer) \in Clients
         /\ OnJoin(a, answer).list = dir[a].list
         /\ answer.ok => OnJoin(a, answer).req = answer.id
         /\ ~answer.ok => OnJoin(a, answer).waiting = dir[a].waiting
                          /\ OnJoin(a, answer).req = dir[a].req
         /\ OnBeat(a, answer) \in Clients
         /\ OnBeat(a, answer).list = dir[a].list
         /\ OnBeat(a, answer).waiting = dir[a].waiting /\ OnBeat(a, answer).req = dir[a].req
         /\ OnList(a, answer) \in Clients
         /\ OnList(a, answer).list \in {dir[a].list, answer.list}
         /\ OnList(a, answer).waiting = dir[a].waiting /\ OnList(a, answer).req = dir[a].req
         /\ OnDecide(a, answer) \in Clients
         /\ OnDecide(a, answer).list = dir[a].list
         /\ OnDecide(a, answer).waiting = dir[a].waiting /\ OnDecide(a, answer).req = dir[a].req
         /\ OnStatus(a, answer) \in Clients
         /\ OnStatus(a, answer).list \in {dir[a].list, {}}
         /\ OnStatus(a, answer).waiting
              => dir[a].waiting /\ OnStatus(a, answer).req = dir[a].req
<1>1. dir[a] \in Clients
  BY DEF DirOK
<1>2. answer.ok \in BOOLEAN /\ answer.id \in Nat /\ answer.list \in SUBSET Nat
  BY DEF Answers
<1>3. /\ OnCreate(a, answer) \in Clients
      /\ OnCreate(a, answer).list = dir[a].list
      /\ OnCreate(a, answer).waiting
           => dir[a].waiting /\ OnCreate(a, answer).req = dir[a].req
  BY <1>1, <1>2 DEF OnCreate, Clients
<1>4. /\ OnJoin(a, answer) \in Clients
      /\ OnJoin(a, answer).list = dir[a].list
      /\ answer.ok => OnJoin(a, answer).req = answer.id
      /\ ~answer.ok => OnJoin(a, answer).waiting = dir[a].waiting
                       /\ OnJoin(a, answer).req = dir[a].req
  BY <1>1, <1>2 DEF OnJoin, Clients
<1>5. /\ OnBeat(a, answer) \in Clients
      /\ OnBeat(a, answer).list = dir[a].list
      /\ OnBeat(a, answer).waiting = dir[a].waiting /\ OnBeat(a, answer).req = dir[a].req
  BY <1>1 DEF OnBeat, Clients
<1>6. /\ OnList(a, answer) \in Clients
      /\ OnList(a, answer).list \in {dir[a].list, answer.list}
      /\ OnList(a, answer).waiting = dir[a].waiting /\ OnList(a, answer).req = dir[a].req
  BY <1>1, <1>2 DEF OnList, Clients
<1>7. /\ OnDecide(a, answer) \in Clients
      /\ OnDecide(a, answer).list = dir[a].list
      /\ OnDecide(a, answer).waiting = dir[a].waiting /\ OnDecide(a, answer).req = dir[a].req
  BY <1>1, <1>2 DEF OnDecide, Clients
<1>8. /\ OnStatus(a, answer) \in Clients
      /\ OnStatus(a, answer).list \in {dir[a].list, {}}
      /\ OnStatus(a, answer).waiting
           => dir[a].waiting /\ OnStatus(a, answer).req = dir[a].req
  <2>1. CASE answer.ok /\ answer.status = "admitted"
    BY <2>1, IdleIs DEF OnStatus
  <2>2. CASE ~(answer.ok /\ answer.status = "admitted")
    BY <1>1, <1>2, <2>2 DEF OnStatus, Clients
  <2> QED BY <2>1, <2>2
<1> QED BY <1>3, <1>4, <1>5, <1>6, <1>7, <1>8

LEMMA HandleTyped ==
  ASSUME TypeInv, NEW x \in net, x.op # "remove", NEW answer \in Answers,
         answer.list \subseteq DOMAIN requests,
         x.op = "join" /\ answer.ok => answer.id \in DOMAIN requests,
         Handle(x, answer, net \ {x}), UNCHANGED service, lost' \in Nat
  PROVE  TypeInv'
<1> DEFINE rest == net \ {x}
<1>1. x \in Calls /\ x.app \in Apps /\ x.op \in Ops
  BY DEF TypeInv, NetOK, Calls
<1>2. NetOK(rest)
  BY FewerCalls DEF TypeInv
<1>3. \E client \in Clients :
        /\ dir' = [dir EXCEPT ![x.app] = client]
        /\ client.list \subseteq DOMAIN requests
        /\ client.waiting => client.req \in DOMAIN requests
  <2>1. /\ dir[x.app].list \subseteq DOMAIN requests
        /\ dir[x.app].waiting => dir[x.app].req \in DOMAIN requests
    BY <1>1 DEF TypeInv, DirOK
  <2>2. DirOK(dir)
    BY DEF TypeInv
  <2>3. CASE x.op = "create"
    <3> DEFINE client == OnCreate(x.app, answer)
    <3>1. dir' = [dir EXCEPT ![x.app] = client]
      BY <2>3 DEF Handle
    <3>2. /\ client \in Clients /\ client.list \subseteq DOMAIN requests
          /\ client.waiting => client.req \in DOMAIN requests
      BY <1>1, <2>1, <2>2, ClientAfter
    <3> HIDE DEF client
    <3> QED BY <3>1, <3>2
  <2>4. CASE x.op = "join"
    <3> DEFINE client == OnJoin(x.app, answer)
    <3>1. dir' = [dir EXCEPT ![x.app] = client]
      BY <2>4 DEF Handle
    <3>2. answer.ok \in BOOLEAN
      BY DEF Answers
    <3>3. /\ client \in Clients /\ client.list \subseteq DOMAIN requests
          /\ client.waiting => client.req \in DOMAIN requests
      BY <1>1, <2>1, <2>2, <2>4, <3>2, ClientAfter
    <3> HIDE DEF client
    <3> QED BY <3>1, <3>3
  <2>5. CASE x.op = "beat"
    <3> DEFINE client == OnBeat(x.app, answer)
    <3>1. dir' = [dir EXCEPT ![x.app] = client]
      BY <2>5 DEF Handle
    <3>2. /\ client \in Clients /\ client.list \subseteq DOMAIN requests
          /\ client.waiting => client.req \in DOMAIN requests
      BY <1>1, <2>1, <2>2, ClientAfter
    <3> HIDE DEF client
    <3> QED BY <3>1, <3>2
  <2>6. CASE x.op = "list"
    <3> DEFINE client == OnList(x.app, answer)
    <3>1. dir' = [dir EXCEPT ![x.app] = client]
      BY <2>6 DEF Handle
    <3>2. /\ client \in Clients /\ client.list \subseteq DOMAIN requests
          /\ client.waiting => client.req \in DOMAIN requests
      BY <1>1, <2>1, <2>2, ClientAfter
    <3> HIDE DEF client
    <3> QED BY <3>1, <3>2
  <2>7. CASE x.op = "decide"
    <3> DEFINE client == OnDecide(x.app, answer)
    <3>1. dir' = [dir EXCEPT ![x.app] = client]
      BY <2>7 DEF Handle
    <3>2. /\ client \in Clients /\ client.list \subseteq DOMAIN requests
          /\ client.waiting => client.req \in DOMAIN requests
      BY <1>1, <2>1, <2>2, ClientAfter
    <3> HIDE DEF client
    <3> QED BY <3>1, <3>2
  <2>8. CASE x.op = "status"
    <3> DEFINE client == OnStatus(x.app, answer)
    <3>1. dir' = [dir EXCEPT ![x.app] = client]
      BY <2>8 DEF Handle
    <3>2. /\ client \in Clients /\ client.list \subseteq DOMAIN requests
          /\ client.waiting => client.req \in DOMAIN requests
      BY <1>1, <2>1, <2>2, ClientAfter
    <3> HIDE DEF client
    <3> QED BY <3>1, <3>2
  <2> QED BY <1>1, <2>3, <2>4, <2>5, <2>6, <2>7, <2>8 DEF Ops
<1>4. DirOK(dir')
  BY <1>1, <1>3, OneClient DEF TypeInv
<1>5. NetOK(net')
  <2>1. net' \in {rest, rest \cup {PollHost(x.app)}, StopCalls(x.app, rest)}
    BY <1>1 DEF Handle, Ops
  <2>2. NetOK(rest \cup {PollHost(x.app)})
    <3>1. PollHost(x.app) \in Calls /\ PollHost(x.app).op = "list" /\ CallKnown(PollHost(x.app))
      BY <1>1, PollHostIs DEF TypeInv
    <3> HIDE DEF rest
    <3> QED BY <1>2, <3>1, OneMore
  <2>3. NetOK(StopCalls(x.app, rest))
    <3> HIDE DEF rest
    <3> QED BY <1>1, <1>2, StopCallsIs DEF TypeInv
  <2> QED BY <1>2, <2>1, <2>2, <2>3
<1> QED BY <1>4, <1>5, SameService

LEMMA AnswerTyped ==
  ASSUME TypeInv, NEW x \in net, Answer(x) \/ Fail(x)
  PROVE  TypeInv'
<1>1. /\ x \in Calls /\ CallKnown(x) /\ lost \in Nat
      /\ x.answer \in Answers /\ x.answer.list \subseteq DOMAIN requests
      /\ x.op = "join" /\ x.answer.ok => x.answer.id \in DOMAIN requests
  BY DEF TypeInv, NetOK, Calls, CallKnown
<1>2. x.op # "remove"
  BY <1>1 DEF CallKnown, Answer, Fail
<1>3. CASE Answer(x)
  <2>1. Handle(x, x.answer, net \ {x}) /\ UNCHANGED service /\ lost' = lost
    BY <1>3 DEF Answer
  <2> QED BY <1>1, <1>2, <2>1, HandleTyped
<1>4. CASE Fail(x)
  <2>1. Handle(x, NoAnswer, net \ {x}) /\ UNCHANGED service /\ lost' \in Nat
    BY <1>1, <1>4 DEF Fail
  <2>2. NoAnswer \in Answers /\ NoAnswer.list \subseteq DOMAIN requests /\ ~NoAnswer.ok
    BY AnswersAre
  <2> QED BY <1>2, <2>1, <2>2, HandleTyped
<1> QED BY <1>3, <1>4

\* Heartbeats go out, and rooms grow older.
LEMMA PeriodTyped ==
  ASSUME TypeInv, Period
  PROVE  TypeInv' /\ Ages
<1> DEFINE beat(a) == Call(a, "beat", dir[a].code, dir[a].token, None, FALSE)
           beats == {beat(a) : a \in Beats}
           aged(r) == IF rooms[regs[r].code] = r THEN [regs[r] EXCEPT !.missed = @ + 1] ELSE regs[r]
<1>1. /\ regs' = [r \in DOMAIN regs |-> aged(r)]
      /\ dir' = [a \in Apps |-> [dir[a] EXCEPT !.beating = @ \/ a \in Beats]]
      /\ net' = net \cup beats
      /\ UNCHANGED <<rooms, requests, lost>>
  BY DEF Period
<1>2. /\ DOMAIN regs = 1 .. Len(regs) /\ Len(regs) \in Nat
      /\ \A r \in DOMAIN regs : regs[r] \in Registration
  BY LenProperties, ElementOfSeq DEF TypeInv, ServiceTypes
<1>3. \A r \in DOMAIN regs : /\ aged(r) \in Registration
                             /\ aged(r).code = regs[r].code /\ aged(r).closed = regs[r].closed
  BY <1>2 DEF Registration
<1> HIDE DEF aged
<1>4. regs' \in [1 .. Len(regs) -> Registration]
  BY <1>1, <1>2, <1>3
<1>5. regs' \in Seq(Registration) /\ Len(regs') = Len(regs)
  BY <1>2, <1>4
<1>6. \A a \in Beats : beat(a) \in Calls /\ beat(a).op = "beat" /\ CallKnown(beat(a))
  <2> SUFFICES ASSUME NEW a \in Beats
               PROVE  beat(a) \in Calls /\ beat(a).op = "beat" /\ CallKnown(beat(a))
    OBVIOUS
  <2>1. a \in Apps /\ dir[a].code \in Codes \cup {NoCode} /\ dir[a].token \in Nat
    BY DEF Beats, TypeInv, DirOK, Clients
  <2>2. beat(a) \in Calls /\ beat(a).op = "beat" /\ beat(a).answer = NoAnswer
    BY <2>1, AnswersAre DEF Call, Calls, Ops, Stages, None
  <2> QED BY <2>2, AnswersAre DEF CallKnown
<1> HIDE DEF beat
<1>7. IsFiniteSet(beats)
  <2>1. IsFiniteSet(Beats)
    <3>1. IsFiniteSet(Apps)
      BY SizesAssumption, FS_Union DEF Apps
    <3>2. Beats \in SUBSET Apps
      BY DEF Beats
    <3> QED BY <3>1, <3>2, FS_Subset
  <2> DEFINE f == [a \in Beats |-> beat(a)]
  <2>2. f \in [Beats -> beats] /\ \A b \in beats : \E a \in Beats : f[a] = b
    OBVIOUS
  <2> HIDE DEF f, beats
  <2> QED BY <2>1, <2>2, ImageIsFinite
<1>8. NetOK(net')
  <2>1. beats \in SUBSET Calls /\ \A x \in beats : CallKnown(x) /\ x.op \notin {"create", "join"}
    BY <1>6
  <2> HIDE DEF beats
  <2> QED BY <1>1, <1>7, <2>1, MoreCalls DEF TypeInv
<1>9. DirOK(dir')
  <2> DEFINE client(a) == [dir[a] EXCEPT !.beating = @ \/ a \in Beats]
  <2>1. dir' = [a \in Apps |-> client(a)] /\ UNCHANGED requests
    BY <1>1
  <2>2. \A a \in Apps : dir[a] \in Clients /\ dir[a].list \subseteq DOMAIN requests
                        /\ (dir[a].waiting => dir[a].req \in DOMAIN requests)
    BY DEF TypeInv, DirOK
  <2>3. \A a \in Apps : /\ client(a) \in Clients /\ client(a).list = dir[a].list
                        /\ client(a).waiting = dir[a].waiting /\ client(a).req = dir[a].req
    BY <2>2 DEF Clients
  <2> HIDE DEF client
  <2> QED BY <2>1, <2>2, <2>3 DEF DirOK
<1>10. TypeInv'
  BY <1>1, <1>5, <1>8, <1>9 DEF TypeInv, ServiceTypes, DirOK, NetOK, CallKnown
<1>11. Ages
  BY <1>1, <1>2, <1>3, <1>4 DEF Ages
<1> QED BY <1>10, <1>11

-------------------------------------------------------------------------------
(* The service's part, and the answer that goes back.                        *)

\* A call is served: it is not pending any more, and its answer names what the
\* service knows by then.
LEMMA ServedTyped ==
  ASSUME TypeInv, NEW x \in net, x.stage # "answered", NEW answer \in Answers,
         Reply(x, answer), ServiceTypes', UNCHANGED <<dir, lost>>,
         DOMAIN requests \subseteq DOMAIN requests',
         answer.list \subseteq DOMAIN requests',
         x.op = "join" /\ answer.ok => answer.id \in DOMAIN requests',
         Len(regs') = Len(regs) + (IF x.op = "create" THEN 1 ELSE 0)
           \/ Len(regs') = Len(regs),
         Len(requests') = Len(requests) + (IF x.op = "join" THEN 1 ELSE 0)
           \/ Len(requests') = Len(requests)
  PROVE  TypeInv'
<1> DEFINE y == [x EXCEPT !.stage = "answered", !.answer = answer]
<1>1. x \in Calls /\ CallKnown(x) /\ IsFiniteSet(net) /\ net \subseteq Calls
  BY DEF TypeInv, NetOK
<1>2. /\ y \in Calls /\ y.op = x.op /\ y.code = x.code /\ y.req = x.req
      /\ y.stage = "answered" /\ y.answer = answer
  BY <1>1 DEF Calls, Stages
<1>3. net' = (net \ {x}) \cup IF x.stage = "sent" THEN {y} ELSE {}
  BY DEF Reply
<1> HIDE DEF y
<1>4. net' \subseteq Calls /\ IsFiniteSet(net')
  <2>1. IsFiniteSet(net \ {x})
    BY <1>1, FS_RemoveElement
  <2>2. IsFiniteSet((net \ {x}) \cup {y})
    BY <2>1, FS_AddElement
  <2> QED BY <1>1, <1>2, <1>3, <2>1, <2>2
<1>5. \A z \in net : CallKnown(z)'
  BY DEF TypeInv, NetOK, CallKnown
<1>6. x.stage = "sent" => CallKnown(y)'
  BY <1>1, <1>2 DEF CallKnown
<1>7. \A z \in net' : CallKnown(z)'
  BY <1>3, <1>5, <1>6
<1>8. \A op : Pending(net', op) = Pending(net, op) \ {x}
  BY <1>2, <1>3 DEF Pending
<1>9. \A op : /\ Cardinality(Pending(net, op)) \in Nat
              /\ Cardinality(Pending(net', op)) =
                   Cardinality(Pending(net, op)) - IF x.op = op THEN 1 ELSE 0
  <2> TAKE op
  <2>1. IsFiniteSet(Pending(net, op))
    BY <1>1, FS_Subset DEF Pending
  <2>2. x \in Pending(net, op) <=> x.op = op
    BY DEF Pending
  <2> QED BY <1>8, <2>1, <2>2, FS_RemoveElement, FS_CardinalityType
<1>10. /\ Len(regs) \in Nat /\ Len(requests) \in Nat
       /\ Len(regs) + Cardinality(Pending(net, "create")) <= MaxRegs
       /\ Len(requests) + Cardinality(Pending(net, "join")) <= MaxReqs
  BY DEF TypeInv, ServiceTypes, NetOK
<1>11. /\ Len(regs') + Cardinality(Pending(net', "create")) <= MaxRegs
       /\ Len(requests') + Cardinality(Pending(net', "join")) <= MaxReqs
  BY <1>9, <1>10, SizesAssumption
<1>12. NetOK(net)'
  BY <1>4, <1>7, <1>11 DEF NetOK, Pending
<1>13. DirOK(dir)'
  BY DEF TypeInv, DirOK
<1> QED BY <1>12, <1>13 DEF TypeInv

\* Calls that change nothing at the service.
LEMMA RefusedTyped ==
  ASSUME TypeInv, NEW x \in net, x.stage # "answered", NEW answer \in {NoAnswer, Accepted},
         Reply(x, answer), x.op # "join", UNCHANGED <<rooms, regs, requests, dir, lost>>
  PROVE  TypeInv' /\ Ages
<1>1. answer \in Answers /\ answer.list = {}
  BY AnswersAre
<1>2. ServiceTypes' /\ Ages
  BY DEF TypeInv, ServiceTypes, Ages
<1>3. Len(regs') = Len(regs) /\ Len(requests') = Len(requests)
  OBVIOUS
<1>4. TypeInv'
  BY <1>1, <1>2, <1>3, ServedTyped
<1> QED BY <1>2, <1>4

LEMMA ServeCreateTyped ==
  ASSUME TypeInv, NEW x \in net, x.stage # "answered", x.op = "create", ServeCreate(x),
         UNCHANGED <<dir, lost>>
  PROVE  TypeInv' /\ (Registers(x.code) \/ Ages)
<1>1. x \in Calls /\ x.app \in Apps /\ x.code \in Codes
  BY DEF TypeInv, NetOK, CallKnown, Calls
<1>2. CASE rooms[x.code] = None /\ InviteForm = "JL1"
  <2> DEFINE new == [by |-> x.app, code |-> x.code, closed |-> FALSE, missed |-> 0]
             answer == [Accepted EXCEPT !.id = Len(regs')]
  <2>1. /\ regs' = Append(regs, new) /\ rooms' = [rooms EXCEPT ![x.code] = Len(regs')]
        /\ requests' = WithoutRequestsOf(x.code) /\ Reply(x, answer)
    BY <1>2 DEF ServeCreate
  <2>2. Registers(x.code)
    BY <1>1, <1>2, <2>1 DEF Registers
  <2>3. new \in Registration
    BY <1>1 DEF Registration
  <2> HIDE DEF new
  <2>4. regs' \in Seq(Registration) /\ Len(regs') = Len(regs) + 1 /\ Len(regs') \in Nat
    BY <2>1, <2>3 DEF TypeInv, ServiceTypes
  <2>5. /\ requests' \in Seq(Request) /\ Len(requests') = Len(requests)
        /\ DOMAIN requests' = DOMAIN requests
    BY <2>1, WithoutRequestsIs DEF TypeInv
  <2>6. ServiceTypes'
    BY <2>1, <2>4, <2>5 DEF TypeInv, ServiceTypes
  <2>7. answer \in Answers /\ answer.list = {}
    BY <2>4, AnswersAre DEF Answers
  <2> HIDE DEF answer
  <2>8. TypeInv'
    BY <2>1, <2>4, <2>5, <2>6, <2>7, ServedTyped
  <2> QED BY <2>2, <2>8
<1>3. CASE ~(rooms[x.code] = None /\ InviteForm = "JL1")
  <2>1. Reply(x, NoAnswer) /\ UNCHANGED <<rooms, regs, requests, dir, lost>>
    BY <1>3 DEF ServeCreate, service
  <2> QED BY <2>1, RefusedTyped
<1> QED BY <1>2, <1>3

LEMMA ServeJoinTyped ==
  ASSUME TypeInv, NEW x \in net, x.stage # "answered", x.op = "join", ServeJoin(x),
         UNCHANGED <<dir, lost>>
  PROVE  TypeInv' /\ (Asks(x.code) \/ Ages) /\ x.code \in Codes
<1>1. x \in Calls /\ x.app \in Apps /\ x.code \in Codes
  BY DEF TypeInv, NetOK, CallKnown, Calls
<1>2. UNCHANGED <<rooms, regs>>
  BY DEF ServeJoin
<1>3. CASE TakesRequests(x.code)
  <2> DEFINE new == [reg |-> rooms[x.code], by |-> x.app, status |-> "waiting", live |-> TRUE]
             answer == [Accepted EXCEPT !.id = Len(requests')]
  <2>1. requests' = Append(requests, new) /\ Reply(x, answer)
    BY <1>3 DEF ServeJoin
  <2>2. Asks(x.code)
    BY <1>1, <1>2, <1>3, <2>1 DEF Asks, TakesRequests
  <2>3. new \in Request
    BY <1>1 DEF Request, Statuses, TypeInv, ServiceTypes
  <2> HIDE DEF new
  <2>4. /\ requests' \in Seq(Request) /\ Len(requests') = Len(requests) + 1
        /\ DOMAIN requests \subseteq DOMAIN requests'
        /\ Len(requests') \in DOMAIN requests' /\ Len(requests') \in Nat
    BY <2>1, <2>3 DEF TypeInv, ServiceTypes
  <2>5. ServiceTypes'
    BY <1>2, <2>4 DEF TypeInv, ServiceTypes
  <2>6. answer \in Answers /\ answer.list = {} /\ answer.id = Len(requests')
    BY <2>4, AnswersAre DEF Answers
  <2> HIDE DEF answer
  <2>7. TypeInv'
    BY <1>2, <2>1, <2>4, <2>5, <2>6, ServedTyped
  <2> QED BY <1>1, <2>2, <2>7
<1>4. CASE ~TakesRequests(x.code)
  <2>1. Reply(x, NoAnswer) /\ UNCHANGED <<rooms, regs, requests, dir, lost>>
    BY <1>2, <1>4 DEF ServeJoin
  <2>2. ServiceTypes' /\ Ages
    BY <2>1 DEF TypeInv, ServiceTypes, Ages
  <2>3. TypeInv'
    BY <2>1, <2>2, AnswersAre, ServedTyped
  <2> QED BY <1>1, <2>2, <2>3
<1> QED BY <1>3, <1>4

LEMMA ServeBeatTyped ==
  ASSUME TypeInv, NEW x \in net, x.stage # "answered", x.op = "beat", ServeBeat(x),
         UNCHANGED <<dir, lost>>
  PROVE  TypeInv' /\ Ages
<1>1. UNCHANGED <<rooms, requests>>
  BY DEF ServeBeat
<1>2. CASE Owns(x)
  <2>1. regs' = [regs EXCEPT ![x.token].missed = 0] /\ Reply(x, Accepted)
    BY <1>2 DEF ServeBeat
  <2>2. /\ DOMAIN regs = 1 .. Len(regs) /\ Len(regs) \in Nat
        /\ \A r \in DOMAIN regs : regs[r] \in Registration
    BY LenProperties, ElementOfSeq DEF TypeInv, ServiceTypes
  <2>3. /\ DOMAIN regs' = DOMAIN regs
        /\ \A r \in DOMAIN regs : /\ regs'[r] \in Registration
                                  /\ regs'[r].code = regs[r].code
                                  /\ regs'[r].closed = regs[r].closed
    BY <2>1, <2>2 DEF Registration
  <2>4. regs' \in [1 .. Len(regs) -> Registration]
    BY <2>1, <2>2, <2>3
  <2>5. regs' \in Seq(Registration) /\ Len(regs') = Len(regs)
    BY <2>2, <2>4
  <2>6. ServiceTypes' /\ Ages
    BY <1>1, <2>3, <2>5 DEF TypeInv, ServiceTypes, Ages
  <2>7. TypeInv'
    BY <1>1, <2>1, <2>5, <2>6, AnswersAre, ServedTyped
  <2> QED BY <2>6, <2>7
<1>3. CASE ~Owns(x)
  <2>1. Reply(x, NoAnswer) /\ UNCHANGED <<rooms, regs, requests, dir, lost>>
    BY <1>1, <1>3 DEF ServeBeat
  <2> QED BY <2>1, RefusedTyped
<1> QED BY <1>2, <1>3

LEMMA ServeRemoveTyped ==
  ASSUME TypeInv, NEW x \in net, x.stage # "answered", x.op = "remove", ServeRemove(x),
         UNCHANGED <<dir, lost>>
  PROVE  TypeInv' /\ (Removes(x.code) \/ Ages) /\ x.code \in Codes \cup {NoCode}
<1>1. Reply(x, Accepted) /\ UNCHANGED regs /\ x.code \in Codes \cup {NoCode}
  BY DEF ServeRemove, TypeInv, NetOK, Calls
<1>2. CASE Owns(x)
  <2>1. Removes(x.code)
    BY <1>1, <1>2 DEF ServeRemove, Removes
  <2>2. /\ requests' \in Seq(Request) /\ Len(requests') = Len(requests)
        /\ DOMAIN requests' = DOMAIN requests
    BY <2>1, WithoutRequestsIs DEF TypeInv, Removes
  <2>3. ServiceTypes'
    BY <1>1, <2>1, <2>2 DEF TypeInv, ServiceTypes, Removes, None
  <2>4. TypeInv'
    BY <1>1, <2>2, <2>3, AnswersAre, ServedTyped
  <2> QED BY <1>1, <2>1, <2>4
<1>3. CASE ~Owns(x)
  <2>1. UNCHANGED <<rooms, regs, requests, dir, lost>>
    BY <1>1, <1>3 DEF ServeRemove
  <2> QED BY <1>1, <2>1, RefusedTyped
<1> QED BY <1>2, <1>3

LEMMA ServeDecideTyped ==
  ASSUME TypeInv, ServiceInv, NEW x \in net, x.stage # "answered", x.op = "decide",
         ServeDecide(x), UNCHANGED <<dir, lost>>
  PROVE  TypeInv' /\ (Decides \/ Ages)
<1>1. x \in Calls /\ x.req \in DOMAIN requests
  BY DEF TypeInv, NetOK, CallKnown
<1>2. UNCHANGED rooms
  BY DEF ServeDecide
<1>3. CASE MayDecide(x)
  <2>1. /\ requests' = [q \in DOMAIN requests |->
                          IF q \in DecidedBy(x)
                            THEN [requests[q] EXCEPT !.status = Verdict(x, q)]
                            ELSE requests[q]]
        /\ regs' = [regs EXCEPT ![x.token].closed = @ \/ x.yes]
        /\ Reply(x, Accepted)
    BY <1>3 DEF ServeDecide
  <2>2. Decides
    BY <1>1, <1>2, <1>3, <2>1 DEF Decides
  <2>3. /\ DOMAIN requests = 1 .. Len(requests) /\ Len(requests) \in Nat
        /\ \A q \in DOMAIN requests : requests[q] \in Request
        /\ DOMAIN regs = 1 .. Len(regs) /\ Len(regs) \in Nat
        /\ \A r \in DOMAIN regs : regs[r] \in Registration
    BY LenProperties, ElementOfSeq DEF TypeInv, ServiceTypes
  <2>4. x.token \in DOMAIN regs /\ x.yes \in BOOLEAN
    BY <1>1, <1>3, DecisionIs DEF TypeInv, Calls
  <2>5. regs' \in [1 .. Len(regs) -> Registration]
    BY <2>1, <2>3, <2>4 DEF Registration
  <2>6. requests' \in [1 .. Len(requests) -> Request]
    BY <2>1, <2>3 DEF Request, Verdict, Statuses
  <2>7. regs' \in Seq(Registration) /\ Len(regs') = Len(regs)
    BY <2>3, <2>5
  <2>8. requests' \in Seq(Request) /\ Len(requests') = Len(requests)
        /\ DOMAIN requests' = DOMAIN requests
    BY <2>3, <2>6
  <2>9. ServiceTypes'
    BY <1>2, <2>7, <2>8 DEF TypeInv, ServiceTypes
  <2>10. TypeInv'
    BY <2>1, <2>7, <2>8, <2>9, AnswersAre, ServedTyped
  <2> QED BY <2>2, <2>10
<1>4. CASE ~MayDecide(x)
  <2>1. Reply(x, NoAnswer) /\ UNCHANGED <<rooms, regs, requests, dir, lost>>
    BY <1>2, <1>4 DEF ServeDecide
  <2> QED BY <2>1, RefusedTyped
<1> QED BY <1>3, <1>4

\* A room that nobody has heard of, and a request nobody has taken up.
LEMMA ExpireTyped ==
  ASSUME TypeInv,
         \/ \E c \in Codes : ExpireRoom(c)
         \/ \E q \in DOMAIN requests : ExpireRequest(q)
  PROVE  TypeInv' /\ ((\E c \in Codes : Removes(c)) \/ Forgets)
<1>1. UNCHANGED <<regs, dir, net, lost>>
  BY DEF ExpireRoom, ExpireRequest
<1>2. /\ requests' \in Seq(Request) /\ Len(requests') = Len(requests)
      /\ DOMAIN requests' = DOMAIN requests /\ rooms' \in [Codes -> Nat]
      /\ (\E c \in Codes : Removes(c)) \/ Forgets
  <2>1. CASE \E c \in Codes : ExpireRoom(c)
    <3>1. PICK c \in Codes : ExpireRoom(c)
      BY <2>1
    <3>2. Removes(c)
      BY <3>1 DEF ExpireRoom, Removes
    <3> QED BY <3>2, WithoutRequestsIs DEF TypeInv, ServiceTypes, Removes, None
  <2>2. CASE \E q \in DOMAIN requests : ExpireRequest(q)
    <3>1. PICK q \in DOMAIN requests : ExpireRequest(q)
      BY <2>2
    <3>2. requests' = [requests EXCEPT ![q].live = FALSE] /\ UNCHANGED <<rooms, regs>>
      BY <3>1 DEF ExpireRequest
    <3>3. /\ DOMAIN requests = 1 .. Len(requests) /\ Len(requests) \in Nat
          /\ \A p \in DOMAIN requests : requests[p] \in Request
      BY LenProperties, ElementOfSeq DEF TypeInv, ServiceTypes
    <3>4. requests' \in [1 .. Len(requests) -> Request]
      BY <3>2, <3>3 DEF Request
    <3>5. requests' \in Seq(Request) /\ Len(requests') = Len(requests)
      BY <3>3, <3>4
    <3>6. DOMAIN requests' = DOMAIN requests /\ rooms' \in [Codes -> Nat] /\ Forgets
      BY <3>2 DEF Forgets, TypeInv, ServiceTypes
    <3> QED BY <3>5, <3>6
  <2> QED BY <2>1, <2>2
<1>3. ServiceTypes'
  BY <1>1, <1>2 DEF TypeInv, ServiceTypes
<1>4. TypeInv'
  BY <1>1, <1>2, <1>3 DEF TypeInv, DirOK, NetOK, CallKnown
<1> QED BY <1>2, <1>4

-------------------------------------------------------------------------------
(* The invariant.                                                            *)

LEMMA InitHolds == Init => TypeInv /\ ServiceInv
<1> SUFFICES ASSUME Init PROVE TypeInv /\ ServiceInv
  OBVIOUS
<1>1. /\ rooms = [c \in Codes |-> None] /\ regs = <<>> /\ requests = <<>>
      /\ dir = [a \in Apps |-> Idle] /\ net = {} /\ lost = 0
  BY DEF Init
<1>2. ServiceTypes /\ Len(regs) = 0 /\ Len(requests) = 0
      /\ DOMAIN regs = {} /\ DOMAIN requests = {}
  BY <1>1 DEF ServiceTypes, None
<1>3. DirOK(dir)
  BY <1>1, IdleIs DEF DirOK
<1>4. NetOK(net)
  <2>1. \A op : Pending(net, op) = {}
    BY <1>1 DEF Pending
  <2>2. IsFiniteSet({}) /\ Cardinality({}) = 0
    BY FS_EmptySet
  <2>3. \A op : Cardinality(Pending(net, op)) = 0
    BY <2>1, <2>2
  <2> QED BY <1>1, <1>2, <2>2, <2>3, SizesAssumption DEF NetOK
<1>5. ServiceInv
  BY <1>1, <1>2 DEF ServiceInv
<1> QED BY <1>1, <1>2, <1>3, <1>4, <1>5 DEF TypeInv

\* Every step keeps the types, and is a step of the service or none of its.
LEMMA StepTyped ==
  ASSUME TypeInv, ServiceInv, [Next]_vars
  PROVE  TypeInv' /\ ServiceStep
<1>1. CASE UNCHANGED <<rooms, regs, requests>> /\ TypeInv'
  BY <1>1 DEF ServiceStep, Ages
<1>2. CASE \E x \in net : Serve(x)
  <2>1. PICK x \in net : Serve(x)
    BY <1>2
  <2>2. x.stage # "answered" /\ UNCHANGED <<dir, lost>>
    BY <2>1 DEF Serve
  <2>3. CASE x.op = "create" /\ ServeCreate(x)
    <3>1. x.code \in Codes
      BY <2>3 DEF TypeInv, NetOK, CallKnown
    <3> QED BY <2>2, <2>3, <3>1, ServeCreateTyped DEF ServiceStep
  <2>4. CASE x.op = "beat" /\ ServeBeat(x)
    BY <2>2, <2>4, ServeBeatTyped DEF ServiceStep
  <2>5. CASE x.op = "remove" /\ ServeRemove(x)
    BY <2>2, <2>5, ServeRemoveTyped DEF ServiceStep
  <2>6. CASE x.op = "join" /\ ServeJoin(x)
    BY <2>2, <2>6, ServeJoinTyped DEF ServiceStep
  <2>7. CASE x.op = "decide" /\ ServeDecide(x)
    BY <2>2, <2>7, ServeDecideTyped DEF ServiceStep
  <2> QED BY <2>1, <2>3, <2>4, <2>5, <2>6, <2>7 DEF Serve
<1>3. CASE \E x \in net : Answer(x) \/ Fail(x)
  BY <1>1, <1>3, AnswerTyped DEF Answer, Fail, service
<1>4. CASE \E a \in Hosts, c \in Codes : HostCode(a, c)
  BY <1>1, <1>4, HostCodeTyped DEF HostCode, service, Apps
<1>5. CASE \E a \in Guests, c \in Codes : JoinCode(a, c)
  BY <1>1, <1>5, JoinCodeTyped DEF JoinCode, service, Apps
<1>6. CASE (\E a \in Guests, h \in Hosts : JoinInvite(a, h)) \/ \E a \in Apps : Leave(a)
  BY <1>1, <1>6, LeaveTyped DEF JoinInvite, Leave, service, Apps
<1>7. CASE \E a \in Apps : Poll(a)
  BY <1>1, <1>7, PollTyped DEF Poll
<1>8. CASE \E a \in Hosts, q \in Reqs, yes \in BOOLEAN : Decide(a, q, yes)
  BY <1>1, <1>8, DecideTyped DEF Decide, service, Apps
<1>9. CASE (\E c \in Codes : ExpireRoom(c)) \/ \E q \in DOMAIN requests : ExpireRequest(q)
  BY <1>9, ExpireTyped DEF ServiceStep
<1>10. CASE Period
  BY <1>10, PeriodTyped DEF ServiceStep
<1>11. CASE UNCHANGED vars
  <2>1. TypeInv'
    BY <1>11 DEF vars, TypeInv, ServiceTypes, DirOK, NetOK, CallKnown
  <2> QED BY <1>1, <1>11, <2>1 DEF vars
<1> QED BY <1>2, <1>3, <1>4, <1>5, <1>6, <1>7, <1>8, <1>9, <1>10, <1>11 DEF Next

\* The types of the service, its clients and their calls, and the bounds kept; and
\* what the service relies on: a request that is known is one to the room in force
\* under its code, and a registration that let somebody in is closed.
THEOREM RoomsCorrect == Spec => [](TypeInv /\ ServiceInv)
<1>1. TypeInv /\ ServiceInv /\ [Next]_vars => (TypeInv /\ ServiceInv)'
  BY StepTyped, ServiceStepKeeps DEF TypeInv
<1> QED BY <1>1, InitHolds, PTL DEF Spec

-------------------------------------------------------------------------------
(* The promise.                                                              *)

\* Who was let in is the one whom the invite is for.
LEMMA ChosenIs ==
  ASSUME ServiceInv, NEW r
  PROVE  /\ \A q \in LetInto(r) : Chosen(r) = q
         /\ LetInto(r) = {} => Chosen(r) = None
  BY DEF ServiceInv, LetInto, Chosen, RegOf

\* A service step lets nobody in, or one musician into a registration that had
\* let in nobody.
LEMMA ChoiceStep ==
  ASSUME TypeInv, ServiceInv, ServiceInv', ServiceStep
  PROVE  \/ \A r : LetInto(r)' = LetInto(r)
         \/ \E c \in DOMAIN regs, q \in DOMAIN requests :
              /\ LetInto(c) = {} /\ q \in LetInto(c)'
              /\ \A r : r # c => LetInto(r)' = LetInto(r)
<1>0. \A q \in DOMAIN requests : requests[q] \in Request
  BY LenProperties, ElementOfSeq DEF TypeInv, ServiceTypes
<1>1. CASE \E c \in Codes \cup {NoCode} : Registers(c) \/ Removes(c)
  <2>1. PICK c : requests' = WithoutRequestsOf(c)
    BY <1>1 DEF Registers, Removes
  <2>2. /\ DOMAIN requests' = DOMAIN requests
        /\ \A q \in DOMAIN requests : /\ requests'[q].reg = requests[q].reg
                                      /\ requests'[q].status = requests[q].status
    BY <2>1, WithoutRequestsIs DEF TypeInv
  <2> QED BY <2>2 DEF LetInto
<1>2. CASE \E c \in Codes : Asks(c)
  <2>1. PICK new : requests' = Append(requests, new) /\ new.status = "waiting"
    BY <1>2 DEF Asks
  <2>2. /\ DOMAIN requests = 1 .. Len(requests) /\ Len(requests) \in Nat
        /\ DOMAIN requests' = 1 .. Len(requests) + 1
        /\ requests'[Len(requests) + 1].status = "waiting"
        /\ \A q \in DOMAIN requests : requests'[q] = requests[q]
    BY <2>1 DEF TypeInv, ServiceTypes
  <2>3. \A q \in DOMAIN requests' : q \in DOMAIN requests \/ q = Len(requests) + 1
    BY <2>2
  <2>4. DOMAIN requests \subseteq DOMAIN requests'
    BY <2>2
  <2> QED BY <2>2, <2>3, <2>4 DEF LetInto
<1>3. CASE Decides
  <2>1. PICK x \in Calls :
          /\ x.req \in DOMAIN requests /\ MayDecide(x)
          /\ requests' = [q \in DOMAIN requests |->
                            IF q \in DecidedBy(x)
                              THEN [requests[q] EXCEPT !.status = Verdict(x, q)]
                              ELSE requests[q]]
    BY <1>3 DEF Decides
  <2>2. /\ x.token = RegOf(x.req) /\ x.token \in DOMAIN regs
        /\ x.yes => ~regs[x.token].closed
        /\ \A q \in DecidedBy(x) : requests[q].status = "waiting"
    BY <2>1, DecisionIs DEF TypeInv
  <2>3. /\ DOMAIN requests' = DOMAIN requests
        /\ \A q \in DOMAIN requests : requests'[q].reg = requests[q].reg
        /\ \A q \in DOMAIN requests : requests'[q].status = IF q \in DecidedBy(x) THEN Verdict(x, q)
                                                            ELSE requests[q].status
    BY <1>0, <2>1 DEF Request
  <2>4. \A q \in DOMAIN requests : requests'[q].status = "admitted" <=>
          \/ q = x.req /\ x.yes
          \/ requests[q].status = "admitted"
    BY <2>2, <2>3 DEF Verdict, DecidedBy
  <2>5. CASE ~x.yes
    BY <2>3, <2>4, <2>5 DEF LetInto
  <2>6. CASE x.yes
    <3>1. LetInto(x.token) = {}
      BY <2>2, <2>6 DEF LetInto, ServiceInv, RegOf
    <3>2. x.req \in LetInto(x.token)'
      BY <2>1, <2>2, <2>3, <2>4, <2>6 DEF LetInto, RegOf
    <3>3. \A r : r # x.token => LetInto(r)' = LetInto(r)
      BY <2>2, <2>3, <2>4 DEF LetInto, RegOf
    <3> QED BY <2>1, <2>2, <3>1, <3>2, <3>3
  <2> QED BY <2>5, <2>6
<1>4. CASE Forgets
  <2>1. PICK f \in DOMAIN requests : requests' = [requests EXCEPT ![f].live = FALSE]
    BY <1>4 DEF Forgets
  <2>2. /\ DOMAIN requests' = DOMAIN requests
        /\ \A q \in DOMAIN requests : /\ requests'[q].reg = requests[q].reg
                                      /\ requests'[q].status = requests[q].status
    BY <1>0, <2>1 DEF Request
  <2> QED BY <2>2 DEF LetInto
<1>5. CASE Ages
  BY <1>5 DEF Ages, LetInto
<1> QED BY <1>1, <1>2, <1>3, <1>4, <1>5 DEF ServiceStep

\* Registrations and requests are among those Admission knows of.
LEMMA Bounded ==
  ASSUME TypeInv
  PROVE  DOMAIN regs \subseteq Regs /\ DOMAIN requests \subseteq Reqs
<1>1. \A op : Cardinality(Pending(net, op)) \in Nat
  <2> TAKE op
  <2>1. IsFiniteSet(Pending(net, op))
    BY FS_Subset DEF TypeInv, NetOK, Pending
  <2> QED BY <2>1, FS_CardinalityType
<1>2. /\ Len(regs) \in Nat /\ DOMAIN regs = 1 .. Len(regs)
      /\ Len(requests) \in Nat /\ DOMAIN requests = 1 .. Len(requests)
  BY LenProperties DEF TypeInv, ServiceTypes
<1>3. Len(regs) <= MaxRegs /\ Len(requests) <= MaxReqs
  BY <1>1, <1>2, SizesAssumption DEF TypeInv, NetOK
<1> QED BY <1>2, <1>3, SizesAssumption DEF Regs, Reqs

\* The invite a poll is handed is that of the registration the musician was let into.
LEMMA HandedIs ==
  ASSUME TypeInv, ServiceInv, NEW q \in DOMAIN requests, NEW h \in Handed(q)
  PROVE  h = <<RegOf(q), q>> /\ RegOf(q) \in DOMAIN regs /\ q \in LetInto(RegOf(q))
<1>1. Live(q) /\ requests[q].status = "admitted" /\ h = <<rooms[regs[RegOf(q)].code], q>>
  BY DEF Handed, RegOf
<1> QED BY <1>1 DEF ServiceInv, LetInto, RegOf

barChosen == [r \in Regs |-> Chosen(r)]

LEMMA InitRefines == Init => Adm!Init
<1> SUFFICES ASSUME Init PROVE Adm!Init
  OBVIOUS
<1>1. \A r : LetInto(r) = {}
  BY DEF Init, LetInto
<1>2. \A r \in Regs : Chosen(r) = 0
  BY <1>1 DEF Chosen, None
<1> QED BY <1>2 DEF Init, Adm!Init, Adm!None

LEMMA StepRefines ==
  ASSUME TypeInv, ServiceInv, TypeInv', ServiceInv', [Next]_vars
  PROVE  [Adm!Next]_<<barChosen, holders>>
<1>1. ServiceStep
  BY StepTyped
<1>0. \A r : LetInto(r)' = LetInto(r) => Chosen(r)' = Chosen(r)
  <2> TAKE r
  <2>1. /\ \A q \in LetInto(r)' : Chosen(r)' = q
        /\ LetInto(r)' = {} => Chosen(r)' = None
    BY DEF ServiceInv, LetInto, Chosen, RegOf
  <2> QED BY <2>1, ChosenIs
<1>2. CASE UNCHANGED holders
  <2>1. CASE \A r : LetInto(r)' = LetInto(r)
    <3>1. \A r : Chosen(r)' = Chosen(r)
      BY <1>0, <2>1
    <3> QED BY <1>2, <3>1 DEF barChosen
  <2>2. CASE \E c \in DOMAIN regs, q \in DOMAIN requests :
               /\ LetInto(c) = {} /\ q \in LetInto(c)'
               /\ \A r : r # c => LetInto(r)' = LetInto(r)
    <3>1. PICK c \in DOMAIN regs, q \in DOMAIN requests :
            /\ LetInto(c) = {} /\ q \in LetInto(c)'
            /\ \A r : r # c => LetInto(r)' = LetInto(r)
      BY <2>2
    <3>2. c \in Regs /\ q \in Reqs
      BY Bounded
    <3>3. Chosen(c) = 0 /\ Chosen(c)' = q
      <4>1. Chosen(c) = None
        BY <3>1, ChosenIs
      <4>2. \A p \in LetInto(c)' : Chosen(c)' = p
        BY DEF ServiceInv, LetInto, Chosen, RegOf
      <4> QED BY <3>1, <4>1, <4>2 DEF None
    <3>4. \A r : r # c => Chosen(r)' = Chosen(r)
      BY <1>0, <3>1
    <3>5. barChosen' = [barChosen EXCEPT ![c] = q]
      BY <3>2, <3>3, <3>4 DEF barChosen
    <3>6. Adm!Choose(c, q)
      BY <1>2, <3>2, <3>3, <3>5 DEF Adm!Choose, Adm!None, barChosen
    <3> QED BY <3>2, <3>6 DEF Adm!Next
  <2> QED BY <1>1, <2>1, <2>2, ChoiceStep
<1>3. CASE ~UNCHANGED holders
  <2>1. PICK a \in Apps : Poll(a)
    BY <1>3 DEF Next, vars, service, Serve, ServeCreate, ServeBeat, ServeRemove, ServeJoin,
                ServeDecide, Answer, Fail, HostCode, JoinCode, JoinInvite, Leave, Decide,
                ExpireRoom, ExpireRequest, Period
  <2> DEFINE q == dir[a].req
  <2>2. /\ dir[a].waiting /\ holders' = holders \cup Handed(q)
        /\ UNCHANGED <<rooms, regs, requests>>
    BY <1>3, <2>1 DEF Poll
  <2>3. q \in DOMAIN requests
    BY <2>2 DEF TypeInv, DirOK
  <2> HIDE DEF q
  <2>4. PICK h \in Handed(q) : h \notin holders
    BY <1>3, <2>2
  <2>5. /\ h = <<RegOf(q), q>> /\ RegOf(q) \in Regs /\ q \in Reqs
        /\ Chosen(RegOf(q)) = q
    BY <2>3, <2>4, HandedIs, Bounded, ChosenIs
  <2>6. Handed(q) = {h}
    BY <2>3, <2>4, HandedIs
  <2>7. \A r : Chosen(r)' = Chosen(r)
    BY <2>2 DEF Chosen, LetInto
  <2>8. Adm!HandOver(RegOf(q), q)
    BY <2>2, <2>5, <2>6, <2>7 DEF Adm!HandOver
  <2> QED BY <2>5, <2>8 DEF Adm!Next
<1> QED BY <1>2, <1>3

\* However many musicians there are, and whatever calls fail or overtake one another,
\* the service keeps the promise of Admission: of those who wait for a room at most
\* one is let in, and only that one is ever handed its invite.
THEOREM RoomsKeepThePromise == Spec => ImplementsAdmission
<1>1. TypeInv /\ ServiceInv /\ TypeInv' /\ ServiceInv' /\ [Next]_vars
        => [Adm!Next]_<<barChosen, holders>>
  BY StepRefines
<1>2. <<barChosen, holders>> = <<[r \in Regs |-> Chosen(r)], holders>>
  BY DEF barChosen
<1> QED BY <1>1, InitRefines, RoomsCorrect, PTL DEF Spec, ImplementsAdmission, Adm!Spec, barChosen

-------------------------------------------------------------------------------
(* What a client is told.                                                    *)

\* A call whose answer its caller still waits for.
Heeded(x) == x.stage # "abandoned"
Mine(x, a) == x.app = a /\ Heeded(x)

\* An application that opens a room or asks to be let in does nothing else.
Alone(x) == \A y \in net : Mine(y, x.app) => y = x

OpensAlone(x) == /\ ~dir[x.app].hosting /\ ~dir[x.app].waiting
                 /\ dir[x.app].told # "denied" /\ Alone(x)

\* The request was refused.
Denied(q) == q \in DOMAIN requests /\ requests[q].status = "denied"

\* What is so as long as a call is heeded: what opens a room or asks to be let in
\* is alone, and a poll or a heartbeat is about what the client has now.
CallInv(x) ==
  /\ x.op \in {"create", "join"} => OpensAlone(x)
  /\ x.op = "create" => x.code = dir[x.app].code
  /\ x.op = "status" => /\ x.req = dir[x.app].req
                        /\ x.answer.status = "denied" => Denied(x.req)
  /\ x.op = "beat" => /\ dir[x.app].hosting
                      /\ x.code = dir[x.app].code /\ x.token = dir[x.app].token
                      /\ \A y \in net : Mine(y, x.app) /\ y.op = "beat" => y = x

\* What a client shows is so, and a heartbeat it waits for is not finished.
ClientOK(a) ==
  /\ \A x \in net : Mine(x, a) => CallInv(x)
  /\ dir[a].told = "denied" => Denied(dir[a].req)
  /\ dir[a].beating => \E x \in net : Mine(x, a) /\ x.op = "beat"

ClientInv == \A a \in Apps : ClientOK(a)

-------------------------------------------------------------------------------

DenialsStay == \A q : Denied(q) => Denied(q)'

\* A request that was refused stays refused.
LEMMA DeniedStays ==
  ASSUME TypeInv, ServiceInv, ServiceStep
  PROVE  DenialsStay
<1>1. \A q \in DOMAIN requests : requests[q] \in Request
  BY LenProperties, ElementOfSeq DEF TypeInv, ServiceTypes
<1>2. CASE \E c \in Codes \cup {NoCode} : Registers(c) \/ Removes(c)
  <2>1. PICK c : requests' = WithoutRequestsOf(c)
    BY <1>2 DEF Registers, Removes
  <2> QED BY <2>1, WithoutRequestsIs DEF TypeInv, DenialsStay, Denied
<1>3. CASE \E c \in Codes : Asks(c)
  <2>1. PICK new : requests' = Append(requests, new)
    BY <1>3 DEF Asks
  <2>2. /\ DOMAIN requests = 1 .. Len(requests) /\ Len(requests) \in Nat
        /\ DOMAIN requests' = 1 .. Len(requests) + 1
        /\ \A q \in DOMAIN requests : requests'[q] = requests[q]
    BY <2>1 DEF TypeInv, ServiceTypes
  <2> QED BY <2>2 DEF DenialsStay, Denied
<1>4. CASE Decides
  <2>1. PICK x \in Calls :
          /\ x.req \in DOMAIN requests /\ MayDecide(x)
          /\ requests' = [q \in DOMAIN requests |->
                            IF q \in DecidedBy(x)
                              THEN [requests[q] EXCEPT !.status = Verdict(x, q)]
                              ELSE requests[q]]
    BY <1>4 DEF Decides
  <2>2. \A q \in DecidedBy(x) : requests[q].status = "waiting"
    BY <2>1, DecisionIs DEF TypeInv
  <2>3. \A q \in DOMAIN requests : q \notin DecidedBy(x) => requests'[q] = requests[q]
    BY <2>1
  <2> QED BY <2>1, <2>2, <2>3 DEF DenialsStay, Denied
<1>5. CASE Forgets
  BY <1>1, <1>5 DEF Forgets, DenialsStay, Denied, Request
<1>6. CASE Ages
  BY <1>6 DEF Ages, DenialsStay, Denied
<1> QED BY <1>2, <1>3, <1>4, <1>5, <1>6 DEF ServiceStep

\* A client that does nothing, and whose calls are left alone.
LEMMA OtherClient ==
  ASSUME NEW b \in Apps, ClientOK(b), DenialsStay, dir'[b] = dir[b],
         \A x : Mine(x, b) => (x \in net' <=> x \in net)
  PROVE  ClientOK(b)'
<1>1. \A x : Mine(x, b) /\ x \in net => CallInv(x)'
  <2> SUFFICES ASSUME NEW x, Mine(x, b), x \in net PROVE CallInv(x)'
    OBVIOUS
  <2>1. CallInv(x) /\ x.app = b
    BY DEF ClientOK, Mine
  <2>2. Alone(x) => Alone(x)'
    BY <2>1 DEF Alone
  <2> QED BY <2>1, <2>2 DEF CallInv, OpensAlone, DenialsStay
<1> QED BY <1>1 DEF ClientOK, DenialsStay

\* Every generation is done with the calls of the one before.
LEMMA StopHeeds ==
  ASSUME NEW a \in Apps, NEW calls \in SUBSET Calls, dir[a] \in Clients
  PROVE  /\ \A x \in StopCalls(a, calls) : ~Mine(x, a)
         /\ \A x, b : b # a /\ Mine(x, b) => (x \in StopCalls(a, calls) <=> x \in calls)
<1> DEFINE own == {x \in calls : x.app = a /\ x.stage # "abandoned"}
           removal == Call(a, "remove", dir[a].code, dir[a].token, None, FALSE)
<1>1. \A S : \A y \in Abandoned(S) : \E x \in S : y = [x EXCEPT !.stage = "abandoned"]
  BY DEF Abandoned
<1>2. \A x \in Calls : [x EXCEPT !.stage = "abandoned"].stage = "abandoned"
  BY DEF Calls
<1>3. \A y \in Abandoned(own) : ~Heeded(y)
  <2> SUFFICES ASSUME NEW y \in Abandoned(own) PROVE ~Heeded(y)
    OBVIOUS
  <2>1. PICK x \in own : y = [x EXCEPT !.stage = "abandoned"]
    BY <1>1
  <2> QED BY <1>2, <2>1 DEF Heeded
<1>4. \A y \in Abandoned({removal}) : ~Heeded(y)
  BY <1>1 DEF Heeded, Call
<1>5. StopCalls(a, calls) =
        ((calls \ own) \cup Abandoned(own)) \cup IF dir[a].hosting THEN Abandoned({removal}) ELSE {}
  BY DEF StopCalls, Overtaken
<1> HIDE DEF removal
<1> QED BY <1>3, <1>4, <1>5 DEF Mine, Heeded

\* A client that starts again: nothing of what it waits for is older.
LEMMA StartsAgain ==
  ASSUME ClientInv, DenialsStay, NEW a \in Apps, NEW calls \in SUBSET Calls, dir[a] \in Clients,
         \A x : ~Mine(x, a) => (x \in net <=> x \in calls),
         NEW client, dir' = [dir EXCEPT ![a] = client], dir \in [Apps -> Clients],
         ~client.beating, client.told # "denied",
         \A x : ~Mine(x, a) => (x \in net' <=> x \in StopCalls(a, calls)),
         \A x \in net' : Mine(x, a) => CallInv(x)'
  PROVE  ClientInv'
<1>1. dir'[a] = client /\ \A b \in Apps : b # a => dir'[b] = dir[b]
  OBVIOUS
<1>2. \A b \in Apps : b # a => ClientOK(b)'
  <2> SUFFICES ASSUME NEW b \in Apps, b # a PROVE ClientOK(b)'
    OBVIOUS
  <2>1. \A x : Mine(x, b) => (x \in net' <=> x \in net)
    BY StopHeeds DEF Mine
  <2> QED BY <1>1, <2>1, OtherClient DEF ClientInv
<1>3. ClientOK(a)'
  BY <1>1 DEF ClientOK
<1> QED BY <1>2, <1>3 DEF ClientInv

\* The client of the action a alone has changed.
LEMMA OneActs ==
  ASSUME ClientInv, DenialsStay, NEW a \in Apps, dir \in [Apps -> Clients],
         NEW client, dir' = [dir EXCEPT ![a] = client],
         \A x : ~Mine(x, a) => (x \in net' <=> x \in net),
         ClientOK(a)'
  PROVE  ClientInv'
<1>1. \A b \in Apps : b # a => ClientOK(b)'
  <2> SUFFICES ASSUME NEW b \in Apps, b # a PROVE ClientOK(b)'
    OBVIOUS
  <2>1. \A x : Mine(x, b) => (x \in net' <=> x \in net)
    BY DEF Mine
  <2> QED BY <2>1, OtherClient DEF ClientInv
<1> QED BY <1>1 DEF ClientInv

-------------------------------------------------------------------------------

\* What the types say of a client and its calls.
LEMMA ClientTypes ==
  ASSUME TypeInv
  PROVE  /\ dir \in [Apps -> Clients] /\ net \in SUBSET Calls
         /\ \A a \in Apps : dir[a] \in Clients
  BY DEF TypeInv, DirOK, NetOK

LEMMA HostCodeTells ==
  ASSUME TypeInv, ClientInv, DenialsStay, NEW a \in Apps, NEW c \in Codes, HostCode(a, c)
  PROVE  ClientInv'
<1> DEFINE client == [Idle EXCEPT !.showing = TRUE, !.code = c, !.busy = TRUE]
           call == Call(a, "create", c, None, None, FALSE)
<1>1. dir' = [dir EXCEPT ![a] = client] /\ net' = StopCalls(a, net) \cup {call}
  BY DEF HostCode
<1>2. /\ ~client.beating /\ client.told = "" /\ client.code = c
      /\ ~client.hosting /\ ~client.waiting
  BY DEF Idle
<1>3. Mine(call, a) /\ call.op = "create" /\ call.code = c /\ call.app = a
  BY DEF Mine, Heeded, Call
<1> HIDE DEF client, call
<1>4. \A x \in net' : Mine(x, a) => x = call
  BY <1>1, ClientTypes, StopHeeds
<1>5. dir'[a] = client
  BY <1>1, ClientTypes
<1>6. CallInv(call)'
  BY <1>2, <1>3, <1>4, <1>5 DEF CallInv, OpensAlone, Alone
<1> QED BY <1>1, <1>2, <1>3, <1>4, <1>6, ClientTypes, StartsAgain

LEMMA JoinCodeTells ==
  ASSUME TypeInv, ClientInv, DenialsStay, NEW a \in Apps, NEW c \in Codes, JoinCode(a, c)
  PROVE  ClientInv'
<1> DEFINE client == [Idle EXCEPT !.code = c, !.busy = TRUE, !.active = TRUE]
           call == Call(a, "join", c, None, None, FALSE)
<1>1. dir' = [dir EXCEPT ![a] = client] /\ net' = StopCalls(a, net) \cup {call}
  BY DEF JoinCode
<1>2. /\ ~client.beating /\ client.told = ""
      /\ ~client.hosting /\ ~client.waiting
  BY DEF Idle
<1>3. Mine(call, a) /\ call.op = "join" /\ call.app = a
  BY DEF Mine, Heeded, Call
<1> HIDE DEF client, call
<1>4. \A x \in net' : Mine(x, a) => x = call
  BY <1>1, ClientTypes, StopHeeds
<1>5. dir'[a] = client
  BY <1>1, ClientTypes
<1>6. CallInv(call)'
  BY <1>2, <1>3, <1>4, <1>5 DEF CallInv, OpensAlone, Alone
<1> QED BY <1>1, <1>2, <1>3, <1>4, <1>6, ClientTypes, StartsAgain

LEMMA LeaveTells ==
  ASSUME TypeInv, ClientInv, DenialsStay, NEW a \in Apps,
         Leave(a) \/ \E h \in Hosts : JoinInvite(a, h)
  PROVE  ClientInv'
<1>1. CASE dir' = [dir EXCEPT ![a] = Idle] /\ net' = StopCalls(a, net)
  <2>1. ~Idle.beating /\ Idle.told # "denied"
    BY DEF Idle
  <2>2. \A x \in net' : ~Mine(x, a)
    BY <1>1, ClientTypes, StopHeeds
  <2> QED BY <1>1, <2>1, <2>2, ClientTypes, StartsAgain
<1>2. CASE dir' = [dir EXCEPT ![a].told = "refused"] /\ net' = net
  <2> DEFINE client == [dir[a] EXCEPT !.told = "refused"]
  <2>1. dir' = [dir EXCEPT ![a] = client]
    BY <1>2
  <2>2. /\ client.told = "refused" /\ client.hosting = dir[a].hosting
        /\ client.waiting = dir[a].waiting /\ client.code = dir[a].code
        /\ client.token = dir[a].token /\ client.req = dir[a].req
        /\ client.beating = dir[a].beating
    BY ClientTypes DEF Clients
  <2>3. dir'[a] = client
    BY <2>1, ClientTypes
  <2> HIDE DEF client
  <2>4. \A x \in net : Mine(x, a) => CallInv(x)'
    BY <1>2, <2>2, <2>3 DEF ClientInv, ClientOK, CallInv, OpensAlone, Alone, DenialsStay, Mine
  <2>5. ClientOK(a)'
    BY <1>2, <2>2, <2>3, <2>4 DEF ClientInv, ClientOK
  <2> QED BY <1>2, <2>1, <2>5, ClientTypes, OneActs
<1> QED BY <1>1, <1>2 DEF Leave, JoinInvite

\* A client that hosts or waits has no call out that opens anything.
LEMMA NothingOpens ==
  ASSUME ClientInv, NEW a \in Apps, dir[a].hosting \/ dir[a].waiting
  PROVE  \A x \in net : Mine(x, a) => x.op \notin {"create", "join"}
  BY DEF ClientInv, ClientOK, CallInv, OpensAlone, Mine

\* One more call, of a client that hosts or waits, and what the calls rely on is kept.
LEMMA OneMoreHeeded ==
  ASSUME TypeInv, ClientInv, DenialsStay, NEW a \in Apps,
         \A x \in net : Mine(x, a) => x.op \notin {"create", "join"},
         NEW old \in SUBSET net, NEW more, \A y \in more : Mine(y, a) /\ y.op \in {"list", "decide", "status"},
         \A x : ~Mine(x, a) => (x \in net <=> x \in old \cup more),
         net' = old \cup more,
         NEW client, dir' = [dir EXCEPT ![a] = client],
         client.hosting = dir[a].hosting, client.code = dir[a].code,
         client.token = dir[a].token, client.req = dir[a].req,
         client.told = dir[a].told \/ (client.told = "denied" => Denied(dir[a].req)),
         client.beating => dir[a].beating /\ \A x \in net : x.op = "beat" => x \in old,
         \A y \in more : y.op = "status" =>
            y.req = dir[a].req /\ (y.answer.status = "denied" => Denied(y.req))
  PROVE  ClientInv'
<1>1. dir'[a] = client
  BY ClientTypes
<1>2. \A x \in old : Mine(x, a) => CallInv(x)'
  <2> SUFFICES ASSUME NEW x \in old, Mine(x, a) PROVE CallInv(x)'
    OBVIOUS
  <2>1. CallInv(x) /\ x.app = a /\ x.op \notin {"create", "join"}
    BY DEF ClientInv, ClientOK, Mine
  <2>2. x.op = "beat" => \A y \in net' : Mine(y, a) /\ y.op = "beat" => y = x
    BY <2>1 DEF CallInv
  <2> QED BY <1>1, <2>1, <2>2 DEF CallInv, DenialsStay
<1>3. \A y \in more : CallInv(y)'
  BY <1>1 DEF CallInv, Mine, DenialsStay
<1>4. client.told = "denied" => Denied(dir[a].req)
  BY DEF ClientInv, ClientOK
<1>5. client.beating => \E x \in net' : Mine(x, a) /\ x.op = "beat"
  BY DEF ClientInv, ClientOK
<1>6. ClientOK(a)'
  BY <1>1, <1>2, <1>3, <1>4, <1>5 DEF ClientOK, DenialsStay
<1>7. \A x : ~Mine(x, a) => (x \in net' <=> x \in net)
  OBVIOUS
<1> QED BY <1>6, <1>7, ClientTypes, OneActs

LEMMA DecideTells ==
  ASSUME TypeInv, ClientInv, DenialsStay, NEW a \in Apps, NEW q \in Reqs,
         NEW yes \in BOOLEAN, Decide(a, q, yes)
  PROVE  ClientInv'
<1> DEFINE call == Call(a, "decide", dir[a].code, dir[a].token, q, yes)
           client == [dir[a] EXCEPT !.busy = TRUE]
<1>1. /\ dir[a].hosting /\ dir' = [dir EXCEPT ![a] = client] /\ net' = net \cup {call}
  BY DEF Decide
<1>2. Mine(call, a) /\ call.op = "decide"
  BY DEF Mine, Heeded, Call
<1>3. /\ client.hosting = dir[a].hosting /\ client.code = dir[a].code
      /\ client.token = dir[a].token /\ client.req = dir[a].req
      /\ client.told = dir[a].told /\ client.beating = dir[a].beating
  BY ClientTypes DEF Clients
<1> HIDE DEF client, call
<1>4. \A x \in net : Mine(x, a) => x.op \notin {"create", "join"}
  BY <1>1, NothingOpens
<1> DEFINE more == {call}
<1>5. /\ \A y \in more : Mine(y, a) /\ y.op \in {"list", "decide", "status"}
      /\ \A y \in more : y.op = "status" =>
           y.req = dir[a].req /\ (y.answer.status = "denied" => Denied(y.req))
      /\ \A x : ~Mine(x, a) => (x \in net <=> x \in net \cup more)
      /\ net \in SUBSET net /\ net' = net \cup more
  BY <1>1, <1>2
<1>6. client.beating => dir[a].beating /\ \A x \in net : x.op = "beat" => x \in net
  BY <1>3
<1> HIDE DEF more
<1> QED BY <1>1, <1>3, <1>4, <1>5, <1>6, OneMoreHeeded

LEMMA PollTells ==
  ASSUME TypeInv, ClientInv, DenialsStay, NEW a \in Apps, Poll(a)
  PROVE  ClientInv'
<1> DEFINE client == [dir[a] EXCEPT !.polling = TRUE]
<1>1. dir' = [dir EXCEPT ![a] = client]
  BY DEF Poll
<1>2. /\ client.hosting = dir[a].hosting /\ client.code = dir[a].code
      /\ client.token = dir[a].token /\ client.req = dir[a].req
      /\ client.told = dir[a].told /\ client.beating = dir[a].beating
  BY ClientTypes DEF Clients
<1> HIDE DEF client
<1>3. PICK call : /\ net' = net \cup {call}
                  /\ \/ dir[a].hosting /\ call = PollHost(a)
                     \/ dir[a].waiting /\ call = PollGuest(a)
  BY DEF Poll
<1>4. /\ Mine(call, a) /\ call.op \in {"list", "status"}
      /\ call.op = "status" => call.req = dir[a].req
                               /\ (call.answer.status = "denied" => Denied(call.req))
  <2>1. CASE call = PollHost(a)
    BY <2>1 DEF PollHost, Asked, Call, Mine, Heeded
  <2>2. CASE dir[a].waiting /\ call = PollGuest(a)
    <3> DEFINE x == Call(a, "status", NoCode, None, dir[a].req, FALSE)
    <3>1. /\ call.app = a /\ call.op = "status" /\ call.stage = "answered"
          /\ call.req = dir[a].req /\ call.answer = AnswerToStatus(x) /\ x.req = dir[a].req
      BY <2>2 DEF PollGuest, Asked, Call
    <3>2. dir[a].req \in DOMAIN requests
      BY <2>2 DEF TypeInv, DirOK
    <3> HIDE DEF x
    <3>3. AnswerToStatus(x).status \in {requests[dir[a].req].status, ""}
      BY <3>1, AnswersAre DEF AnswerToStatus, Accepted, NoAnswer
    <3> QED BY <3>1, <3>2, <3>3 DEF Mine, Heeded, Denied
  <2> QED BY <1>3, <2>1, <2>2
<1>5. \A x \in net : Mine(x, a) => x.op \notin {"create", "join"}
  BY <1>3, NothingOpens
<1> DEFINE more == {call}
<1>6. /\ \A y \in more : Mine(y, a) /\ y.op \in {"list", "decide", "status"}
      /\ \A y \in more : y.op = "status" =>
           y.req = dir[a].req /\ (y.answer.status = "denied" => Denied(y.req))
      /\ \A x : ~Mine(x, a) => (x \in net <=> x \in net \cup more)
      /\ net \in SUBSET net /\ net' = net \cup more
  BY <1>3, <1>4
<1>7. client.beating => dir[a].beating /\ \A x \in net : x.op = "beat" => x \in net
  BY <1>2
<1> HIDE DEF more
<1> QED BY <1>1, <1>2, <1>5, <1>6, <1>7, OneMoreHeeded

\* An answer, or that there will be none, reaches the caller that waits for it.
LEMMA HandleTells ==
  ASSUME TypeInv, ClientInv, DenialsStay, NEW x \in net, Heeded(x), NEW answer \in Answers,
         answer \in {x.answer, NoAnswer}, Handle(x, answer, net \ {x})
  PROVE  ClientInv'
<1> DEFINE a == x.app
           rest == net \ {x}
<1>1. /\ x \in Calls /\ a \in Apps /\ x.op \in Ops \ {"remove"} /\ Mine(x, a)
      /\ dir[a] \in Clients /\ dir \in [Apps -> Clients]
      /\ answer.ok \in BOOLEAN
  BY DEF TypeInv, NetOK, Calls, CallKnown, Heeded, Mine, DirOK, Answers
<1>2. \A y : ~Mine(y, a) => (y \in net <=> y \in rest)
  BY <1>1
<1>3. CallInv(x)
  BY <1>1 DEF ClientInv, ClientOK
<1>4. CASE x.op \in {"create", "join"}
  <2>1. PICK client \in {OnCreate(a, answer), OnJoin(a, answer)} :
          dir' = [dir EXCEPT ![a] = client] /\ net' = rest
    BY <1>4 DEF Handle
  <2>2. client.told = dir[a].told /\ client.beating = dir[a].beating
    BY <1>1 DEF OnCreate, OnJoin, Clients
  <2>3. OpensAlone(x)
    BY <1>3, <1>4 DEF CallInv
  <2>4. ~dir[a].beating
    BY <1>1, <1>4, <2>3 DEF ClientInv, ClientOK, OpensAlone, Alone
  <2>5. \A y \in net' : ~Mine(y, a)
    BY <2>1, <2>3 DEF OpensAlone, Alone
  <2>6. dir'[a] = client
    BY <1>1, <2>1
  <2>7. ClientOK(a)'
    BY <2>2, <2>3, <2>4, <2>5, <2>6 DEF ClientOK, OpensAlone
  <2>8. \A y : ~Mine(y, a) => (y \in net' <=> y \in net)
    BY <1>2, <2>1
  <2> QED BY <1>1, <2>1, <2>7, <2>8, OneActs
<1>5. CASE x.op \notin {"create", "join"}
  <2>1. \A y \in net : Mine(y, a) => y.op \notin {"create", "join"}
    BY <1>1, <1>5 DEF ClientInv, ClientOK, CallInv, OpensAlone, Alone, Mine
  <2>2. CASE x.op = "status" /\ answer.ok /\ answer.status = "admitted"
    <3>1. dir' = [dir EXCEPT ![a] = Idle] /\ net' = StopCalls(a, rest)
      BY <2>2 DEF Handle, OnStatus
    <3>2. ~Idle.beating /\ Idle.told # "denied"
      BY DEF Idle
    <3>3. rest \in SUBSET Calls
      BY ClientTypes
    <3>4. \A y \in net' : ~Mine(y, a)
      BY <1>1, <3>1, <3>3, StopHeeds
    <3> HIDE DEF rest
    <3> QED BY <1>1, <1>2, <3>1, <3>2, <3>3, <3>4, StartsAgain
  <2>3. CASE ~(x.op = "status" /\ answer.ok /\ answer.status = "admitted")
    <3>1. PICK client :
            /\ dir' = [dir EXCEPT ![a] = client]
            /\ \/ x.op = "beat" /\ client = OnBeat(a, answer)
               \/ x.op = "list" /\ client = OnList(a, answer)
               \/ x.op = "decide" /\ client = OnDecide(a, answer)
               \/ x.op = "status" /\ client = OnStatus(a, answer)
      BY <1>1, <1>5 DEF Handle, Ops
    <3>2. /\ client.hosting = dir[a].hosting /\ client.code = dir[a].code
          /\ client.token = dir[a].token /\ client.req = dir[a].req
          /\ client.beating => dir[a].beating /\ x.op # "beat"
      BY <1>1, <2>3, <3>1 DEF Clients, OnBeat, OnList, OnDecide, OnStatus
    <3>3. client.told = dir[a].told \/ (client.told = "denied" => Denied(dir[a].req))
      <4>1. CASE x.op = "status"
        <5>1. x.answer.status = "denied" => Denied(dir[a].req)
          BY <1>3, <4>1 DEF CallInv
        <5>2. NoAnswer.status # "denied"
          BY DEF NoAnswer
        <5> QED BY <1>1, <2>3, <3>1, <4>1, <5>1, <5>2 DEF OnStatus, Clients
      <4>2. CASE x.op # "status"
        BY <1>1, <3>1, <4>2 DEF OnBeat, OnList, OnDecide, Clients
      <4> QED BY <4>1, <4>2
    <3>4. PICK more : more \in SUBSET {PollHost(a)} /\ net' = rest \cup more
      <4>1. net' \in {rest, rest \cup {PollHost(a)}}
        BY <1>1, <1>5, <2>3 DEF Handle, Ops
      <4>2. {} \in SUBSET {PollHost(a)} /\ rest = rest \cup {}
        OBVIOUS
      <4> QED BY <4>1, <4>2
    <3>5. \A y \in more : Mine(y, a) /\ y.op = "list"
      BY <3>4 DEF PollHost, Asked, Call, Mine, Heeded
    <3>6. /\ \A y : ~Mine(y, a) => (y \in net <=> y \in rest \cup more)
          /\ rest \in SUBSET net
          /\ client.beating => \A y \in net : y.op = "beat" => y \in rest
      BY <1>1, <3>2, <3>5
    <3> HIDE DEF rest, a
    <3> QED BY <1>1, <2>1, <3>1, <3>2, <3>3, <3>4, <3>5, <3>6, OneMoreHeeded
  <2> QED BY <2>2, <2>3
<1> QED BY <1>4, <1>5

\* The service takes up a call: its answer is on the way, and nothing else changes
\* for those who wait.
LEMMA ServeTells ==
  ASSUME TypeInv, ClientInv, DenialsStay, NEW x \in net, Serve(x)
  PROVE  ClientInv'
<1>1. PICK answer : Reply(x, answer)
  BY DEF Serve, ServeCreate, ServeBeat, ServeRemove, ServeJoin, ServeDecide
<1>2. dir' = dir /\ x.op \in {"create", "beat", "remove", "join", "decide"}
      /\ x.stage \in {"sent", "abandoned"}
  BY DEF Serve
<1> DEFINE y == [x EXCEPT !.stage = "answered", !.answer = answer]
<1>3. x \in Calls /\ x.app \in Apps
  BY ClientTypes DEF Calls
<1>4. /\ y.app = x.app /\ y.op = x.op /\ y.code = x.code /\ y.token = x.token
      /\ y.req = x.req /\ y.stage = "answered"
  BY <1>3 DEF Calls
<1>5. net' = (net \ {x}) \cup IF x.stage = "sent" THEN {y} ELSE {}
  BY <1>1 DEF Reply
<1> HIDE DEF y
<1>6. CASE x.stage = "abandoned"
  <2>1. \A b \in Apps : \A z : Mine(z, b) => (z \in net' <=> z \in net)
    BY <1>5, <1>6 DEF Mine, Heeded
  <2> QED BY <1>2, <2>1, OtherClient DEF ClientInv
<1>7. CASE x.stage = "sent"
  <2> DEFINE a == x.app
  <2>1. Mine(x, a) /\ Mine(y, a) /\ net' = (net \ {x}) \cup {y}
    BY <1>4, <1>5, <1>7 DEF Mine, Heeded
  <2>2. CallInv(y)'
    <3>1. CallInv(x)
      BY <1>3, <2>1 DEF ClientInv, ClientOK
    <3>2. Alone(x) => Alone(y)'
      BY <1>4, <2>1 DEF Alone
    <3>3. x.op = "beat" => \A z \in net' : Mine(z, x.app) /\ z.op = "beat" => z = y
      BY <2>1, <3>1 DEF CallInv
    <3> QED BY <1>2, <1>4, <3>1, <3>2, <3>3 DEF CallInv, OpensAlone
  <2>3. \A z \in net \ {x} : Mine(z, a) => CallInv(z)'
    <3> SUFFICES ASSUME NEW z \in net \ {x}, Mine(z, a) PROVE CallInv(z)'
      OBVIOUS
    <3>1. CallInv(z) /\ z.app = a
      BY <1>3 DEF ClientInv, ClientOK, Mine
    <3>2. z.op \notin {"create", "join"}
      BY <2>1, <3>1 DEF CallInv, OpensAlone, Alone
    <3>3. z.op = "beat" => x.op # "beat"
      BY <2>1, <3>1 DEF CallInv
    <3>4. z.op = "beat" => \A w \in net' : Mine(w, a) /\ w.op = "beat" => w = z
      BY <1>4, <2>1, <3>1, <3>3 DEF CallInv
    <3> QED BY <1>2, <3>1, <3>2, <3>4 DEF CallInv, DenialsStay
  <2>4. dir[a].beating => \E z \in net' : Mine(z, a) /\ z.op = "beat"
    BY <1>3, <1>4, <2>1 DEF ClientInv, ClientOK
  <2>5. dir[a].told = "denied" => Denied(dir[a].req)'
    BY <1>2, <1>3 DEF ClientInv, ClientOK, DenialsStay
  <2>6. ClientOK(a)'
    BY <1>2, <2>1, <2>2, <2>3, <2>4, <2>5 DEF ClientOK
  <2>7. \A z : ~Mine(z, a) => (z \in net' <=> z \in net)
    BY <2>1
  <2>8. dir' = [dir EXCEPT ![a] = dir[a]]
    BY <1>2, ClientTypes
  <2> HIDE DEF a
  <2> QED BY <1>3, <2>6, <2>7, <2>8, ClientTypes, OneActs DEF a
<1> QED BY <1>2, <1>6, <1>7

\* A period begins when every call is over: what is heeded then are the heartbeats
\* it sends.
LEMMA PeriodTells ==
  ASSUME TypeInv, ClientInv, DenialsStay, Period
  PROVE  ClientInv'
<1> DEFINE beat(a) == Call(a, "beat", dir[a].code, dir[a].token, None, FALSE)
<1>1. /\ dir' = [a \in Apps |-> [dir[a] EXCEPT !.beating = @ \/ a \in Beats]]
      /\ net' = net \cup {beat(a) : a \in Beats} /\ Settled
  BY DEF Period
<1>2. \A a \in Apps : /\ dir'[a].hosting = dir[a].hosting /\ dir'[a].code = dir[a].code
                      /\ dir'[a].token = dir[a].token /\ dir'[a].req = dir[a].req
                      /\ dir'[a].told = dir[a].told
                      /\ dir'[a].beating = (dir[a].beating \/ a \in Beats)
  BY <1>1, ClientTypes DEF Clients
<1>3. \A a \in Apps : Mine(beat(a), a) /\ beat(a).op = "beat" /\ beat(a).app = a
                      /\ beat(a).code = dir[a].code /\ beat(a).token = dir[a].token
  BY DEF Mine, Heeded, Call
<1> HIDE DEF beat
<1>4. \A x \in net' : Heeded(x) => \E a \in Beats : x = beat(a)
  BY <1>1 DEF Settled, Heeded
<1>5. \A a \in Apps : ~dir[a].beating
  BY <1>1 DEF ClientInv, ClientOK, Settled, Mine, Heeded
<1>6. \A a \in Apps : \A x \in net' : Mine(x, a) => x = beat(a) /\ a \in Beats
  BY <1>3, <1>4 DEF Mine, Beats
<1>7. \A a \in Beats : a \in Apps /\ dir[a].hosting
  BY DEF Beats
<1>8. \A a \in Apps : ClientOK(a)'
  <2> SUFFICES ASSUME NEW a \in Apps PROVE ClientOK(a)'
    OBVIOUS
  <2>1. \A x \in net' : Mine(x, a) => CallInv(x)'
    <3> SUFFICES ASSUME NEW x \in net', Mine(x, a) PROVE CallInv(x)'
      OBVIOUS
    <3>1. /\ x.app = a /\ x.op = "beat" /\ a \in Beats
          /\ x.code = dir[a].code /\ x.token = dir[a].token
          /\ \A y \in net' : Mine(y, a) => y = x
      BY <1>3, <1>6
    <3> QED BY <1>2, <1>7, <3>1 DEF CallInv
  <2>2. dir'[a].told = "denied" => Denied(dir[a].req)'
    BY <1>2 DEF ClientInv, ClientOK, DenialsStay
  <2>3. dir'[a].beating => \E x \in net' : Mine(x, a) /\ x.op = "beat"
    <3>1. dir'[a].beating => a \in Beats
      BY <1>2, <1>5
    <3>2. a \in Beats => beat(a) \in net'
      BY <1>1
    <3> QED BY <1>3, <3>1, <3>2
  <2> QED BY <2>1, <2>2, <2>3 DEF ClientOK
<1> QED BY <1>8 DEF ClientInv

LEMMA ClientStep ==
  ASSUME TypeInv, ServiceInv, ClientInv, [Next]_vars
  PROVE  ClientInv'
<1>1. DenialsStay
  BY StepTyped, DeniedStays
<1>2. CASE \E x \in net : Serve(x)
  BY <1>1, <1>2, ServeTells
<1>3. CASE \E x \in net : Answer(x) \/ Fail(x)
  <2>1. PICK x \in net : Answer(x) \/ Fail(x)
    BY <1>3
  <2>2. Heeded(x) /\ x.answer \in Answers /\ NoAnswer \in Answers
    BY <2>1, AnswersAre, ClientTypes DEF Answer, Fail, Heeded, Calls
  <2>3. Handle(x, x.answer, net \ {x}) \/ Handle(x, NoAnswer, net \ {x})
    BY <2>1 DEF Answer, Fail
  <2> QED BY <1>1, <2>2, <2>3, HandleTells
<1>4. CASE \E a \in Hosts, c \in Codes : HostCode(a, c)
  BY <1>1, <1>4, HostCodeTells DEF Apps
<1>5. CASE \E a \in Guests, c \in Codes : JoinCode(a, c)
  BY <1>1, <1>5, JoinCodeTells DEF Apps
<1>6. CASE (\E a \in Guests, h \in Hosts : JoinInvite(a, h)) \/ \E a \in Apps : Leave(a)
  BY <1>1, <1>6, LeaveTells DEF Apps
<1>7. CASE \E a \in Apps : Poll(a)
  BY <1>1, <1>7, PollTells
<1>8. CASE \E a \in Hosts, q \in Reqs, yes \in BOOLEAN : Decide(a, q, yes)
  BY <1>1, <1>8, DecideTells DEF Apps
<1>9. CASE UNCHANGED <<dir, net>>
  BY <1>1, <1>9, OtherClient DEF ClientInv
<1>10. CASE Period
  BY <1>1, <1>10, PeriodTells
<1> QED BY <1>2, <1>3, <1>4, <1>5, <1>6, <1>7, <1>8, <1>9, <1>10
        DEF Next, vars, ExpireRoom, ExpireRequest

\* What an application heeds is about what it has now: a generation that is over
\* leaves no call behind that anybody heeds.
THEOREM ClientsCorrect == Spec => []ClientInv
<1>1. Init => ClientInv
  <2>1. Idle.told # "denied" /\ ~Idle.beating
    BY DEF Idle
  <2> QED BY <2>1 DEF Init, ClientInv, ClientOK
<1>2. TypeInv /\ ServiceInv /\ ClientInv /\ [Next]_vars => ClientInv'
  BY ClientStep
<1> QED BY <1>1, <1>2, RoomsCorrect, PTL DEF Spec

\* A musician is told of a refusal only if the request made last was refused,
\* whatever is still on its way for the requests before.  (pollGuest(), stop())
THEOREM RefusalsAreTrue == Spec => []ToldTheTruth
<1>1. ClientInv => ToldTheTruth
  BY DEF ClientInv, ClientOK, ToldTheTruth, Denied, Apps
<1> QED BY <1>1, ClientsCorrect, PTL

-------------------------------------------------------------------------------
(* What a host keeps.                                                        *)

\* The answer that a room is registered, on its way.
Opened(x) == x.op = "create" /\ x.stage = "answered" /\ x.answer.ok

\* The registration an application has, or is about to learn that it has.
Holds(a, c, r) ==
  \/ dir[a].hosting /\ dir[a].code = c /\ dir[a].token = r
  \/ \E x \in net : Mine(x, a) /\ Opened(x) /\ x.code = c /\ x.answer.id = r

\* A heartbeat on its way makes up for a period without one.
Late(a) == IF \E x \in net : Mine(x, a) /\ x.op = "beat" /\ x.stage = "sent" THEN 1 ELSE 0

\* The registration is the application's own and nobody removes it; and as long as
\* fewer calls failed than a room lives periods, it is the one under its code, and
\* every period it was not heard of cost a call that failed.
Keeps(a, c, r) ==
  /\ r \in DOMAIN regs /\ regs[r].by = a
  /\ \A x \in net : x.op = "remove" => x.token # r
  /\ lost < RoomPeriods => /\ c \in Codes /\ rooms[c] = r
                           /\ regs[r].missed <= lost + Late(a)

HostInv == /\ \A a \in Apps : \A c, r : Holds(a, c, r) => Keeps(a, c, r)
           /\ \A x \in net : x.op = "remove" => x.token \in DOMAIN regs

-------------------------------------------------------------------------------

LEMMA RegTypes ==
  ASSUME TypeInv
  PROVE  /\ DOMAIN regs = 1 .. Len(regs) /\ Len(regs) \in Nat
         /\ \A r \in DOMAIN regs : regs[r] \in Registration /\ regs[r].missed \in Nat
         /\ rooms \in [Codes -> Nat] /\ lost \in Nat
<1>1. /\ DOMAIN regs = 1 .. Len(regs) /\ Len(regs) \in Nat
      /\ \A r \in DOMAIN regs : regs[r] \in Registration
  BY LenProperties, ElementOfSeq DEF TypeInv, ServiceTypes
<1> QED BY <1>1 DEF Registration, TypeInv, ServiceTypes

\* The service rests: nobody holds what it did not hold, and what is removed is
\* held no more.
LEMMA ServiceRests ==
  ASSUME TypeInv, HostInv, UNCHANGED <<rooms, regs>>, lost' \in {lost, lost + 1},
         \A b \in Apps : \A c, r : Holds(b, c, r)' =>
           Holds(b, c, r) /\ lost + Late(b) <= lost' + Late(b)',
         \A x \in net' : x.op = "remove" =>
           \/ x \in net
           \/ \E a \in Apps : /\ dir[a].hosting /\ x.token = dir[a].token
                              /\ \A c, r : ~Holds(a, c, r)'
  PROVE  HostInv'
<1>1. \A a \in Apps : dir[a].hosting => dir[a].token \in DOMAIN regs /\ regs[dir[a].token].by = a
  <2> SUFFICES ASSUME NEW a \in Apps, dir[a].hosting
               PROVE  dir[a].token \in DOMAIN regs /\ regs[dir[a].token].by = a
    OBVIOUS
  <2>1. Holds(a, dir[a].code, dir[a].token)
    BY DEF Holds
  <2>2. Keeps(a, dir[a].code, dir[a].token)
    BY <2>1 DEF HostInv
  <2> QED BY <2>2 DEF Keeps
<1>2. \A x \in net' : x.op = "remove" => x.token \in DOMAIN regs
  BY <1>1 DEF HostInv
<1>3. ASSUME NEW b \in Apps, NEW c, NEW r, Holds(b, c, r)'
      PROVE  Keeps(b, c, r)'
  <2>1. Holds(b, c, r) /\ Keeps(b, c, r) /\ lost + Late(b) <= lost' + Late(b)'
    BY <1>3 DEF HostInv
  <2>2. \A x \in net' : x.op = "remove" => x.token # r
    BY <1>1, <1>3, <2>1 DEF Keeps
  <2>3. lost' < RoomPeriods => lost < RoomPeriods
    BY RegTypes DEF RoomPeriods
  <2>4. lost' < RoomPeriods => regs[r].missed <= lost' + Late(b)'
    <3>1. Late(b) \in Nat /\ Late(b)' \in Nat /\ lost \in Nat /\ lost' \in Nat
      BY RegTypes DEF Late
    <3> QED BY <2>1, <2>3, <3>1, RegTypes DEF Keeps
  <2> QED BY <2>1, <2>2, <2>3, <2>4 DEF Keeps
<1> QED BY <1>2, <1>3 DEF HostInv

\* What is removed when a generation is over.
LEMMA StopRemoves ==
  ASSUME NEW a \in Apps, NEW calls \in SUBSET Calls,
         \A x \in calls : x.op = "remove" => x.stage = "abandoned"
  PROVE  \A x \in StopCalls(a, calls) : x.op = "remove" =>
           x \in calls \/ (dir[a].hosting /\ x.token = dir[a].token)
<1> DEFINE own == {x \in calls : x.app = a /\ x.stage # "abandoned"}
           removal == Call(a, "remove", dir[a].code, dir[a].token, None, FALSE)
<1>1. \A y \in Abandoned(own) : y.op # "remove"
  <2> SUFFICES ASSUME NEW y \in Abandoned(own) PROVE y.op # "remove"
    OBVIOUS
  <2>1. PICK x \in own : y = [x EXCEPT !.stage = "abandoned"]
    BY DEF Abandoned
  <2> QED BY <2>1 DEF Calls
<1>2. \A y \in Abandoned({removal}) : y.token = dir[a].token
  <2> SUFFICES ASSUME NEW y \in Abandoned({removal}) PROVE y.token = dir[a].token
    OBVIOUS
  <2>1. y = [removal EXCEPT !.stage = "abandoned"]
    BY DEF Abandoned
  <2> QED BY <2>1 DEF Call
<1>3. StopCalls(a, calls) =
        ((calls \ own) \cup Abandoned(own)) \cup IF dir[a].hosting THEN Abandoned({removal}) ELSE {}
  BY DEF StopCalls, Overtaken
<1>4. own \subseteq calls
  OBVIOUS
<1> HIDE DEF removal, own
<1> QED BY <1>1, <1>2, <1>3, <1>4

\* An application that starts again holds nothing; the others keep what they hold.
LEMMA StopKeeps ==
  ASSUME TypeInv, HostInv, UNCHANGED <<rooms, regs>>, lost' \in {lost, lost + 1},
         NEW a \in Apps, NEW calls \in SUBSET net,
         \A x : ~Mine(x, a) => (x \in net <=> x \in calls),
         NEW client, dir' = [dir EXCEPT ![a] = client], ~client.hosting,
         NEW more, net' = StopCalls(a, calls) \cup more,
         \A x \in more : Mine(x, a) /\ ~Opened(x) /\ x.op # "remove"
  PROVE  HostInv'
<1>1. calls \in SUBSET Calls /\ dir[a] \in Clients
      /\ \A x \in calls : x.op = "remove" => x.stage = "abandoned"
  BY ClientTypes DEF TypeInv, NetOK, CallKnown
<1>2. dir'[a] = client /\ \A b \in Apps : b # a => dir'[b] = dir[b]
  BY ClientTypes
<1>3. \A c, r : ~Holds(a, c, r)'
  BY <1>1, <1>2, StopHeeds DEF Holds
<1>4. \A x, b : b # a /\ Mine(x, b) => (x \in net' <=> x \in net)
  BY <1>1, StopHeeds DEF Mine
<1>5. ASSUME NEW b \in Apps, NEW c, NEW r, Holds(b, c, r)'
      PROVE  Holds(b, c, r) /\ lost + Late(b) <= lost' + Late(b)'
  <2>1. b # a
    BY <1>3, <1>5
  <2>2. Holds(b, c, r)
    BY <1>2, <1>4, <1>5, <2>1 DEF Holds
  <2>3. Late(b)' = Late(b)
    BY <1>4, <2>1 DEF Late
  <2> QED BY <2>2, <2>3, RegTypes DEF Late
<1>6. \A x \in net' : x.op = "remove" => x \in net \/ (dir[a].hosting /\ x.token = dir[a].token)
  BY <1>1, StopRemoves
<1> QED BY <1>3, <1>5, <1>6, ServiceRests

\* A client goes on: what it holds now it held before.
LEMMA GoesOn ==
  ASSUME TypeInv, HostInv, UNCHANGED <<rooms, regs>>, lost' \in {lost, lost + 1},
         NEW a \in Apps, NEW client, dir' = [dir EXCEPT ![a] = client],
         \A c, r : client.hosting /\ client.code = c /\ client.token = r => Holds(a, c, r),
         NEW old \in SUBSET net, NEW more, net' = old \cup more,
         \A x \in more : x.op \in {"list", "decide", "status"},
         \A x \in net : x.op = "beat" /\ x.stage = "sent" => x \in old \/ lost' = lost + 1
  PROVE  HostInv'
<1>1. dir'[a] = client /\ \A b \in Apps : b # a => dir'[b] = dir[b]
  BY ClientTypes
<1>2. ASSUME NEW b \in Apps, NEW c, NEW r, Holds(b, c, r)'
      PROVE  Holds(b, c, r)
  BY <1>1, <1>2 DEF Holds, Opened
<1>3. ASSUME NEW b \in Apps
      PROVE  lost + Late(b) <= lost' + Late(b)'
  BY RegTypes DEF Late
<1>4. \A x \in net' : x.op = "remove" => x \in net
  OBVIOUS
<1> QED BY <1>2, <1>3, <1>4, ServiceRests

LEMMA StartKeeps ==
  ASSUME TypeInv, HostInv, NEW a \in Apps, NEW c \in Codes, HostCode(a, c) \/ JoinCode(a, c)
  PROVE  HostInv'
<1> DEFINE opening == [Idle EXCEPT !.showing = TRUE, !.code = c, !.busy = TRUE]
           asking == [Idle EXCEPT !.code = c, !.busy = TRUE, !.active = TRUE]
<1>1. PICK client \in {opening, asking}, op \in {"create", "join"} :
        /\ dir' = [dir EXCEPT ![a] = client]
        /\ net' = StopCalls(a, net) \cup {Call(a, op, c, None, None, FALSE)}
        /\ UNCHANGED service /\ lost' = lost
  BY DEF HostCode, JoinCode
<1>2. ~client.hosting
  BY DEF Idle
<1> DEFINE call == Call(a, op, c, None, None, FALSE)
<1>3. Mine(call, a) /\ ~Opened(call) /\ call.op # "remove"
  BY DEF Mine, Heeded, Opened, Call
<1> HIDE DEF call
<1> DEFINE more == {call}
<1>4. /\ \A x \in more : Mine(x, a) /\ ~Opened(x) /\ x.op # "remove"
      /\ net \in SUBSET net /\ net' = StopCalls(a, net) \cup more
  BY <1>1, <1>3 DEF call
<1>5. UNCHANGED <<rooms, regs>>
  BY <1>1 DEF service
<1> HIDE DEF more, opening, asking
<1> QED BY <1>1, <1>2, <1>4, <1>5, StopKeeps

LEMMA LeaveKeeps ==
  ASSUME TypeInv, HostInv, NEW a \in Apps, Leave(a) \/ \E h \in Hosts : JoinInvite(a, h)
  PROVE  HostInv'
<1>0. UNCHANGED <<rooms, regs>> /\ lost' = lost
  BY DEF Leave, JoinInvite, service
<1>1. CASE dir' = [dir EXCEPT ![a] = Idle] /\ net' = StopCalls(a, net)
  <2>1. ~Idle.hosting
    BY DEF Idle
  <2> DEFINE more == {}
  <2>2. /\ \A x \in more : Mine(x, a) /\ ~Opened(x) /\ x.op # "remove"
        /\ net \in SUBSET net /\ net' = StopCalls(a, net) \cup more
    BY <1>1
  <2> HIDE DEF more
  <2> QED BY <1>0, <1>1, <2>1, <2>2, StopKeeps
<1>2. CASE dir' = [dir EXCEPT ![a].told = "refused"] /\ net' = net
  <2> DEFINE client == [dir[a] EXCEPT !.told = "refused"]
             more == {}
  <2>1. /\ dir' = [dir EXCEPT ![a] = client] /\ client.hosting = dir[a].hosting
        /\ client.code = dir[a].code /\ client.token = dir[a].token
    BY <1>2, ClientTypes DEF Clients
  <2> HIDE DEF client
  <2>2. \A c, r : client.hosting /\ client.code = c /\ client.token = r => Holds(a, c, r)
    BY <2>1 DEF Holds
  <2>3. /\ \A x \in more : x.op \in {"list", "decide", "status"}
        /\ net \in SUBSET net /\ net' = net \cup more
    BY <1>2
  <2> HIDE DEF more
  <2> QED BY <1>0, <2>1, <2>2, <2>3, GoesOn
<1> QED BY <1>1, <1>2 DEF Leave, JoinInvite

\* A decision and a question are one call more.
LEMMA AsksMore ==
  ASSUME TypeInv, HostInv, NEW a \in Apps,
         Poll(a) \/ \E q \in Reqs, yes \in BOOLEAN : Decide(a, q, yes)
  PROVE  HostInv'
<1>1. PICK client \in {[dir[a] EXCEPT !.polling = TRUE], [dir[a] EXCEPT !.busy = TRUE]} :
        dir' = [dir EXCEPT ![a] = client]
  BY DEF Poll, Decide
<1>2. /\ client.hosting = dir[a].hosting /\ client.code = dir[a].code
      /\ client.token = dir[a].token
  BY ClientTypes DEF Clients
<1>3. \A c, r : client.hosting /\ client.code = c /\ client.token = r => Holds(a, c, r)
  BY <1>2 DEF Holds
<1>4. PICK call : net' = net \cup {call} /\ call.op \in {"list", "decide", "status"}
  <2>1. PollHost(a).op = "list" /\ PollGuest(a).op = "status"
    BY DEF PollHost, PollGuest, Asked, Call
  <2>2. \A q, yes : Call(a, "decide", dir[a].code, dir[a].token, q, yes).op = "decide"
    BY DEF Call
  <2> QED BY <2>1, <2>2 DEF Poll, Decide
<1> DEFINE more == {call}
<1>5. /\ \A x \in more : x.op \in {"list", "decide", "status"}
      /\ net \in SUBSET net /\ net' = net \cup more
  BY <1>4
<1>6. UNCHANGED <<rooms, regs>> /\ lost' = lost
  BY DEF Poll, Decide, service
<1> HIDE DEF more
<1> QED BY <1>1, <1>3, <1>5, <1>6, GoesOn

LEMMA HandleKeeps ==
  ASSUME TypeInv, ClientInv, HostInv, NEW x \in net, Answer(x) \/ Fail(x)
  PROVE  HostInv'
<1> DEFINE a == x.app
           rest == net \ {x}
<1>1. PICK answer \in Answers :
        /\ Handle(x, answer, rest)
        /\ \/ answer = x.answer /\ x.stage = "answered" /\ lost' = lost
           \/ answer = NoAnswer /\ lost' = lost + 1
  BY AnswersAre, ClientTypes DEF Answer, Fail, Calls
<1>2. /\ a \in Apps /\ x.op \in Ops \ {"remove"} /\ Mine(x, a)
      /\ dir[a] \in Clients /\ answer.ok \in BOOLEAN
  BY DEF TypeInv, NetOK, Calls, CallKnown, Heeded, Mine, DirOK, Answers, Answer, Fail
<1>3. UNCHANGED <<rooms, regs>> /\ lost' \in {lost, lost + 1}
  BY DEF Answer, Fail, service
<1>4. CASE x.op = "status" /\ answer.ok /\ answer.status = "admitted"
  <2> DEFINE more == {}
  <2>1. dir' = [dir EXCEPT ![a] = Idle] /\ net' = StopCalls(a, rest) \cup more
    BY <1>1, <1>4 DEF Handle, OnStatus
  <2>2. ~Idle.hosting
    BY DEF Idle
  <2>3. /\ \A y \in more : Mine(y, a) /\ ~Opened(y) /\ y.op # "remove"
        /\ rest \in SUBSET net /\ \A y : ~Mine(y, a) => (y \in net <=> y \in rest)
    BY <1>2
  <2> HIDE DEF more, rest, a
  <2> QED BY <1>2, <1>3, <2>1, <2>2, <2>3, StopKeeps
<1>5. CASE ~(x.op = "status" /\ answer.ok /\ answer.status = "admitted")
  <2>1. PICK client :
          /\ dir' = [dir EXCEPT ![a] = client]
          /\ \/ x.op = "create" /\ client = OnCreate(a, answer)
             \/ x.op = "join" /\ client = OnJoin(a, answer)
             \/ x.op = "beat" /\ client = OnBeat(a, answer)
             \/ x.op = "list" /\ client = OnList(a, answer)
             \/ x.op = "decide" /\ client = OnDecide(a, answer)
             \/ x.op = "status" /\ client = OnStatus(a, answer)
    BY <1>1, <1>2 DEF Handle, Ops
  <2>2. CallInv(x)
    BY <1>2 DEF ClientInv, ClientOK
  <2>5. \A c, r : client.hosting /\ client.code = c /\ client.token = r => Holds(a, c, r)
    <3>1. CASE x.op = "create" /\ answer.ok
      <4>1. Opened(x) /\ answer = x.answer
        BY <1>1, <3>1, AnswersAre DEF Opened
      <4>2. client.code = x.code /\ client.token = x.answer.id
        BY <1>2, <2>1, <2>2, <3>1, <4>1 DEF OnCreate, CallInv, Clients
      <4> QED BY <1>2, <4>1, <4>2 DEF Holds
    <3>2. CASE ~(x.op = "create" /\ answer.ok)
      <4>1. client.hosting => /\ dir[a].hosting /\ client.code = dir[a].code
                              /\ client.token = dir[a].token
        <5>1. CASE x.op \in {"create", "join"}
          <6>1. ~dir[a].hosting
            BY <2>2, <5>1 DEF CallInv, OpensAlone
          <6> QED BY <1>2, <2>1, <3>2, <5>1, <6>1 DEF OnCreate, OnJoin, Clients
        <5>2. CASE x.op \notin {"create", "join"}
          BY <1>2, <1>5, <2>1, <5>2 DEF OnBeat, OnList, OnDecide, OnStatus, Clients
        <5> QED BY <5>1, <5>2
      <4> QED BY <4>1 DEF Holds
    <3> QED BY <3>1, <3>2
  <2>6. PICK more : more \in SUBSET {PollHost(a)} /\ net' = rest \cup more
    <3>1. net' \in {rest, rest \cup {PollHost(a)}}
      BY <1>1, <1>2, <1>5 DEF Handle, Ops
    <3>2. {} \in SUBSET {PollHost(a)} /\ rest = rest \cup {}
      OBVIOUS
    <3> QED BY <3>1, <3>2
  <2>7. \A y \in more : y.op \in {"list", "decide", "status"}
    BY <2>6 DEF PollHost, Asked, Call
  <2>8. \A y \in net : y.op = "beat" /\ y.stage = "sent" => y \in rest \/ lost' = lost + 1
    BY <1>1
  <2>4. rest \in SUBSET net
    OBVIOUS
  <2> HIDE DEF rest, a
  <2> QED BY <1>2, <1>3, <2>1, <2>5, <2>6, <2>7, <2>8, <2>4, GoesOn
<1> QED BY <1>4, <1>5

\* What becomes of the calls when one is served.
LEMMA ReplyIs ==
  ASSUME TypeInv, NEW x \in net, x.stage # "answered", NEW answer, Reply(x, answer),
         dir' = dir
  PROVE  /\ \A y \in net' : y.op = "remove" => y \in net
         /\ \A b \in Apps : Late(b)' = Late(b)
                            \/ (x.op = "beat" /\ x.stage = "sent" /\ x.app = b)
         /\ \A b \in Apps : \A c, r : Holds(b, c, r)' =>
              \/ Holds(b, c, r)
              \/ /\ x.op = "create" /\ answer.ok /\ b = x.app
                 /\ c = x.code /\ r = answer.id
<1> DEFINE y == [x EXCEPT !.stage = "answered", !.answer = answer]
<1>1. x \in Calls /\ x.app \in Apps /\ (x.op = "remove" => x.stage # "sent")
  BY DEF TypeInv, NetOK, CallKnown, Calls
<1>2. /\ y.app = x.app /\ y.op = x.op /\ y.code = x.code
      /\ y.stage = "answered" /\ y.answer = answer
  BY <1>1 DEF Calls
<1>3. net' = (net \ {x}) \cup IF x.stage = "sent" THEN {y} ELSE {}
  BY DEF Reply
<1> HIDE DEF y
<1>4. \A z \in net' : z.op = "remove" => z \in net
  BY <1>1, <1>2, <1>3
<1>5. ASSUME NEW b \in Apps, ~(x.op = "beat" /\ x.stage = "sent" /\ x.app = b)
      PROVE  Late(b)' = Late(b)
  <2>1. \A z : Mine(z, b) /\ z.op = "beat" /\ z.stage = "sent" => (z \in net' <=> z \in net)
    BY <1>2, <1>3, <1>5 DEF Mine
  <2> QED BY <2>1 DEF Late
<1>6. ASSUME NEW b \in Apps, NEW c, NEW r, Holds(b, c, r)', ~Holds(b, c, r)
      PROVE  /\ x.op = "create" /\ answer.ok /\ b = x.app /\ c = x.code /\ r = answer.id
  <2>1. PICK z \in net' : Mine(z, b) /\ Opened(z) /\ z.code = c /\ z.answer.id = r
    BY <1>6 DEF Holds
  <2>2. z = y
    BY <1>3, <1>6, <2>1 DEF Holds
  <2> QED BY <1>2, <2>1, <2>2 DEF Mine, Opened
<1> QED BY <1>4, <1>5, <1>6

\* What the service does to one that holds a registration, when it keeps it.
LEMMA ServiceKeeps ==
  ASSUME TypeInv, HostInv, lost' = lost,
         DOMAIN regs \subseteq DOMAIN regs', \A r \in DOMAIN regs : regs'[r].by = regs[r].by,
         \A x \in net' : x.op = "remove" => x \in net,
         \A b \in Apps : \A c, r : Holds(b, c, r)' =>
           \/ Keeps(b, c, r)'
           \/ /\ Holds(b, c, r)
              /\ lost < RoomPeriods => rooms'[c] = rooms[c]
              /\ lost < RoomPeriods => regs'[r].missed <= lost + Late(b)'
  PROVE  HostInv'
<1>1. \A x \in net' : x.op = "remove" => x.token \in DOMAIN regs'
  BY DEF HostInv
<1>2. ASSUME NEW b \in Apps, NEW c, NEW r, Holds(b, c, r)'
      PROVE  Keeps(b, c, r)'
  <2>1. CASE Holds(b, c, r) /\ ~Keeps(b, c, r)'
    <3>1. /\ lost < RoomPeriods => rooms'[c] = rooms[c]
          /\ lost < RoomPeriods => regs'[r].missed <= lost + Late(b)'
      BY <1>2, <2>1
    <3>2. Keeps(b, c, r)
      BY <2>1 DEF HostInv
    <3> QED BY <3>1, <3>2 DEF Keeps
  <2> QED BY <1>2, <2>1
<1> QED BY <1>1, <1>2 DEF HostInv

LEMMA CreateKeeps ==
  ASSUME TypeInv, HostInv, NEW x \in net, x.op = "create", x.stage # "answered",
         ServeCreate(x), dir' = dir, lost' = lost
  PROVE  HostInv'
<1>1. x \in Calls /\ x.app \in Apps /\ x.code \in Codes
  BY DEF TypeInv, NetOK, CallKnown, Calls
<1>2. CASE rooms[x.code] = None /\ InviteForm = "JL1"
  <2> DEFINE new == [by |-> x.app, code |-> x.code, closed |-> FALSE, missed |-> 0]
             n == Len(regs) + 1
  <2>1. /\ regs' = Append(regs, new) /\ rooms' = [rooms EXCEPT ![x.code] = Len(regs')]
        /\ Reply(x, [Accepted EXCEPT !.id = Len(regs')])
    BY <1>2 DEF ServeCreate
  <2>2. new \in Registration
    BY <1>1 DEF Registration
  <2>3. new.by = x.app /\ new.missed = 0
    OBVIOUS
  <2> HIDE DEF new
  <2>4. /\ Len(regs') = n /\ n \notin DOMAIN regs /\ DOMAIN regs' = 1 .. n /\ n \in DOMAIN regs'
        /\ DOMAIN regs \subseteq DOMAIN regs' /\ regs'[n] = new
        /\ \A r \in DOMAIN regs : regs'[r] = regs[r]
    BY <2>1, <2>2, RegTypes DEF TypeInv, ServiceTypes
  <2>5. PICK answer : Reply(x, answer) /\ answer.id = n
    <3>1. [Accepted EXCEPT !.id = Len(regs')].id = Len(regs')
      BY DEF Accepted, NoAnswer
    <3> QED BY <2>1, <2>4, <3>1
  <2> HIDE DEF n
  <2>6. /\ \A y \in net' : y.op = "remove" => y \in net
        /\ \A b \in Apps : Late(b)' = Late(b)
        /\ \A b \in Apps : \A c, r : Holds(b, c, r)' =>
             Holds(b, c, r) \/ (b = x.app /\ c = x.code /\ r = n)
    BY <2>5, ReplyIs
  <2>7. ASSUME NEW b \in Apps, NEW c, NEW r, Holds(b, c, r), lost < RoomPeriods
        PROVE  rooms'[c] = rooms[c] /\ regs'[r].missed <= lost + Late(b)'
    <3>1. /\ r \in DOMAIN regs /\ c \in Codes /\ rooms[c] = r
          /\ regs[r].missed <= lost + Late(b)
      BY <2>7 DEF HostInv, Keeps
    <3>2. c # x.code
      BY <1>2, <3>1, RegTypes DEF None
    <3> QED BY <2>1, <2>4, <2>6, <3>1, <3>2, RegTypes
  <2>8. ASSUME NEW b \in Apps, NEW c, NEW r, b = x.app, c = x.code, r = n
        PROVE  Keeps(b, c, r)'
    <3>1. rooms'[c] = n
      BY <1>1, <2>1, <2>4, <2>8, RegTypes
    <3>2. regs'[n].missed <= lost + Late(b)'
      BY <2>3, <2>4, RegTypes DEF Late
    <3>3. \A y \in net' : y.op = "remove" => y.token # n
      BY <2>4, <2>6 DEF HostInv
    <3> QED BY <1>1, <2>3, <2>4, <2>8, <3>1, <3>2, <3>3 DEF Keeps
  <2> QED BY <2>4, <2>6, <2>7, <2>8, ServiceKeeps
<1>3. CASE ~(rooms[x.code] = None /\ InviteForm = "JL1")
  <2>1. Reply(x, NoAnswer) /\ UNCHANGED <<rooms, regs>>
    BY <1>3 DEF ServeCreate, service
  <2>2. /\ \A y \in net' : y.op = "remove" => y \in net
        /\ \A b \in Apps : Late(b)' = Late(b)
        /\ \A b \in Apps : \A c, r : Holds(b, c, r)' => Holds(b, c, r)
    BY <2>1, AnswersAre, ReplyIs
  <2> QED BY <2>1, <2>2, ServiceRests, RegTypes DEF Late
<1> QED BY <1>2, <1>3

\* Requests and decisions are nothing to the rooms themselves.
LEMMA JoinKeeps ==
  ASSUME TypeInv, ServiceInv, HostInv, NEW x \in net, x.stage # "answered",
         \/ x.op = "join" /\ ServeJoin(x)
         \/ x.op = "decide" /\ ServeDecide(x),
         dir' = dir, lost' = lost
  PROVE  HostInv'
<1>1. rooms' = rooms /\ \E answer : Reply(x, answer)
  BY DEF ServeJoin, ServeDecide
<1>2. /\ \A y \in net' : y.op = "remove" => y \in net
      /\ \A b \in Apps : Late(b)' = Late(b)
      /\ \A b \in Apps : \A c, r : Holds(b, c, r)' => Holds(b, c, r)
  BY <1>1, ReplyIs
<1>3. /\ DOMAIN regs \subseteq DOMAIN regs'
      /\ \A r \in DOMAIN regs : regs'[r].by = regs[r].by /\ regs'[r].missed = regs[r].missed
  <2>1. \/ regs' = regs
        \/ regs' = [regs EXCEPT ![x.token].closed = @ \/ x.yes]
    BY DEF ServeJoin, ServeDecide
  <2>2. CASE regs' = [regs EXCEPT ![x.token].closed = @ \/ x.yes]
    BY <2>2, RegTypes DEF Registration
  <2> QED BY <2>1, <2>2
<1>4. ASSUME NEW b \in Apps, NEW c, NEW r, Holds(b, c, r), lost < RoomPeriods
      PROVE  rooms'[c] = rooms[c] /\ regs'[r].missed <= lost + Late(b)'
  BY <1>1, <1>2, <1>3, <1>4 DEF HostInv, Keeps
<1> QED BY <1>2, <1>3, <1>4, ServiceKeeps

\* A removal under the token of a room is not one of a room that is kept.
LEMMA RemoveKeeps ==
  ASSUME TypeInv, HostInv, NEW x \in net, x.op = "remove", x.stage # "answered",
         ServeRemove(x), dir' = dir, lost' = lost
  PROVE  HostInv'
<1>1. Reply(x, Accepted) /\ regs' = regs
  BY DEF ServeRemove
<1>2. /\ \A y \in net' : y.op = "remove" => y \in net
      /\ \A b \in Apps : Late(b)' = Late(b)
      /\ \A b \in Apps : \A c, r : Holds(b, c, r)' => Holds(b, c, r)
  BY <1>1, ReplyIs
<1>3. ASSUME NEW b \in Apps, NEW c, NEW r, Holds(b, c, r), lost < RoomPeriods
      PROVE  rooms'[c] = rooms[c] /\ regs'[r].missed <= lost + Late(b)'
  <2>1. /\ c \in Codes /\ rooms[c] = r /\ x.token # r
        /\ regs[r].missed <= lost + Late(b)
    BY <1>3 DEF HostInv, Keeps
  <2>2. rooms'[c] = rooms[c]
    BY <2>1, RegTypes DEF ServeRemove, Owns
  <2> QED BY <1>1, <1>2, <2>1, <2>2
<1> QED BY <1>1, <1>2, <1>3, ServiceKeeps

\* A heartbeat that arrives is what it was expected for.
LEMMA BeatKeeps ==
  ASSUME TypeInv, ClientInv, HostInv, NEW x \in net, x.op = "beat", x.stage # "answered",
         ServeBeat(x), dir' = dir, lost' = lost
  PROVE  HostInv'
<1>1. rooms' = rooms /\ \E answer : Reply(x, answer)
  BY DEF ServeBeat
<1>2. /\ \A y \in net' : y.op = "remove" => y \in net
      /\ \A b \in Apps : Late(b)' = Late(b) \/ (x.stage = "sent" /\ x.app = b)
      /\ \A b \in Apps : \A c, r : Holds(b, c, r)' => Holds(b, c, r)
  BY <1>1, ReplyIs
<1>3. /\ DOMAIN regs \subseteq DOMAIN regs'
      /\ \A r \in DOMAIN regs : /\ regs'[r].by = regs[r].by
                                /\ regs'[r].missed \in {0, regs[r].missed}
      /\ Owns(x) /\ x.token \in DOMAIN regs => regs'[x.token].missed = 0
  <2>1. IF Owns(x) THEN regs' = [regs EXCEPT ![x.token].missed = 0] ELSE regs' = regs
    BY DEF ServeBeat
  <2> QED BY <2>1, RegTypes DEF Registration
<1>4. ASSUME NEW b \in Apps, NEW c, NEW r, Holds(b, c, r), lost < RoomPeriods
      PROVE  rooms'[c] = rooms[c] /\ regs'[r].missed <= lost + Late(b)'
  <2>1. /\ c \in Codes /\ rooms[c] = r /\ r \in DOMAIN regs
        /\ regs[r].missed <= lost + Late(b)
    BY <1>4 DEF HostInv, Keeps
  <2>2. regs[r].missed \in Nat /\ lost \in Nat /\ Late(b) \in Nat /\ Late(b)' \in Nat
    BY <2>1, RegTypes DEF Late
  <2>3. CASE Late(b)' = Late(b)
    BY <1>1, <1>3, <2>1, <2>2, <2>3
  <2>4. CASE x.stage = "sent" /\ x.app = b
    <3>1. Mine(x, b) /\ CallInv(x)
      BY <2>4 DEF Mine, Heeded, ClientInv, ClientOK
    <3>2. dir[b].hosting /\ x.code = dir[b].code /\ x.token = dir[b].token
      BY <2>4, <3>1 DEF CallInv
    <3>3. Holds(b, x.code, x.token)
      BY <3>2 DEF Holds
    <3>4. rooms[x.code] = x.token /\ x.token \in DOMAIN regs
      BY <1>4, <3>3 DEF HostInv, Keeps
    <3>5. c = x.code /\ r = x.token
      <4>1. \A y \in net : Mine(y, b) => y.op # "create"
        BY <3>2 DEF ClientInv, ClientOK, CallInv, OpensAlone, Mine
      <4> QED BY <1>4, <3>2, <4>1 DEF Holds, Opened
    <3>6. regs'[r].missed = 0
      BY <1>3, <2>1, <3>4, <3>5, RegTypes DEF Owns, None
    <3> QED BY <1>1, <2>2, <3>6
  <2> QED BY <1>2, <2>3, <2>4
<1> QED BY <1>2, <1>3, <1>4, ServiceKeeps

\* A room that is heard of often enough does not expire.
LEMMA ExpireKeeps ==
  ASSUME TypeInv, HostInv,
         \/ \E c \in Codes : ExpireRoom(c)
         \/ \E q \in DOMAIN requests : ExpireRequest(q)
  PROVE  HostInv'
<1>1. UNCHANGED <<regs, dir, net, lost>> /\ Settled
  BY DEF ExpireRoom, ExpireRequest
<1>2. \A b \in Apps : Late(b)' = Late(b) /\ Late(b) = 0
  BY <1>1 DEF Late, Settled
<1>3. \A b \in Apps : \A c, r : Holds(b, c, r)' => Holds(b, c, r)
  BY <1>1 DEF Holds
<1>4. ASSUME NEW b \in Apps, NEW c, NEW r, Holds(b, c, r), lost < RoomPeriods
      PROVE  rooms'[c] = rooms[c] /\ regs'[r].missed <= lost + Late(b)'
  <2>1. /\ c \in Codes /\ rooms[c] = r /\ r \in DOMAIN regs
        /\ regs[r].missed <= lost + Late(b)
    BY <1>4 DEF HostInv, Keeps
  <2>2. regs[r].missed # RoomPeriods
    BY <1>2, <1>4, <2>1, RegTypes DEF RoomPeriods
  <2>3. rooms'[c] = rooms[c]
    BY <2>1, <2>2, RegTypes DEF ExpireRoom, ExpireRequest
  <2> QED BY <1>1, <1>2, <2>1, <2>3
<1> QED BY <1>1, <1>3, <1>4, ServiceKeeps

\* A period begins with the heartbeat of every host on its way.
LEMMA PeriodKeeps ==
  ASSUME TypeInv, ClientInv, HostInv, Period
  PROVE  HostInv'
<1> DEFINE beat(a) == Call(a, "beat", dir[a].code, dir[a].token, None, FALSE)
           aged(r) == IF rooms[regs[r].code] = r THEN [regs[r] EXCEPT !.missed = @ + 1] ELSE regs[r]
<1>1. /\ dir' = [a \in Apps |-> [dir[a] EXCEPT !.beating = @ \/ a \in Beats]]
      /\ net' = net \cup {beat(a) : a \in Beats} /\ Settled
      /\ UNCHANGED <<rooms, lost>>
      /\ regs' = [r \in DOMAIN regs |-> aged(r)]
  BY DEF Period
<1>2. \A a \in Apps : /\ dir'[a].hosting = dir[a].hosting /\ dir'[a].code = dir[a].code
                      /\ dir'[a].token = dir[a].token
  BY <1>1, ClientTypes DEF Clients
<1>3. \A a \in Apps : Mine(beat(a), a) /\ beat(a).op = "beat" /\ beat(a).stage = "sent"
  BY DEF Mine, Heeded, Call
<1>4. \A r \in DOMAIN regs : aged(r).by = regs[r].by /\ aged(r).missed <= regs[r].missed + 1
  BY RegTypes DEF Registration
<1> HIDE DEF beat, aged
<1>5. /\ DOMAIN regs' = DOMAIN regs
      /\ \A r \in DOMAIN regs : regs'[r].by = regs[r].by /\ regs'[r].missed <= regs[r].missed + 1
  BY <1>1, <1>4
<1>6. \A x \in net' : x.op = "remove" => x \in net
  BY <1>1, <1>3 DEF Beats
<1>7. ASSUME NEW b \in Apps, NEW c, NEW r, Holds(b, c, r)'
      PROVE  Holds(b, c, r) /\ dir[b].hosting
  <2>1. \A x \in net' : Opened(x) => x \in net /\ ~Heeded(x)
    BY <1>1, <1>3 DEF Opened, Beats, Settled, Heeded
  <2> QED BY <1>2, <1>7, <2>1 DEF Holds, Mine
<1>8. \A b \in Apps : ~dir[b].beating /\ Late(b) = 0
  BY <1>1 DEF ClientInv, ClientOK, Settled, Mine, Heeded, Late
<1>9. \A b \in Apps : dir[b].hosting => Late(b)' = 1
  <2> SUFFICES ASSUME NEW b \in Apps, dir[b].hosting
               PROVE  \E x \in net' : Mine(x, b) /\ x.op = "beat" /\ x.stage = "sent"
    BY DEF Late
  <2>1. b \in Beats
    BY <1>8 DEF Beats
  <2> QED BY <1>1, <1>3, <2>1
<1>10. ASSUME NEW b \in Apps, NEW c, NEW r, Holds(b, c, r), dir[b].hosting, lost < RoomPeriods
       PROVE  rooms'[c] = rooms[c] /\ regs'[r].missed <= lost + Late(b)'
  <2>1. r \in DOMAIN regs /\ regs[r].missed <= lost + Late(b)
    BY <1>10 DEF HostInv, Keeps
  <2>2. regs'[r].missed \in Nat /\ regs[r].missed \in Nat /\ lost \in Nat
    <3>1. TypeInv'
      BY PeriodTyped
    <3>2. \A q \in DOMAIN regs' : regs'[q] \in Registration
      BY <3>1, LenProperties, ElementOfSeq DEF TypeInv, ServiceTypes
    <3> QED BY <1>5, <2>1, <3>2, RegTypes DEF Registration
  <2> QED BY <1>1, <1>5, <1>8, <1>9, <1>10, <2>1, <2>2
<1> QED BY <1>1, <1>5, <1>6, <1>7, <1>10, ServiceKeeps

LEMMA HostStep ==
  ASSUME TypeInv, ServiceInv, ClientInv, HostInv, [Next]_vars
  PROVE  HostInv'
<1>1. CASE \E x \in net : Serve(x)
  <2>1. PICK x \in net : Serve(x)
    BY <1>1
  <2>2. x.stage # "answered" /\ UNCHANGED <<dir, lost>>
    BY <2>1 DEF Serve
  <2> QED BY <2>1, <2>2, CreateKeeps, BeatKeeps, RemoveKeeps, JoinKeeps DEF Serve
<1>2. CASE \E x \in net : Answer(x) \/ Fail(x)
  BY <1>2, HandleKeeps
<1>3. CASE \/ \E a \in Hosts, c \in Codes : HostCode(a, c)
           \/ \E a \in Guests, c \in Codes : JoinCode(a, c)
  BY <1>3, StartKeeps DEF Apps
<1>4. CASE (\E a \in Guests, h \in Hosts : JoinInvite(a, h)) \/ \E a \in Apps : Leave(a)
  BY <1>4, LeaveKeeps DEF Apps
<1>5. CASE \/ \E a \in Apps : Poll(a)
           \/ \E a \in Hosts, q \in Reqs, yes \in BOOLEAN : Decide(a, q, yes)
  BY <1>5, AsksMore DEF Apps
<1>6. CASE (\E c \in Codes : ExpireRoom(c)) \/ \E q \in DOMAIN requests : ExpireRequest(q)
  BY <1>6, ExpireKeeps
<1>7. CASE Period
  BY <1>7, PeriodKeeps
<1>8. CASE UNCHANGED vars
  <2>1. \A b \in Apps : Late(b)' = Late(b)
    BY <1>8 DEF vars, Late
  <2>2. \A b \in Apps : \A c, r : Holds(b, c, r)' => Holds(b, c, r)
    BY <1>8 DEF vars, Holds
  <2> QED BY <1>8, <2>1, <2>2, ServiceRests, RegTypes DEF vars, Late
<1> QED BY <1>1, <1>2, <1>3, <1>4, <1>5, <1>6, <1>7, <1>8 DEF Next

\* What a host holds, or is about to be told that it holds, it keeps.
THEOREM HostsCorrect == Spec => []HostInv
<1>1. Init => HostInv
  <2>1. ~Idle.hosting
    BY DEF Idle
  <2> QED BY <2>1 DEF Init, HostInv, Holds
<1>2. TypeInv /\ ServiceInv /\ ClientInv /\ HostInv /\ [Next]_vars => HostInv'
  BY HostStep
<1> QED BY <1>1, <1>2, RoomsCorrect, ClientsCorrect, PTL DEF Spec

\* A host keeps its room through any two calls that fail: what the service has under
\* the code it shows is its own registration.  (heartbeat(), expire())
THEOREM HostsKeepTheirRooms == Spec => []HostKeepsItsRoom
<1>1. HostInv => HostKeepsItsRoom
  BY DEF HostInv, HostKeepsItsRoom, Holds, Keeps, Apps
<1> QED BY <1>1, HostsCorrect, PTL
===============================================================================
