--------------------------- MODULE ManagerProofs ----------------------------
(***************************************************************************)
(* Proofs about the room registry: for every number of connections, rooms, *)
(* delete events and deletions of other documents, and every capacity of a *)
(* room's command channel.                                                 *)
(***************************************************************************)
EXTENDS Manager, WellFoundedInduction, TLAPS

-----------------------------------------------------------------------------
(* The inductive invariant                                                 *)

Places == {"start", "gate", "lookup", "acquire", "inflight", "check", "enter", "waiting", "answered",
           "in", "gone", "refused"}

\* A Join that holds a room, and one that was queued there.
HasRoom == {"check", "enter", "waiting", "answered", "in"}
Queued == {"waiting", "answered", "in", "gone"}

Tables ==
  /\ epoch \in Nat /\ tomb \in Nat /\ events \in Nat /\ timers \subseteq 1..events
  /\ closed \in BOOLEAN
  /\ reg \in Rooms \cup {None} /\ target \in Rooms \cup {None}
  /\ flight \in Joiners \cup {"none"}
  /\ state \in [Rooms -> States]
  /\ cmds \in [Rooms -> Seq(Commands)]
  /\ occupants \in [Rooms -> SUBSET (Joiners \cup {None})]
  /\ idle \in [Rooms -> BOOLEAN]
  /\ jpc \in [Joiners -> Places]
  /\ jepoch \in [Joiners -> Nat]
  /\ jroom \in [Joiners -> Rooms \cup {None}]

\* A room that serves or is being torn down is the registered one, a room that loads
\* is the flight's, and there is a flight only while no room is registered.
Registered ==
  /\ \A i \in Rooms : state[i] \in {"active", "draining", "released"} => reg = i
  /\ \A i \in Rooms : state[i] = "materializing" => flight # "none"
  /\ \A i, k \in Rooms : state[i] = "materializing" /\ state[k] = "materializing" => i = k
  /\ flight # "none" => /\ reg = None
                        /\ jpc[flight] = "inflight"
                        /\ \E i \in Rooms : state[i] = "materializing"

Handed == \A j \in Joiners : jpc[j] \in HasRoom => jroom[j] \in Rooms

\* The joins in the channel of a serving room come from connections that were handed
\* this room and have not come back from it; nothing is queued before a room serves.
Queues ==
  \A i \in Rooms :
    /\ state[i] \in {"none", "materializing"} => cmds[i] = <<>>
    /\ state[i] = "active" =>
         \A k \in 1..Len(cmds[i]) :
           cmds[i][k].kind = "join" =>
             /\ cmds[i][k].who \in Joiners
             /\ jroom[cmds[i][k].who] = i
             /\ jpc[cmds[i][k].who] \in Queued

\* While the tombstone of the last delivery stands, every epoch a Join captured is
\* out of date, and only the room that delivery found may still serve.
Epochs ==
  /\ \A j \in Joiners : jepoch[j] <= epoch
  /\ events \in timers =>
       /\ tomb = events
       /\ \A j \in Joiners : jepoch[j] < epoch
       /\ event \in {"handling", "waiting"} => \A i \in Rooms : state[i] = "active" => i = target

ManagerInv ==
  /\ Tables /\ Registered /\ Handed /\ Queues /\ Epochs
  /\ NoResurrection /\ ShutdownMissesNobody /\ EmptyRoomIsWatched

-----------------------------------------------------------------------------
(* Rooms and channels                                                      *)

\* A set of numbers has a least one.
LEMMA Least ==
  ASSUME NEW S, S \subseteq Nat, S # {}
  PROVE  \E i \in S : \A k \in S : i <= k
<1> DEFINE Less == OpToRel(<, Nat)
<1>1. IsWellFoundedOn(Less, Nat)
  BY NatLessThanWellFounded
<1> HIDE DEF Less
<1>2. PICK i \in S : \A k \in S : ~(<<k, i>> \in Less)
  BY <1>1, WFMin
<1>3. \A k \in S : <<k, i>> \in Less <=> k < i
  BY DEF Less, OpToRel
<1>4. ASSUME NEW k \in S PROVE i <= k
  <2>1. i \in Nat /\ k \in Nat /\ ~(k < i)
    BY <1>2, <1>3
  <2> QED BY <2>1
<1> QED BY <1>4

\* Rooms are numbered from one.
LEMMA RoomNumbers == Rooms \subseteq Nat /\ None \notin Rooms
BY ManagerAssumption DEF Rooms, None

\* The room a flight begins to materialize is a new one.
LEMMA NextRoomIsFresh == Fresh # {} => NextRoom \in Rooms /\ state[NextRoom] = "none"
<1> SUFFICES ASSUME Fresh # {} PROVE NextRoom \in Fresh
  BY DEF Fresh
<1>1. Fresh \subseteq Nat
  BY RoomNumbers DEF Fresh
<1>2. \E i \in Fresh : \A k \in Fresh : i <= k
  BY <1>1, Least
<1> QED BY <1>2 DEF NextRoom

\* The commands of this module are commands.
LEMMA CommandTypes ==
  /\ \A j \in Joiners \cup {None} : Cmd("join", j) \in Commands /\ Cmd("leave", j) \in Commands
  /\ Cmd("close", None) \in Commands /\ Cmd("closeDeleted", None) \in Commands
BY DEF Cmd, Commands

\* Posting to a channel adds one command at its end.
LEMMA PostEffect ==
  ASSUME cmds \in [Rooms -> Seq(Commands)], NEW i \in Rooms, NEW c \in Commands, Post(i, c)
  PROVE  /\ cmds' \in [Rooms -> Seq(Commands)]
         /\ cmds'[i] # <<>>
         /\ \A r \in Rooms \ {i} : cmds'[r] = cmds[r]
         /\ \A k \in 1..Len(cmds'[i]) :
              (k \in 1..Len(cmds[i]) /\ cmds'[i][k] = cmds[i][k]) \/ cmds'[i][k] = c
<1>1. cmds[i] \in Seq(Commands)
  OBVIOUS
<1>2. cmds' = [cmds EXCEPT ![i] = Append(cmds[i], c)]
  BY DEF Post
<1>3. Append(cmds[i], c) \in Seq(Commands) /\ Append(cmds[i], c) # <<>>
  BY <1>1
<1>4. \A k \in 1..Len(Append(cmds[i], c)) :
        (k \in 1..Len(cmds[i]) /\ Append(cmds[i], c)[k] = cmds[i][k]) \/ Append(cmds[i], c)[k] = c
  BY <1>1
<1> QED BY <1>2, <1>3, <1>4

\* Taking a command leaves the rest of the channel.
LEMMA TakeEffect ==
  ASSUME cmds \in [Rooms -> Seq(Commands)], NEW i \in Rooms, cmds[i] # <<>>, Take(i)
  PROVE  /\ cmds' \in [Rooms -> Seq(Commands)]
         /\ \A r \in Rooms \ {i} : cmds'[r] = cmds[r]
         /\ \A k \in 1..Len(cmds'[i]) : k + 1 \in 1..Len(cmds[i]) /\ cmds'[i][k] = cmds[i][k + 1]
         /\ Head(cmds[i]) = cmds[i][1] /\ 1 \in 1..Len(cmds[i]) /\ cmds[i][1] \in Commands
<1>1. cmds[i] \in Seq(Commands)
  OBVIOUS
<1>2. cmds' = [cmds EXCEPT ![i] = Tail(cmds[i])]
  BY DEF Take
<1>3. Tail(cmds[i]) \in Seq(Commands) /\ Len(cmds[i]) \in Nat /\ Len(cmds[i]) >= 1
  BY <1>1
<1>4. \A k \in 1..Len(Tail(cmds[i])) :
        k + 1 \in 1..Len(cmds[i]) /\ Tail(cmds[i])[k] = cmds[i][k + 1]
  BY <1>1, <1>3
<1> QED BY <1>1, <1>2, <1>3, <1>4

\* A channel without space is not empty.
LEMMA FullIsNotEmpty ==
  ASSUME cmds \in [Rooms -> Seq(Commands)], NEW i \in Rooms, ~HasSpace(i)
  PROVE  cmds[i] # <<>>
BY ManagerAssumption DEF HasSpace

-----------------------------------------------------------------------------
(* Initially, and by the steps of a Join                                   *)

\* The invariant holds initially.
LEMMA ManagerInitInv == Init => ManagerInv
<1> SUFFICES ASSUME Init PROVE ManagerInv
  OBVIOUS
<1>1. cmds \in [Rooms -> Seq(Commands)] /\ \A i \in Rooms : cmds[i] = <<>>
  BY DEF Init
<1>2. Tables
  BY <1>1 DEF Init, Tables, Places, States
<1>3. Registered /\ Handed /\ Queues
  BY <1>1 DEF Init, Registered, Handed, HasRoom, Queues
<1>4. Epochs /\ NoResurrection /\ ShutdownMissesNobody /\ EmptyRoomIsWatched
  BY DEF Init, Epochs, NoResurrection, ShutdownMissesNobody, EmptyRoomIsWatched
<1> QED BY <1>2, <1>3, <1>4 DEF ManagerInv

\* A Join goes on from a place that no room and no flight depends on: everything the
\* invariant says stays true.
LEMMA JoinerMoves ==
  ASSUME ManagerInv, NEW j \in Joiners, NEW place \in Places,
         jpc' = [jpc EXCEPT ![j] = place], jpc[j] \notin {"inflight", "check", "enter"},
         place \in HasRoom => jpc[j] \in HasRoom,
         jpc[j] \in Queued => place \in Queued \/ state[jroom[j]] # "active",
         UNCHANGED <<registry, roomVars, jroom, ownerVars, downVars>>,
         UNCHANGED jepoch \/ (tomb = 0 /\ jepoch' = [jepoch EXCEPT ![j] = epoch])
  PROVE  ManagerInv'
<1> USE DEF ManagerInv, registry, roomVars, ownerVars, downVars
<1>1. Tables'
  BY DEF Tables
<1>2. Registered'
  BY DEF Tables, Registered
<1>3. Handed' /\ Queues'
  BY DEF Tables, Handed, Queues
<1>4. Epochs'
  <2>1. events \in timers => tomb # 0 /\ UNCHANGED jepoch
    BY DEF Tables, Epochs
  <2>2. \A o \in Joiners : jepoch'[o] = jepoch[o] \/ jepoch'[o] = epoch
    BY DEF Tables
  <2>3. \A o \in Joiners : jepoch'[o] <= epoch
    BY <2>2 DEF Tables, Epochs
  <2> QED BY <2>1, <2>3 DEF Epochs
<1>5. NoResurrection' /\ ShutdownMissesNobody'
  BY DEF NoResurrection, ShutdownMissesNobody
<1>6. EmptyRoomIsWatched'
  <2>1. \A o \in Joiners : jpc[o] \in {"check", "enter"} => jpc'[o] = jpc[o]
    BY DEF Tables
  <2> QED BY <2>1 DEF EmptyRoomIsWatched
<1> QED BY <1>1, <1>2, <1>3, <1>4, <1>5, <1>6

\* The steps of a Join up to its flight, and its return.
LEMMA JoinMovesInv ==
  ASSUME ManagerInv, NEW j \in Joiners,
         \/ Authorize(j) \/ Gate(j) \/ RequireDocument(j) \/ AcquireShutDown(j) \/ AcquireFollows(j)
         \/ JoinAnswered(j) \/ RoomWentAway(j)
  PROVE  ManagerInv'
<1>1. \E place \in Places :
        /\ jpc' = [jpc EXCEPT ![j] = place]
        /\ place \in HasRoom => jpc[j] \in HasRoom
        /\ jpc[j] \in Queued => place \in Queued \/ state[jroom[j]] # "active"
  BY DEF Authorize, Gate, RequireDocument, AcquireShutDown, AcquireFollows, JoinAnswered, RoomWentAway,
         Retry, To, Places, HasRoom, Queued
<1>2. /\ jpc[j] \notin {"inflight", "check", "enter"}
      /\ UNCHANGED <<registry, roomVars, jroom, ownerVars, downVars>>
      /\ UNCHANGED jepoch \/ (tomb = 0 /\ jepoch' = [jepoch EXCEPT ![j] = epoch])
  BY DEF Authorize, Gate, RequireDocument, AcquireShutDown, AcquireFollows, JoinAnswered, RoomWentAway
<1> QED BY <1>1, <1>2, JoinerMoves

\* acquire finds a registered room.
LEMMA AcquireFoundInv ==
  ASSUME ManagerInv, NEW j \in Joiners, AcquireFound(j)
  PROVE  ManagerInv'
<1> USE DEF ManagerInv, registry, roomVars, ownerVars, downVars
<1>1. /\ jpc[j] = "acquire" /\ flight = "none" /\ reg \in Rooms
      /\ jpc' = [jpc EXCEPT ![j] = "check"] /\ jroom' = [jroom EXCEPT ![j] = reg]
      /\ UNCHANGED <<registry, roomVars, jepoch, ownerVars, downVars>>
  BY DEF AcquireFound, To, Tables
<1>2. Tables'
  BY <1>1 DEF Tables, Places
<1>3. Registered' /\ Handed'
  BY <1>1 DEF Tables, Registered, Handed
<1>4. Queues'
  BY <1>1 DEF Tables, Queues, Queued
<1>5. Epochs' /\ NoResurrection' /\ ShutdownMissesNobody'
  BY <1>1 DEF Epochs, NoResurrection, ShutdownMissesNobody
<1>6. EmptyRoomIsWatched'
  <2>1. \A o \in Joiners : jpc[o] \in {"check", "enter"} => jpc'[o] = jpc[o] /\ jroom'[o] = jroom[o]
    BY <1>1 DEF Tables
  <2> QED BY <1>1, <2>1 DEF EmptyRoomIsWatched
<1> QED BY <1>2, <1>3, <1>4, <1>5, <1>6

\* A Join that was handed a room leaves its place, and puts a command on the room's
\* channel or finds it full or the room not serving.
LEMMA JoinerPosts ==
  ASSUME ManagerInv, NEW j \in Joiners, NEW place \in Places, NEW c \in Commands,
         jpc[j] \in {"check", "enter", "in"},
         jpc' = [jpc EXCEPT ![j] = place],
         jpc[j] = "in" => place = "gone",
         \/ UNCHANGED cmds
         \/ Post(jroom[j], c) /\ (c.kind = "join" => c.who = j /\ place = "waiting"),
         \/ jpc[j] = "in" \/ place \in {"check", "enter"}
         \/ state[jroom[j]] # "active" \/ cmds'[jroom[j]] # <<>>,
         UNCHANGED cmds \/ state[jroom[j]] = "active",
         UNCHANGED <<registry, state, occupants, idle, jepoch, jroom, ownerVars, downVars>>
  PROVE  ManagerInv'
<1> USE DEF ManagerInv, registry, ownerVars, downVars
<1>0. jroom[j] \in Rooms
  BY DEF Handed, HasRoom
<1>1. /\ cmds' \in [Rooms -> Seq(Commands)]
      /\ \A r \in Rooms \ {jroom[j]} : cmds'[r] = cmds[r]
      /\ \A k \in 1..Len(cmds'[jroom[j]]) :
           \/ k \in 1..Len(cmds[jroom[j]]) /\ cmds'[jroom[j]][k] = cmds[jroom[j]][k]
           \/ cmds'[jroom[j]][k] = c /\ (c.kind = "join" => c.who = j /\ place = "waiting")
      /\ \A r \in Rooms : cmds'[r] = <<>> => cmds[r] = <<>>
  <2>1. CASE UNCHANGED cmds
    BY <2>1 DEF Tables
  <2>2. CASE Post(jroom[j], c) /\ (c.kind = "join" => c.who = j /\ place = "waiting")
    BY <2>2, <1>0, PostEffect DEF Tables
  <2> QED BY <2>1, <2>2
<1>2. Tables'
  BY <1>1 DEF Tables
<1>3. Registered' /\ Handed'
  BY <1>0 DEF Tables, Registered, Handed
<1>4. Queues'
  <2>1. ASSUME NEW i \in Rooms, state[i] \in {"none", "materializing"} PROVE cmds'[i] = <<>>
    BY <1>1, <2>1 DEF Queues
  <2>2. ASSUME NEW i \in Rooms, state[i] = "active", NEW k \in 1..Len(cmds'[i]),
               cmds'[i][k].kind = "join"
        PROVE  /\ cmds'[i][k].who \in Joiners /\ jroom[cmds'[i][k].who] = i
               /\ jpc'[cmds'[i][k].who] \in Queued
    <3>1. CASE k \in 1..Len(cmds[i]) /\ cmds'[i][k] = cmds[i][k]
      <4>1. /\ cmds[i][k].who \in Joiners /\ jroom[cmds[i][k].who] = i
            /\ jpc[cmds[i][k].who] \in Queued
        BY <2>2, <3>1 DEF Queues
      <4> QED BY <3>1, <4>1 DEF Tables, Queued
    <3>2. CASE i = jroom[j] /\ cmds'[i][k] = c /\ c.who = j /\ place = "waiting"
      BY <3>2 DEF Tables, Queued
    <3> QED BY <1>1, <2>2, <3>1, <3>2
  <2> QED BY <2>1, <2>2 DEF Queues
<1>5. Epochs' /\ NoResurrection' /\ ShutdownMissesNobody'
  BY DEF Epochs, NoResurrection, ShutdownMissesNobody
<1>6. EmptyRoomIsWatched'
  <2>1. \A o \in Joiners \ {j} : jpc'[o] = jpc[o]
    BY DEF Tables
  <2>2. jpc'[j] = place
    BY DEF Tables
  <2> QED BY <1>1, <2>1, <2>2 DEF EmptyRoomIsWatched
<1> QED BY <1>2, <1>3, <1>4, <1>5, <1>6

\* The epoch check, the enqueueing of the join, and Leave.
LEMMA JoinPostsInv ==
  ASSUME ManagerInv, NEW j \in Joiners, CheckEpoch(j) \/ EnterRoom(j) \/ Leave(j)
  PROVE  ManagerInv'
<1>0. /\ jpc[j] \in {"check", "enter", "in"}
      /\ UNCHANGED <<registry, state, occupants, idle, jepoch, jroom, ownerVars, downVars>>
  BY DEF CheckEpoch, EnterRoom, Leave, roomVars
<1>1. jroom[j] \in Rooms /\ cmds \in [Rooms -> Seq(Commands)]
  BY <1>0 DEF ManagerInv, Handed, HasRoom, Tables
<1>2. /\ Cmd("leave", None) \in Commands /\ Cmd("leave", j) \in Commands /\ Cmd("join", j) \in Commands
      /\ Cmd("leave", None).kind = "leave" /\ Cmd("leave", j).kind = "leave"
      /\ Cmd("join", j).who = j
  BY CommandTypes DEF Cmd
<1>3. ASSUME NEW c \in Commands, Post(jroom[j], c) PROVE cmds'[jroom[j]] # <<>>
  BY <1>1, <1>3, PostEffect
<1>4. ~HasSpace(jroom[j]) => cmds[jroom[j]] # <<>>
  BY <1>1, FullIsNotEmpty
<1>5. CASE CheckEpoch(j)
  <2>1. CASE epoch = jepoch[j]
    <3>1. jpc' = [jpc EXCEPT ![j] = "enter"] /\ UNCHANGED cmds /\ jpc[j] = "check"
      BY <1>5, <2>1 DEF CheckEpoch, To
    <3> QED BY <1>0, <1>2, <3>1, JoinerPosts DEF Places
  <2>2. CASE epoch # jepoch[j]
    <3>1. /\ jpc' = [jpc EXCEPT ![j] = "refused"] /\ jpc[j] = "check"
          /\ \/ state[jroom[j]] = "active" /\ Post(jroom[j], Cmd("leave", None))
             \/ ~(state[jroom[j]] = "active" /\ HasSpace(jroom[j])) /\ UNCHANGED cmds
      BY <1>5, <2>2 DEF CheckEpoch, To
    <3> QED BY <1>0, <1>2, <1>3, <1>4, <3>1, JoinerPosts DEF Places
  <2> QED BY <2>1, <2>2
<1>6. CASE EnterRoom(j)
  <2>1. CASE state[jroom[j]] = "active" /\ HasSpace(jroom[j])
    <3>1. jpc' = [jpc EXCEPT ![j] = "waiting"] /\ Post(jroom[j], Cmd("join", j)) /\ jpc[j] = "enter"
      BY <1>6, <2>1 DEF EnterRoom, To
    <3> QED BY <1>0, <1>2, <1>3, <2>1, <3>1, JoinerPosts DEF Places
  <2>2. CASE ~(state[jroom[j]] = "active" /\ HasSpace(jroom[j]))
    <3>1. \E place \in {"acquire", "refused"} : jpc' = [jpc EXCEPT ![j] = place]
      BY <1>6, <2>2 DEF EnterRoom, Retry, To
    <3>2. UNCHANGED cmds /\ jpc[j] = "enter"
      BY <1>6, <2>2 DEF EnterRoom
    <3> QED BY <1>0, <1>2, <1>4, <2>2, <3>1, <3>2, JoinerPosts DEF Places
  <2> QED BY <2>1, <2>2
<1>7. CASE Leave(j)
  <2>1. /\ jpc' = [jpc EXCEPT ![j] = "gone"] /\ jpc[j] = "in"
        /\ \/ state[jroom[j]] = "active" /\ Post(jroom[j], Cmd("leave", j))
           \/ UNCHANGED cmds
    BY <1>7 DEF Leave, To
  <2> QED BY <1>0, <1>2, <2>1, JoinerPosts DEF Places
<1> QED BY <1>5, <1>6, <1>7

-----------------------------------------------------------------------------
(* By a flight                                                             *)

\* The flight begins: nothing was registered and nothing was loading.
LEMMA AcquireLeadsInv ==
  ASSUME ManagerInv, NEW j \in Joiners, AcquireLeads(j)
  PROVE  ManagerInv'
<1> USE DEF ManagerInv, ownerVars, downVars
<1> DEFINE r == NextRoom
<1>1. /\ jpc[j] = "acquire" /\ flight = "none" /\ reg = None
      /\ flight' = j /\ jpc' = [jpc EXCEPT ![j] = "inflight"]
      /\ state' = [state EXCEPT ![r] = "materializing"]
      /\ UNCHANGED <<epoch, tomb, timers, closed, reg, cmds, occupants, idle, jepoch, jroom, ownerVars,
                     downVars>>
  BY DEF AcquireLeads, To
<1>2. r \in Rooms /\ state[r] = "none"
  BY NextRoomIsFresh DEF AcquireLeads
<1> HIDE DEF r
<1>3. j # "none" /\ \A i \in Rooms : state[i] \notin {"active", "draining", "released", "materializing"}
  BY <1>1, ManagerAssumption, RoomNumbers DEF Registered
<1>4. Tables'
  BY <1>1 DEF Tables, States, Places
<1>5. Registered'
  BY <1>1, <1>2, <1>3 DEF Tables, Registered
<1>6. Handed'
  BY <1>1 DEF Tables, Handed, HasRoom
<1>7. Queues'
  BY <1>1, <1>2, <1>3 DEF Tables, Queues
<1>8. Epochs' /\ NoResurrection' /\ ShutdownMissesNobody' /\ EmptyRoomIsWatched'
  BY <1>1, <1>3 DEF Tables, Epochs, NoResurrection, ShutdownMissesNobody, EmptyRoomIsWatched
<1> QED BY <1>4, <1>5, <1>6, <1>7, <1>8

\* The room of a flight is the one that loads, and no other room is alive.
LEMMA FlightRoom ==
  ASSUME ManagerInv, flight # "none"
  PROVE  /\ Materializing \in Rooms /\ state[Materializing] = "materializing"
         /\ flight \in Joiners /\ jpc[flight] = "inflight"
         /\ \A i \in Rooms : state[i] \notin {"active", "draining", "released"}
         /\ \A i \in Rooms \ {Materializing} : state[i] # "materializing"
<1>1. \E i \in Rooms : state[i] = "materializing"
  BY DEF ManagerInv, Registered
<1>2. Materializing \in Rooms /\ state[Materializing] = "materializing"
  BY <1>1 DEF Materializing
<1>3. \A i \in Rooms : state[i] \notin {"active", "draining", "released"}
  BY RoomNumbers DEF ManagerInv, Registered
<1>4. \A i \in Rooms \ {Materializing} : state[i] # "materializing"
  BY <1>2 DEF ManagerInv, Registered
<1> QED BY <1>2, <1>3, <1>4 DEF ManagerInv, Tables, Registered

\* The room is registered: no delete came since the leader looked, and no shutdown.
LEMMA FlightRegistersInv ==
  ASSUME ManagerInv, FlightRegisters
  PROVE  ManagerInv'
<1> USE DEF ManagerInv, ownerVars, downVars
<1> DEFINE m == Materializing
<1>1. /\ flight # "none" /\ epoch = jepoch[flight] /\ closed = FALSE
      /\ reg' = m /\ flight' = "none" /\ state' = [state EXCEPT ![m] = "active"]
      /\ jpc' = [j \in Joiners |-> IF jpc[j] = "inflight" THEN "check" ELSE jpc[j]]
      /\ jroom' = [j \in Joiners |-> IF jpc[j] = "inflight" THEN m ELSE jroom[j]]
      /\ UNCHANGED <<epoch, tomb, timers, closed, cmds, occupants, idle, jepoch, ownerVars, downVars>>
  BY DEF FlightRegisters, MayRegister, EndFlight, Tables
<1>2. /\ m \in Rooms /\ state[m] = "materializing"
      /\ flight \in Joiners /\ jpc[flight] = "inflight"
      /\ \A i \in Rooms : state[i] \notin {"active", "draining", "released"}
      /\ \A i \in Rooms \ {m} : state[i] # "materializing"
  BY <1>1, FlightRoom
<1> HIDE DEF m
<1>3. events \notin timers
  BY <1>1, <1>2 DEF Epochs, Tables
<1>4. Tables'
  BY <1>1, <1>2 DEF Tables, States, Places
<1>5. Registered'
  BY <1>1, <1>2 DEF Tables, Registered
<1>6. Handed'
  BY <1>1, <1>2 DEF Tables, Handed, HasRoom
<1>7. Queues'
  <2>1. \A i \in Rooms : state'[i] = "active" => cmds'[i] = <<>>
    BY <1>1, <1>2 DEF Tables, Queues
  <2>2. \A i \in Rooms : state'[i] \in {"none", "materializing"} => cmds'[i] = <<>>
    BY <1>1, <1>2 DEF Tables, Queues
  <2> QED BY <2>1, <2>2 DEF Queues
<1>8. Epochs' /\ NoResurrection' /\ ShutdownMissesNobody'
  BY <1>1, <1>3 DEF Epochs, NoResurrection, ShutdownMissesNobody
<1>9. EmptyRoomIsWatched'
  <2>1. jroom'[flight] = m /\ jpc'[flight] = "check"
    BY <1>1, <1>2
  <2>2. \A i \in Rooms : state'[i] = "active" => i = m
    BY <1>1, <1>2 DEF Tables
  <2> QED BY <1>2, <2>1, <2>2 DEF EmptyRoomIsWatched
<1> QED BY <1>4, <1>5, <1>6, <1>7, <1>8, <1>9

\* The load failed, or its room must not serve.
LEMMA FlightFailsInv ==
  ASSUME ManagerInv, FlightFails
  PROVE  ManagerInv'
<1> USE DEF ManagerInv, ownerVars, downVars
<1> DEFINE m == Materializing
<1>1. /\ flight # "none" /\ flight' = "none" /\ state' = [state EXCEPT ![m] = "closed"]
      /\ jpc' = [j \in Joiners |-> IF jpc[j] = "inflight" THEN "refused" ELSE jpc[j]]
      /\ jroom' = [j \in Joiners |-> IF jpc[j] = "inflight" THEN None ELSE jroom[j]]
      /\ UNCHANGED <<epoch, tomb, timers, closed, reg, cmds, occupants, idle, jepoch, ownerVars,
                     downVars>>
  BY DEF FlightFails, EndFlight
<1>2. /\ m \in Rooms /\ state[m] = "materializing"
      /\ \A i \in Rooms : state[i] \notin {"active", "draining", "released"}
      /\ \A i \in Rooms \ {m} : state[i] # "materializing"
  BY <1>1, FlightRoom
<1> HIDE DEF m
<1>3. \A i \in Rooms : state'[i] \notin {"active", "draining", "released", "materializing"}
  BY <1>1, <1>2 DEF Tables
<1>4. Tables'
  BY <1>1, <1>2 DEF Tables, States, Places
<1>5. Registered' /\ Handed'
  BY <1>1, <1>3 DEF Tables, Registered, Handed, HasRoom
<1>6. Queues'
  BY <1>1, <1>2, <1>3 DEF Tables, Queues
<1>7. Epochs' /\ NoResurrection' /\ ShutdownMissesNobody' /\ EmptyRoomIsWatched'
  BY <1>1, <1>3 DEF Epochs, NoResurrection, ShutdownMissesNobody, EmptyRoomIsWatched
<1> QED BY <1>4, <1>5, <1>6, <1>7

-----------------------------------------------------------------------------
(* By a room's run loop                                                    *)

\* A serving room takes the command at the head of its channel.
LEMMA ServingHead ==
  ASSUME ManagerInv, NEW i \in Rooms, state[i] = "active", cmds[i] # <<>>, Take(i),
         UNCHANGED <<state, jroom>>,
         \A j \in Joiners : jpc[j] \in Queued => jpc'[j] \in Queued
  PROVE  cmds' \in [Rooms -> Seq(Commands)] /\ Queues'
<1>1. /\ cmds' \in [Rooms -> Seq(Commands)]
      /\ \A r \in Rooms \ {i} : cmds'[r] = cmds[r]
      /\ \A k \in 1..Len(cmds'[i]) : k + 1 \in 1..Len(cmds[i]) /\ cmds'[i][k] = cmds[i][k + 1]
  BY TakeEffect DEF ManagerInv, Tables
<1>2. ASSUME NEW r \in Rooms, state[r] \in {"none", "materializing"} PROVE cmds'[r] = <<>>
  BY <1>1, <1>2 DEF ManagerInv, Queues
<1>3. ASSUME NEW r \in Rooms, state[r] = "active", NEW k \in 1..Len(cmds'[r]),
             cmds'[r][k].kind = "join"
      PROVE  /\ cmds'[r][k].who \in Joiners /\ jroom[cmds'[r][k].who] = r
             /\ jpc'[cmds'[r][k].who] \in Queued
  <2>1. PICK n \in 1..Len(cmds[r]) : cmds'[r][k] = cmds[r][n]
    BY <1>1, <1>3
  <2> QED BY <1>3, <2>1 DEF ManagerInv, Queues
<1> QED BY <1>1, <1>2, <1>3 DEF Queues

\* The run loop admits a joiner (handleJoin): the idle timer goes, an occupant arrives.
LEMMA HandleJoinInv ==
  ASSUME ManagerInv, NEW i \in Rooms, HandleJoin(i)
  PROVE  ManagerInv'
<1> USE DEF ManagerInv, registry, ownerVars, downVars
<1> DEFINE j == Head(cmds[i]).who
<1>1. /\ state[i] = "active" /\ cmds[i] # <<>> /\ Head(cmds[i]).kind = "join" /\ Take(i)
      /\ occupants' = [occupants EXCEPT ![i] = @ \cup {j}] /\ jpc' = [jpc EXCEPT ![j] = "answered"]
      /\ idle' = [idle EXCEPT ![i] = FALSE]
      /\ UNCHANGED <<registry, state, jepoch, jroom, ownerVars, downVars>>
  BY DEF HandleJoin, Serving, To
<1>2. Head(cmds[i]) = cmds[i][1] /\ 1 \in 1..Len(cmds[i])
  BY <1>1, TakeEffect DEF Tables
<1>3. j \in Joiners /\ jroom[j] = i /\ jpc[j] \in Queued
  BY <1>1, <1>2 DEF Queues
<1> HIDE DEF j
<1>4. \A o \in Joiners \ {j} : jpc'[o] = jpc[o]
  BY <1>1 DEF Tables
<1>5. jpc'[j] = "answered"
  BY <1>1, <1>3 DEF Tables
<1>6. cmds' \in [Rooms -> Seq(Commands)] /\ Queues'
  BY <1>1, <1>4, <1>5, ServingHead DEF Queued
<1>7. Tables'
  BY <1>1, <1>3, <1>6 DEF Tables, Places
<1>8. Registered' /\ Handed'
  BY <1>1, <1>3, <1>4, <1>5 DEF Tables, Registered, Handed, Queued
<1>9. Epochs' /\ NoResurrection' /\ ShutdownMissesNobody'
  BY <1>1 DEF Epochs, NoResurrection, ShutdownMissesNobody
<1>10. EmptyRoomIsWatched'
  <2>1. occupants'[i] # {}
    BY <1>1 DEF Tables
  <2>2. \A r \in Rooms \ {i} : /\ occupants'[r] = occupants[r] /\ idle'[r] = idle[r]
                              /\ cmds'[r] = cmds[r]
    BY <1>1, TakeEffect DEF Tables
  <2>3. jpc[j] \notin {"check", "enter"}
    BY <1>3 DEF Queued
  <2> QED BY <1>1, <1>4, <2>1, <2>2, <2>3 DEF EmptyRoomIsWatched
<1> QED BY <1>6, <1>7, <1>8, <1>9, <1>10

\* The run loop lets a member go (handleLeave): the last one arms the idle timer.
LEMMA HandleLeaveInv ==
  ASSUME ManagerInv, NEW i \in Rooms, HandleLeave(i)
  PROVE  ManagerInv'
<1> USE DEF ManagerInv, registry, joinVars, ownerVars, downVars
<1>1. /\ state[i] = "active" /\ cmds[i] # <<>> /\ Take(i)
      /\ occupants' = [occupants EXCEPT ![i] = @ \ {Head(cmds[i]).who}]
      /\ idle' = [idle EXCEPT ![i] = @ \/ occupants'[i] = {}]
      /\ UNCHANGED <<registry, state, jpc, jepoch, jroom, ownerVars, downVars>>
  BY DEF HandleLeave, Serving
<1>2. cmds' \in [Rooms -> Seq(Commands)] /\ Queues'
  BY <1>1, ServingHead
<1>3. Tables'
  BY <1>1, <1>2 DEF Tables
<1>4. Registered' /\ Handed' /\ Epochs' /\ NoResurrection' /\ ShutdownMissesNobody'
  BY <1>1 DEF Registered, Handed, Epochs, NoResurrection, ShutdownMissesNobody
<1>5. EmptyRoomIsWatched'
  <2>1. occupants'[i] = {} => idle'[i]
    BY <1>1 DEF Tables
  <2>2. \A r \in Rooms \ {i} : /\ occupants'[r] = occupants[r] /\ idle'[r] = idle[r]
                              /\ cmds'[r] = cmds[r]
    BY <1>1, TakeEffect DEF Tables
  <2> QED BY <1>1, <2>1, <2>2 DEF EmptyRoomIsWatched
<1> QED BY <1>2, <1>3, <1>4, <1>5

\* A room stops serving, or its teardown goes on: less is left to be watched.
LEMMA RoomFalls ==
  ASSUME ManagerInv, NEW i \in Rooms, NEW next,
         state' = [state EXCEPT ![i] = next],
         \/ state[i] = "active" /\ next = "draining"
         \/ state[i] = "draining" /\ next = "released",
         cmds' \in [Rooms -> Seq(Commands)],
         occupants' \in [Rooms -> SUBSET (Joiners \cup {None})],
         idle' \in [Rooms -> BOOLEAN],
         \A r \in Rooms \ {i} : /\ cmds'[r] = cmds[r] /\ occupants'[r] = occupants[r]
                               /\ idle'[r] = idle[r],
         UNCHANGED <<registry, joinVars, ownerVars, downVars>>
  PROVE  ManagerInv'
<1> USE DEF ManagerInv, registry, joinVars, ownerVars, downVars
<1>1. /\ \A r \in Rooms \ {i} : state'[r] = state[r]
      /\ state'[i] \in {"draining", "released"} /\ state[i] \in {"active", "draining"}
  BY DEF Tables
<1>2. Tables'
  BY DEF Tables, States
<1>3. Registered' /\ Handed'
  BY <1>1 DEF Registered, Handed
<1>4. Queues'
  BY <1>1 DEF Queues
<1>5. \A r \in Rooms : state'[r] = "active" => r # i /\ state[r] = "active"
  BY <1>1
<1>6. Epochs'
  BY <1>5 DEF Epochs
<1>7. NoResurrection' /\ ShutdownMissesNobody'
  BY <1>5 DEF NoResurrection, ShutdownMissesNobody
<1>8. EmptyRoomIsWatched'
  BY <1>5 DEF EmptyRoomIsWatched
<1> QED BY <1>2, <1>3, <1>4, <1>6, <1>7, <1>8

\* The teardown of a room, however it began, and an idle timer that finds members.
LEMMA TeardownInv ==
  ASSUME ManagerInv, NEW i \in Rooms, HandleClose(i) \/ IdleRelease(i) \/ Abandon(i) \/ Release(i)
  PROVE  ManagerInv'
<1> USE DEF ManagerInv
<1>1. CASE HandleClose(i)
  <2>1. /\ state[i] = "active" /\ cmds[i] # <<>> /\ state' = [state EXCEPT ![i] = "draining"]
        /\ Take(i) /\ UNCHANGED <<registry, occupants, idle, joinVars, ownerVars, downVars>>
    BY <1>1 DEF HandleClose, Serving
  <2>2. cmds' \in [Rooms -> Seq(Commands)] /\ \A r \in Rooms \ {i} : cmds'[r] = cmds[r]
    BY <2>1, TakeEffect DEF Tables
  <2> QED BY <2>1, <2>2, RoomFalls DEF Tables
<1>2. CASE IdleRelease(i) /\ occupants[i] = {}
  <2>1. /\ state[i] = "active" /\ state' = [state EXCEPT ![i] = "draining"]
        /\ idle' = [idle EXCEPT ![i] = FALSE]
        /\ UNCHANGED <<registry, cmds, occupants, joinVars, ownerVars, downVars>>
    BY <1>2 DEF IdleRelease
  <2>2. idle' \in [Rooms -> BOOLEAN] /\ \A r \in Rooms \ {i} : idle'[r] = idle[r]
    BY <2>1 DEF Tables
  <2> QED BY <2>1, <2>2, RoomFalls DEF Tables
<1>3. CASE IdleRelease(i) /\ occupants[i] # {}
  <2>1. /\ idle' = [idle EXCEPT ![i] = FALSE]
        /\ UNCHANGED <<registry, state, cmds, occupants, joinVars, ownerVars, downVars>>
    BY <1>3 DEF IdleRelease
  <2>2. idle' \in [Rooms -> BOOLEAN] /\ \A r \in Rooms \ {i} : idle'[r] = idle[r]
    BY <2>1 DEF Tables
  <2>3. Tables' /\ Registered' /\ Handed' /\ Queues'
    BY <2>1, <2>2 DEF registry, joinVars, ownerVars, downVars, Tables, Registered, Handed, Queues
  <2>4. Epochs' /\ NoResurrection' /\ ShutdownMissesNobody'
    BY <2>1 DEF registry, joinVars, ownerVars, downVars, Epochs, NoResurrection, ShutdownMissesNobody
  <2>5. EmptyRoomIsWatched'
    BY <1>3, <2>1, <2>2 DEF joinVars, EmptyRoomIsWatched
  <2> QED BY <2>3, <2>4, <2>5
<1>4. CASE Abandon(i)
  BY <1>4, RoomFalls DEF Abandon, Tables
<1>5. CASE Release(i)
  <2>1. /\ state[i] = "draining" /\ state' = [state EXCEPT ![i] = "released"]
        /\ occupants' = [occupants EXCEPT ![i] = {}]
        /\ UNCHANGED <<registry, cmds, idle, joinVars, ownerVars, downVars>>
    BY <1>5 DEF Release
  <2>2. /\ occupants' \in [Rooms -> SUBSET (Joiners \cup {None})]
        /\ \A r \in Rooms \ {i} : occupants'[r] = occupants[r]
    BY <2>1 DEF Tables
  <2> QED BY <2>1, <2>2, RoomFalls DEF Tables
<1> QED BY <1>1, <1>2, <1>3, <1>4, <1>5

\* The registry forgets a room whose teardown has finished.
LEMMA RemoveInv ==
  ASSUME ManagerInv, NEW i \in Rooms, Remove(i)
  PROVE  ManagerInv'
<1> USE DEF ManagerInv, joinVars, ownerVars, downVars
<1>1. /\ state[i] = "released" /\ reg = i /\ reg' = None /\ state' = [state EXCEPT ![i] = "closed"]
      /\ UNCHANGED <<epoch, tomb, timers, closed, flight, cmds, occupants, idle, joinVars, ownerVars,
                     downVars>>
  BY DEF Remove, Registered
<1>2. /\ \A r \in Rooms \ {i} : state'[r] = state[r] /\ state[r] \notin {"active", "draining", "released"}
      /\ state'[i] = "closed"
  BY <1>1 DEF Tables, Registered
<1>3. Tables'
  BY <1>1 DEF Tables, States
<1>4. Registered' /\ Handed'
  BY <1>1, <1>2 DEF Registered, Handed
<1>5. Queues'
  BY <1>1, <1>2 DEF Queues
<1>6. Epochs' /\ NoResurrection' /\ ShutdownMissesNobody' /\ EmptyRoomIsWatched'
  BY <1>1, <1>2 DEF Epochs, NoResurrection, ShutdownMissesNobody, EmptyRoomIsWatched
<1> QED BY <1>3, <1>4, <1>5, <1>6

-----------------------------------------------------------------------------
(* By an owner delete and by shutdown                                      *)

\* A delivery makes every captured epoch stale and targets the only room there is.
LEMMA DeliverInv ==
  ASSUME ManagerInv, Deliver
  PROVE  ManagerInv'
<1> USE DEF ManagerInv, roomVars, joinVars, downVars
<1>1. /\ epoch' = epoch + 1 /\ events' = events + 1 /\ tomb' = events + 1
      /\ timers' = timers \cup {events + 1} /\ target' = reg /\ event' = "handling"
      /\ UNCHANGED <<closed, reg, flight, roomVars, joinVars, downVars>>
  BY DEF Deliver
<1>2. Tables'
  BY <1>1 DEF Tables
<1>3. Registered' /\ Handed' /\ Queues'
  BY <1>1 DEF Registered, Handed, Queues
<1>4. Epochs'
  <2>1. \A j \in Joiners : jepoch'[j] < epoch'
    BY <1>1 DEF Tables, Epochs
  <2>2. \A j \in Joiners : jepoch'[j] <= epoch'
    BY <2>1, <1>2 DEF Tables
  <2>3. \A i \in Rooms : state'[i] = "active" => i = target'
    BY <1>1 DEF Registered
  <2> QED BY <1>1, <2>1, <2>2, <2>3 DEF Epochs
<1>5. NoResurrection' /\ ShutdownMissesNobody' /\ EmptyRoomIsWatched'
  BY <1>1 DEF NoResurrection, ShutdownMissesNobody, EmptyRoomIsWatched
<1> QED BY <1>2, <1>3, <1>4, <1>5

\* A command that is not a join is put on the channel of a serving room.
LEMMA CommandPosted ==
  ASSUME ManagerInv, NEW i \in Rooms, NEW c \in Commands, c.kind # "join",
         state[i] = "active", Post(i, c),
         event' = event \/ (event = "handling" /\ event' = "waiting"),
         UNCHANGED <<registry, state, occupants, idle, joinVars, target, events, downVars>>
  PROVE  ManagerInv'
<1> USE DEF ManagerInv, registry, joinVars, downVars
<1>1. /\ cmds' \in [Rooms -> Seq(Commands)] /\ cmds'[i] # <<>>
      /\ \A r \in Rooms \ {i} : cmds'[r] = cmds[r]
      /\ \A k \in 1..Len(cmds'[i]) :
           (k \in 1..Len(cmds[i]) /\ cmds'[i][k] = cmds[i][k]) \/ cmds'[i][k] = c
  BY PostEffect DEF Tables
<1>2. Tables' /\ Registered' /\ Handed'
  BY <1>1 DEF Tables, Registered, Handed
<1>3. Queues'
  <2>1. ASSUME NEW r \in Rooms, NEW k \in 1..Len(cmds'[r]), cmds'[r][k].kind = "join"
        PROVE  k \in 1..Len(cmds[r]) /\ cmds'[r][k] = cmds[r][k]
    BY <1>1, <2>1
  <2>2. \A r \in Rooms : state[r] \in {"none", "materializing"} => cmds'[r] = <<>>
    BY <1>1 DEF Queues
  <2> QED BY <2>1, <2>2 DEF Queues
<1>4. Epochs' /\ NoResurrection' /\ ShutdownMissesNobody'
  BY DEF Epochs, NoResurrection, ShutdownMissesNobody
<1>5. EmptyRoomIsWatched'
  BY <1>1 DEF EmptyRoomIsWatched
<1> QED BY <1>2, <1>3, <1>4, <1>5

\* A delivery concludes, is requeued or redelivered, and the owner goes on: no room,
\* no Join and no tombstone changes.
LEMMA EventMoves ==
  ASSUME ManagerInv,
         \/ event' = event \/ event' = "pending"
         \/ /\ event \in {"handling", "waiting"} /\ event' = "acked"
            /\ target = None \/ state[target] # "active",
         UNCHANGED <<registry, roomVars, joinVars, target, events, drain>>
  PROVE  ManagerInv'
<1> USE DEF ManagerInv, registry, roomVars, joinVars
<1>1. Tables' /\ Registered' /\ Handed' /\ Queues'
  BY DEF Tables, Registered, Handed, Queues
<1>2. Epochs'
  BY DEF Epochs
<1>3. ShutdownMissesNobody' /\ EmptyRoomIsWatched'
  BY DEF ShutdownMissesNobody, EmptyRoomIsWatched
<1>4. NoResurrection'
  <2>1. CASE event' = event \/ event' = "pending"
    BY <2>1 DEF NoResurrection
  <2>2. CASE /\ event \in {"handling", "waiting"} /\ event' = "acked"
             /\ target = None \/ state[target] # "active"
    <3>1. events \in timers => \A i \in Rooms : state[i] = "active" => i = target
      BY <2>2 DEF Epochs
    <3> QED BY <2>2, <3>1, RoomNumbers DEF NoResurrection
  <2> QED BY <2>1, <2>2
<1> QED BY <1>1, <1>2, <1>3, <1>4

\* The delete event, from the owner's publication to its acknowledgement.
LEMMA DeletionInv ==
  ASSUME ManagerInv,
         \/ OwnerDeletes \/ RowRemoved \/ DeleteStep \/ CloseDeletedTimesOut \/ Redelivered
  PROVE  ManagerInv'
<1>1. CASE Deliver
  BY <1>1, DeliverInv
<1>2. CASE OwnerDeletes \/ RowRemoved \/ CloseDeletedTimesOut \/ Redelivered
  <2>1. /\ event' = event \/ event' = "pending"
        /\ UNCHANGED <<registry, roomVars, joinVars, target, events, drain>>
    BY <1>2 DEF OwnerDeletes, RowRemoved, CloseDeletedTimesOut, Redelivered, downVars
  <2> QED BY <2>1, EventMoves
<1>3. CASE CloseDeletedDone
  <2>1. /\ event = "waiting" /\ event' = "acked" /\ state[target] # "active"
        /\ UNCHANGED <<registry, roomVars, joinVars, target, events, drain>>
    BY <1>3 DEF CloseDeletedDone, downVars
  <2> QED BY <2>1, EventMoves
<1>4. CASE PostCloseDeleted
  <2>1. /\ event = "handling"
        /\ UNCHANGED <<registry, state, flushes, occupants, idle, joinVars, target, events, downVars>>
    BY <1>4 DEF PostCloseDeleted
  <2>2. CASE target = None
    <3>1. event' = "acked" /\ UNCHANGED cmds
      BY <1>4, <2>2 DEF PostCloseDeleted
    <3> QED BY <2>1, <2>2, <3>1, EventMoves DEF roomVars, downVars
  <2>3. CASE target # None /\ state[target] = "active" /\ HasSpace(target)
    <3>1. Post(target, Cmd("closeDeleted", None)) /\ event' = "waiting"
      BY <1>4, <2>3 DEF PostCloseDeleted
    <3>2. target \in Rooms
      BY <2>3 DEF ManagerInv, Tables
    <3>3. Cmd("closeDeleted", None) \in Commands /\ Cmd("closeDeleted", None).kind # "join"
      BY CommandTypes DEF Cmd
    <3> QED BY <2>1, <2>3, <3>1, <3>2, <3>3, CommandPosted
  <2>4. CASE target # None /\ ~(state[target] = "active" /\ HasSpace(target))
    <3>1. /\ event' = (IF state[target] = "active" THEN "pending" ELSE "acked")
          /\ UNCHANGED cmds
      BY <1>4, <2>4 DEF PostCloseDeleted, RefusalIsTransient
    <3> QED BY <2>1, <3>1, EventMoves DEF roomVars, downVars
  <2> QED BY <2>2, <2>3, <2>4
<1> QED BY <1>1, <1>2, <1>3, <1>4 DEF DeleteStep

\* A tombstone expires, and deletions of other documents.
LEMMA EpochInv ==
  ASSUME ManagerInv, (\E g \in timers : Expire(g)) \/ OtherDeleted
  PROVE  ManagerInv'
<1> USE DEF ManagerInv, roomVars, joinVars, downVars
<1>1. ASSUME NEW g \in timers, Expire(g)
      PROVE  ManagerInv'
  <2>1. /\ timers' = timers \ {g} /\ tomb' = IF tomb = g THEN 0 ELSE tomb
        /\ UNCHANGED <<epoch, closed, reg, flight, roomVars, joinVars, event, target, events, downVars>>
    BY <1>1 DEF Expire, ownerVars
  <2>2. Tables' /\ Registered' /\ Handed' /\ Queues'
    BY <2>1 DEF Tables, Registered, Handed, Queues
  <2>3. Epochs'
    BY <2>1 DEF Epochs
  <2>4. NoResurrection' /\ ShutdownMissesNobody' /\ EmptyRoomIsWatched'
    BY <2>1 DEF NoResurrection, ShutdownMissesNobody, EmptyRoomIsWatched
  <2> QED BY <2>2, <2>3, <2>4
<1>2. CASE OtherDeleted
  <2>1. /\ epoch' = epoch + 1
        /\ UNCHANGED <<tomb, timers, closed, reg, flight, roomVars, joinVars, event, target, events,
                       downVars>>
    BY <1>2 DEF OtherDeleted
  <2>2. Tables' /\ Registered' /\ Handed' /\ Queues'
    BY <2>1 DEF Tables, Registered, Handed, Queues
  <2>3. Epochs'
    <3>1. \A j \in Joiners : jepoch[j] < epoch'
      BY <2>1 DEF Tables, Epochs
    <3>2. \A j \in Joiners : jepoch[j] <= epoch'
      BY <3>1, <2>2 DEF Tables
    <3> QED BY <2>1, <3>1, <3>2 DEF Epochs
  <2>4. NoResurrection' /\ ShutdownMissesNobody' /\ EmptyRoomIsWatched'
    BY <2>1 DEF NoResurrection, ShutdownMissesNobody, EmptyRoomIsWatched
  <2> QED BY <2>2, <2>3, <2>4
<1> QED BY <1>1, <1>2

\* Close: the snapshot holds the registered room, and no room is registered later.
LEMMA ShutdownInv ==
  ASSUME ManagerInv, Shutdown
  PROVE  ManagerInv'
<1>1. CASE BeginShutdown
  <2> USE DEF ManagerInv, roomVars, joinVars, ownerVars
  <2>1. /\ closed' = TRUE /\ drain' = {reg} \ {None}
        /\ UNCHANGED <<epoch, tomb, timers, reg, flight, roomVars, joinVars, ownerVars>>
    BY <1>1 DEF BeginShutdown
  <2>2. Tables' /\ Registered' /\ Handed' /\ Queues'
    BY <2>1 DEF Tables, Registered, Handed, Queues
  <2>3. Epochs' /\ NoResurrection' /\ EmptyRoomIsWatched'
    BY <2>1 DEF Epochs, NoResurrection, EmptyRoomIsWatched
  <2>4. ShutdownMissesNobody'
    BY <2>1, RoomNumbers DEF ShutdownMissesNobody, Registered
  <2> QED BY <2>2, <2>3, <2>4
<1>2. CASE FinishShutdown \/ ShutdownTimesOut
  <2>1. UNCHANGED <<event, registry, roomVars, joinVars, target, events, drain>>
    BY <1>2 DEF FinishShutdown, ShutdownTimesOut, ownerVars
  <2> QED BY <2>1, EventMoves
<1>3. ASSUME NEW i \in Rooms, SignalClose(i)
      PROVE  ManagerInv'
  <2>1. /\ state[i] = "active" /\ Post(i, Cmd("close", None))
        /\ UNCHANGED <<event, registry, state, occupants, idle, joinVars, target, events, downVars>>
    BY <1>3 DEF SignalClose, ownerVars
  <2>2. Cmd("close", None) \in Commands /\ Cmd("close", None).kind # "join"
    BY CommandTypes DEF Cmd
  <2> QED BY <2>1, <2>2, CommandPosted
<1> QED BY <1>1, <1>2, <1>3 DEF Shutdown

-----------------------------------------------------------------------------
\* Every step keeps the invariant.
LEMMA ManagerNextInv == ManagerInv /\ [Next]_vars => ManagerInv'
<1> SUFFICES ASSUME ManagerInv, [Next]_vars PROVE ManagerInv'
  OBVIOUS
<1>1. ASSUME NEW j \in Joiners, JoinStep(j) \/ Leave(j)
      PROVE  ManagerInv'
  BY <1>1, JoinMovesInv, AcquireFoundInv, AcquireLeadsInv, JoinPostsInv DEF JoinStep
<1>2. ASSUME NEW i \in Rooms, LoopStep(i) \/ IdleRelease(i) \/ Abandon(i)
      PROVE  ManagerInv'
  BY <1>2, HandleJoinInv, HandleLeaveInv, TeardownInv, RemoveInv DEF LoopStep
<1>3. CASE FlightStep
  BY <1>3, FlightRegistersInv, FlightFailsInv DEF FlightStep
<1>4. CASE UNCHANGED vars
  <2>1. UNCHANGED <<event, registry, roomVars, joinVars, target, events, drain>>
    BY <1>4 DEF vars, ownerVars, downVars
  <2> QED BY <2>1, EventMoves
<1> QED BY <1>1, <1>2, <1>3, <1>4, DeletionInv, EpochInv, ShutdownInv DEF Next

\* The invariant holds in every reachable state.
LEMMA ManagerInvariant == Spec => []ManagerInv
BY ManagerInitInv, ManagerNextInv, PTL DEF Spec

-----------------------------------------------------------------------------
(* The theorems                                                            *)

\* One writer per document: acquire's singleflight, the registration under the lock
\* and remove after teardown never let two rooms of a document load, serve or flush
\* at the same time.
THEOREM OneLiveRoomTheorem == Spec => []OneLiveRoom
<1>1. ManagerInv => OneLiveRoom
  BY RoomNumbers DEF ManagerInv, Registered, OneLiveRoom, Live
<1> QED BY <1>1, ManagerInvariant, PTL

\* After an acknowledged owner delete, and until its tombstone expires, no room of the
\* document serves: CloseDeleted moved the epoch under the lock, so no Join that was
\* under way can register one, and the tombstone refuses the others.
THEOREM NoResurrectionTheorem == Spec => []NoResurrection
<1>1. ManagerInv => NoResurrection
  BY DEF ManagerInv
<1> QED BY <1>1, ManagerInvariant, PTL

\* Close never misses a room: after its snapshot no other room starts to serve.
THEOREM ShutdownTheorem == Spec => []ShutdownMissesNobody
<1>1. ManagerInv => ShutdownMissesNobody
  BY DEF ManagerInv
<1> QED BY <1>1, ManagerInvariant, PTL

\* An empty room that serves has its idle timer, a command or a joiner on the way, so
\* that a Join whose epoch went stale between acquire and the check leaks no room.
THEOREM WatchedTheorem == Spec => []EmptyRoomIsWatched
<1>1. ManagerInv => EmptyRoomIsWatched
  BY DEF ManagerInv
<1> QED BY <1>1, ManagerInvariant, PTL
=============================================================================
