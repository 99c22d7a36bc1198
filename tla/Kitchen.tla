------------------------------- MODULE Kitchen -------------------------------
(***************************************************************************)
(* One kitchen screen and the API it is fed by: the announcements          *)
(* OrdersService makes after its commits, the gateway's room, the socket,  *)
(* and the screen's own calls, whose answers arrive when they arrive       *)
(* (kitchen-client.tsx).  The screen's code runs to completion between     *)
(* two awaits, so every handler and every answer is one step.              *)
(*                                                                         *)
(* An order's history is the sequence of statuses it has been through.     *)
(* What the API says of an order is a place in it: a message or an answer  *)
(* that names place 2 tells the order's second status, 0 that there is no  *)
(* such order yet.  A list holds every order: the page of 100 that GET     *)
(* /orders answers and the screen's cap of 150 rows are left out.          *)
(*                                                                         *)
(* A definition whose name begins with Mutant stands for a plausible bug   *)
(* in the definition below it.  No action uses it.                         *)
(***************************************************************************)
EXTENDS Integers, Sequences

CONSTANTS
  Order,      \* orders the tills may create
  Call,       \* HTTP calls the screen can have in flight at once
  None,       \* null, or no row
  Lifecycle,  \* per status, the statuses the API lets an order go to
  MaxTaps,    \* bound on the moves tapped on the screen
  MaxFaults   \* bound on failed calls, refused sockets and crashes

Status == DOMAIN Lifecycle

ASSUME KitchenAssumption ==
  /\ None \notin Status \cup Order
  /\ {"DRAFT", "PLACED", "COMPLETED"} \subseteq Status
  /\ \A s \in Status : Lifecycle[s] \subseteq Status
  /\ MaxTaps \in Nat /\ MaxFaults \in Nat

VARIABLES
  history,  \* per order, the statuses it has been through
  news,     \* changes that are committed and not announced yet
  link,     \* the screen's socket, as the gateway has it
  wire,     \* announcements on their way to the screen
  loaded,   \* has the screen a list, or still null?
  board,    \* per order, the status its row shows
  calls,    \* the screen's calls
  busy,     \* busyRef
  told,     \* per order, the latest place the screen has heard of
  lost,     \* announcements that did not reach the screen
  astray,   \* orders whose row was last written by a late or failed call
  doubled,  \* orders two moves of which have been out at once
  taps,     \* moves tapped so far
  faults    \* faults so far

server == <<history, news>>
channel == <<link, wire>>
screen == <<loaded, board, busy>>
heard == <<told, astray, doubled>>
bounds == <<taps, faults>>
vars == <<history, news, link, wire, loaded, board, calls, busy, told, lost,
          astray, doubled, taps, faults>>

Row == Status \cup {None}
Message == [order : Order, at : Nat \ {0}]

Idle == [pc |-> "idle"]
ListCall == [pc |-> "list"]
GetCall(o) == [pc |-> "get", order |-> o]

CallState ==
  {Idle, ListCall, [pc |-> "listLost"]} \cup
  [pc : {"get", "getLost"}, order : Order] \cup
  [pc : {"move", "undo"}, order : Order, to : Status, prev : Row] \cup
  [pc : {"moved"}, order : Order, to : Status, prev : Row, at : Nat] \cup
  [pc : {"rows"}, at : [Order -> Nat]] \cup
  [pc : {"row"}, order : Order, at : Nat]

Latest(o) == Len(history[o])
At(o, p) == IF p = 0 THEN None ELSE history[o][p]
Current(o) == At(o, Latest(o))

Maximum(m, n) == IF m < n THEN n ELSE m

\* The statuses the board has a column for.
BoardStatuses == {"PLACED", "COMPLETED"}

\* The column a row stands in.
Column(s) == IF s \in BoardStatuses THEN s ELSE None

Init ==
  /\ history = [o \in Order |-> <<>>]
  /\ news = {}
  /\ link = "down" /\ wire = <<>>
  /\ loaded = FALSE
  /\ board = [o \in Order |-> None]
  /\ \E c \in Call : calls = [d \in Call |-> IF d = c THEN ListCall ELSE Idle]
  /\ busy = None
  /\ told = [o \in Order |-> 0]
  /\ lost = {}
  /\ astray = {} /\ doubled = {}
  /\ taps = 0 /\ faults = 0

-----------------------------------------------------------------------------
(***************************************************************************)
(* The API                                                                 *)
(***************************************************************************)

\* A change is announced before its transaction has committed.
MutantCommit(o, s) ==
  /\ history' \in {history, [history EXCEPT ![o] = Append(@, s)]}
  /\ news' = news \cup {[order |-> o, at |-> Latest(o) + 1]}

\* The order's next status is committed; who committed it announces it next.
Commit(o, s) ==
  /\ history' = [history EXCEPT ![o] = Append(@, s)]
  /\ news' = news \cup {[order |-> o, at |-> Latest(o) + 1]}

\* create(), at a till.  A held order is not announced.
CreateHeld(o) ==
  /\ history[o] = <<>>
  /\ history' = [history EXCEPT ![o] = Append(@, "DRAFT")]
  /\ UNCHANGED <<news, channel, screen, calls, heard, lost, bounds>>

CreatePlaced(o) ==
  /\ history[o] = <<>>
  /\ Commit(o, "PLACED")
  /\ UNCHANGED <<channel, screen, calls, heard, lost, bounds>>

\* updateStatus(), asked for by a till or another screen.
MoveElsewhere(o, s) ==
  /\ history[o] # <<>> /\ s \in Lifecycle[Current(o)]
  /\ Commit(o, s)
  /\ UNCHANGED <<channel, screen, calls, heard, lost, bounds>>

\* emitToTenant(), after the commit.  Whoever is not in the room hears
\* nothing, and two requests may announce in another order than they
\* committed in.
Announce(m) ==
  /\ m \in news
  /\ news' = news \ {m}
  /\ IF link = "joined" THEN wire' = Append(wire, m) /\ UNCHANGED lost
                        ELSE lost' = lost \cup {m} /\ UNCHANGED wire
  /\ UNCHANGED <<history, link, screen, calls, heard, bounds>>

-----------------------------------------------------------------------------
(***************************************************************************)
(* The socket                                                              *)
(***************************************************************************)

OnWire == {wire[i] : i \in 1 .. Len(wire)}

\* The connection is gone, with what was on it.
Severed ==
  /\ link' = "down" /\ wire' = <<>>
  /\ lost' = lost \cup OnWire

\* The connection breaks; socket.io reconnects by itself.
Drop ==
  /\ link \in {"joining", "joined"}
  /\ Severed
  /\ UNCHANGED <<server, screen, calls, heard, bounds>>

\* A refresh replaced the access token: the effect closes the socket and
\* opens another.
NewToken ==
  /\ link # "down"
  /\ Severed
  /\ UNCHANGED <<server, screen, calls, heard, bounds>>

\* The socket is up and asks for nothing.
MutantConnect(c) ==
  /\ link = "down" /\ calls[c] = Idle
  /\ link' = "joining"
  /\ UNCHANGED <<server, wire, screen, calls, heard, lost, bounds>>

\* 'connect' on the screen, which has the list sent for; the gateway has
\* only begun to check the token.
Connect(c) ==
  /\ link = "down" /\ calls[c] = Idle
  /\ link' = "joining"
  /\ calls' = [calls EXCEPT ![c] = ListCall]
  /\ UNCHANGED <<server, wire, screen, heard, lost, bounds>>

\* handleConnection() puts the socket in the room.
Join ==
  /\ link = "joining"
  /\ link' = "joined"
  /\ UNCHANGED <<server, wire, screen, calls, heard, lost, bounds>>

\* handleConnection() disconnects the socket, which is final for socket.io.
Refuse ==
  /\ link = "joining" /\ faults < MaxFaults
  /\ link' = "closed"
  /\ faults' = faults + 1
  /\ UNCHANGED <<server, wire, screen, calls, heard, lost, taps>>

-----------------------------------------------------------------------------
(***************************************************************************)
(* The screen's calls, at the API                                          *)
(***************************************************************************)

Respond(c, r) ==
  /\ calls' = [calls EXCEPT ![c] = r]
  /\ UNCHANGED <<channel, screen, heard, lost, bounds>>

\* GET /orders
ServeList(c) ==
  /\ calls[c] = ListCall
  /\ Respond(c, [pc |-> "rows", at |-> [o \in Order |-> Latest(o)]])
  /\ UNCHANGED server

\* GET /orders/:id
ServeGet(c) ==
  LET r == calls[c] IN
  /\ r.pc = "get"
  /\ Respond(c, [pc |-> "row", order |-> r.order, at |-> Latest(r.order)])
  /\ UNCHANGED server

\* PATCH /orders/:id/status.  The answer waits for the announcement of what
\* was committed; a move to where the order is already commits nothing.
ServeMove(c) ==
  LET r == calls[c]
      Grant(p) == Respond(c, [pc |-> "moved", order |-> r.order, to |-> r.to,
                              prev |-> r.prev, at |-> p])
  IN
  /\ r.pc = "move"
  /\ \/ /\ Current(r.order) = r.to
        /\ Grant(0)
        /\ UNCHANGED server
     \/ /\ r.to \in Lifecycle[Current(r.order)]
        /\ Grant(Latest(r.order) + 1)
        /\ Commit(r.order, r.to)

Undo(r) == [pc |-> "undo", order |-> r.order, to |-> r.to, prev |-> r.prev]

\* A move the lifecycle does not allow is refused.
RefuseMove(c) ==
  LET r == calls[c] IN
  /\ r.pc = "move"
  /\ r.to \notin Lifecycle[Current(r.order)] \cup {Current(r.order)}
  /\ Respond(c, Undo(r))
  /\ UNCHANGED server

\* What a call is once its answer cannot come any more.
Failed(r) ==
  CASE r.pc \in {"list", "rows"}  -> [pc |-> "listLost"]
    [] r.pc \in {"get", "row"}    -> [pc |-> "getLost", order |-> r.order]
    [] r.pc \in {"move", "moved"} -> Undo(r)
    [] OTHER -> r

\* A call fails on its way there, at the API, or on its way back.
FailCall(c) ==
  /\ Failed(calls[c]) # calls[c] /\ faults < MaxFaults
  /\ calls' = [calls EXCEPT ![c] = Failed(@)]
  /\ faults' = faults + 1
  /\ UNCHANGED <<server, channel, screen, heard, lost, taps>>

\* The change a granted move committed is not announced yet.
Unannounced(r) == r.pc = "moved" /\ [order |-> r.order, at |-> r.at] \in news

\* The API's process dies: what it has not answered it never answers, what
\* it has not announced it never announces.
Crash ==
  /\ faults < MaxFaults
  /\ link' = IF link = "closed" THEN link ELSE "down"
  /\ wire' = <<>> /\ news' = {}
  /\ lost' = lost \cup news \cup OnWire
  /\ calls' = [c \in Call |->
       IF calls[c].pc \in {"list", "get", "move"} \/ Unannounced(calls[c])
       THEN Failed(calls[c]) ELSE calls[c]]
  /\ faults' = faults + 1
  /\ UNCHANGED <<history, screen, heard, taps>>

-----------------------------------------------------------------------------
(***************************************************************************)
(* The screen                                                              *)
(***************************************************************************)

\* A row is written from place p of its order: late when the screen has
\* already heard of a later one.
Hear(o, p) ==
  /\ told' = [told EXCEPT ![o] = Maximum(@, p)]
  /\ astray' = IF p < told[o] THEN astray \cup {o} ELSE astray \ {o}
  /\ UNCHANGED doubled

\* 'order.created': fetchAndUpsert.
HearCreated(c) ==
  LET m == Head(wire) IN
  /\ wire # <<>> /\ m.at = 1
  /\ wire' = Tail(wire)
  /\ calls[c] = Idle
  /\ calls' = [calls EXCEPT ![c] = GetCall(m.order)]
  /\ told' = [told EXCEPT ![m.order] = Maximum(@, 1)]
  /\ UNCHANGED <<server, link, screen, lost, astray, doubled, bounds>>

\* 'order.status_changed' of an order with a row: the row is rewritten.
HearChanged ==
  LET m == Head(wire) IN
  /\ wire # <<>> /\ m.at > 1
  /\ loaded /\ board[m.order] # None
  /\ wire' = Tail(wire)
  /\ board' = [board EXCEPT ![m.order] = At(m.order, m.at)]
  /\ Hear(m.order, m.at)
  /\ UNCHANGED <<server, link, loaded, busy, calls, lost, bounds>>

\* An order the screen does not know is fetched when it enters the kitchen
\* for the first time only.
MutantWanted(s) == s = "COMPLETED"

\* Does an order the screen does not know have to be fetched now?
Wanted(s) == s \in BoardStatuses

\* ... of an order without one: fetched when it belongs on the board.
HearUnknown(c) ==
  LET m == Head(wire) IN
  /\ wire # <<>> /\ m.at > 1
  /\ loaded /\ board[m.order] = None /\ Wanted(At(m.order, m.at))
  /\ wire' = Tail(wire)
  /\ calls[c] = Idle
  /\ calls' = [calls EXCEPT ![c] = GetCall(m.order)]
  /\ told' = [told EXCEPT ![m.order] = Maximum(@, m.at)]
  /\ UNCHANGED <<server, link, screen, lost, astray, doubled, bounds>>

\* ... and left alone when it does not, or while there is no list.
HearNothing ==
  LET m == Head(wire) IN
  /\ wire # <<>> /\ m.at > 1
  /\ loaded => board[m.order] = None /\ ~Wanted(At(m.order, m.at))
  /\ wire' = Tail(wire)
  /\ told' = [told EXCEPT ![m.order] = Maximum(@, m.at)]
  /\ UNCHANGED <<server, link, screen, calls, lost, astray, doubled, bounds>>

Answered(c) == calls' = [calls EXCEPT ![c] = Idle]

\* refetchAll(): the list replaces every row, whatever came in meanwhile.
TakeList(c) ==
  LET r == calls[c] IN
  /\ r.pc = "rows"
  /\ Answered(c)
  /\ loaded' = TRUE
  /\ board' = [o \in Order |-> At(o, r.at[o])]
  /\ told' = [o \in Order |-> Maximum(told[o], r.at[o])]
  /\ astray' = {o \in Order : r.at[o] < told[o]}
  /\ UNCHANGED <<server, channel, busy, lost, doubled, bounds>>

\* upsert(), once there is a list.
TakeRow(c) ==
  LET r == calls[c] IN
  /\ r.pc = "row"
  /\ Answered(c)
  /\ IF loaded THEN /\ board' = [board EXCEPT ![r.order] = At(r.order, r.at)]
                    /\ Hear(r.order, r.at)
               ELSE UNCHANGED <<board, heard>>
  /\ UNCHANGED <<server, channel, loaded, busy, lost, bounds>>

\* A list that cannot be loaded is reported, a ticket that cannot be
\* fetched stays off the board.
TakeLoss(c) ==
  LET r == calls[c] IN
  /\ r.pc \in {"listLost", "getLost"}
  /\ Answered(c)
  /\ astray' = IF r.pc = "getLost" THEN astray \cup {r.order} ELSE astray
  /\ UNCHANGED <<server, channel, screen, told, lost, doubled, bounds>>

\* A move of the order is out, refused ones included.
MoveOut(o) == \E c \in Call : calls[c].pc \in {"move", "moved", "undo"}
                                /\ calls[c].order = o

\* advance(): the row moves now, and the call goes out.  busyRef remembers
\* one order only, so a tap on another ticket lets this one be tapped again.
Advance(c, o, s) ==
  /\ calls[c] = Idle /\ taps < MaxTaps
  /\ busy # o
  /\ calls' = [calls EXCEPT ![c] =
       [pc |-> "move", order |-> o, to |-> s, prev |-> board[o]]]
  /\ board' = IF board[o] = None THEN board ELSE [board EXCEPT ![o] = s]
  /\ busy' = o
  /\ taps' = taps + 1
  /\ doubled' = IF MoveOut(o) THEN doubled \cup {o} ELSE doubled
  /\ UNCHANGED <<server, channel, loaded, told, astray, lost, faults>>

\* 'Handed Over' on a ticket.
HandOver(c, o) ==
  /\ loaded /\ board[o] = "PLACED"
  /\ Advance(c, o, "COMPLETED")

Danger == {"CANCELLED", "VOIDED"}

\* A move picked on the order's sheet, which shows the order as it was
\* when it was loaded; the sheet's own buttons rest while a move is out, the
\* dialog for a reason does not.
PickMove(c, o, s) ==
  /\ loaded
  /\ \E p \in 1 .. Latest(o) : At(o, p) # "DRAFT" /\ s \in Lifecycle[At(o, p)]
  /\ busy # None => s \in Danger
  /\ Advance(c, o, s)

\* The move is granted.
Granted(c) ==
  LET r == calls[c] IN
  /\ r.pc = "moved" /\ ~Unannounced(r)
  /\ Answered(c)
  /\ busy' = None
  /\ UNCHANGED <<server, channel, loaded, board, heard, lost, bounds>>

\* A refused move leaves the row where it put it.
MutantRestored(r) == board[r.order]

\* The status the row goes back to.
Restored(r) == r.prev

\* The move is not, or nobody knows: the row goes back to where it was, even
\* if an event has moved it meanwhile.
RollBack(c) ==
  LET r == calls[c] IN
  /\ r.pc = "undo"
  /\ Answered(c)
  /\ IF loaded /\ r.prev # None /\ board[r.order] # None
     THEN /\ board' = [board EXCEPT ![r.order] = Restored(r)]
          /\ astray' = IF r.prev = At(r.order, told[r.order])
                       THEN astray \ {r.order} ELSE astray \cup {r.order}
     ELSE UNCHANGED <<board, astray>>
  /\ busy' = None
  /\ UNCHANGED <<server, channel, loaded, told, lost, doubled, bounds>>

-----------------------------------------------------------------------------
ApiStep ==
  \/ \E o \in Order : CreateHeld(o) \/ CreatePlaced(o)
  \/ \E o \in Order, s \in Status : MoveElsewhere(o, s)
  \/ \E m \in news : Announce(m)

SocketStep ==
  \/ Drop \/ NewToken \/ Join \/ Refuse
  \/ \E c \in Call : Connect(c)

CallStep ==
  \/ \E c \in Call : \/ ServeList(c) \/ ServeGet(c) \/ ServeMove(c)
                     \/ RefuseMove(c) \/ FailCall(c)
  \/ Crash

ScreenStep ==
  \/ HearChanged \/ HearNothing
  \/ \E c \in Call :
       \/ HearCreated(c) \/ HearUnknown(c)
       \/ TakeList(c) \/ TakeRow(c) \/ TakeLoss(c)
       \/ Granted(c) \/ RollBack(c)
       \/ \E o \in Order : HandOver(c, o)
       \/ \E o \in Order, s \in Status : PickMove(c, o, s)

Next == ApiStep \/ SocketStep \/ CallStep \/ ScreenStep

\* What happens by itself: the API goes on with what it has begun, socket.io
\* reconnects, the browser hands over what has arrived.
Fairness ==
  /\ \A o \in Order : WF_vars(\E p \in 1 .. Latest(o) :
                                 Announce([order |-> o, at |-> p]))
  /\ WF_vars(\E c \in Call : Connect(c))
  /\ WF_vars(Join)
  /\ \A c \in Call :
       /\ WF_vars(ServeList(c) \/ ServeGet(c) \/ ServeMove(c) \/ RefuseMove(c))
       /\ WF_vars(TakeList(c) \/ TakeRow(c) \/ TakeLoss(c) \/ Granted(c) \/ RollBack(c))
  /\ WF_vars(HearChanged \/ HearNothing \/ \E c \in Call : HearCreated(c) \/ HearUnknown(c))

Spec == Init /\ [][Next]_vars /\ Fairness

-----------------------------------------------------------------------------
(***************************************************************************)
(* Properties                                                              *)
(***************************************************************************)

\* Every variable has its type (the rows and calls of kitchen-client.tsx),
\* and nothing names a place its order has not reached: what is announced is
\* committed (orders.service.ts emits after the commit).
TypeOK ==
  /\ history \in [Order -> Seq(Status)]
  /\ news \subseteq Message
  /\ link \in {"down", "joining", "joined", "closed"}
  /\ wire \in Seq(Message)
  /\ loaded \in BOOLEAN
  /\ board \in [Order -> Row]
  /\ calls \in [Call -> CallState]
  /\ busy \in Order \cup {None}
  /\ told \in [Order -> Nat] /\ lost \subseteq Message
  /\ astray \subseteq Order /\ doubled \subseteq Order
  /\ \A m \in news \cup OnWire \cup lost : m.at <= Len(history[m.order])
  /\ \A o \in Order : told[o] <= Len(history[o])
  /\ taps \in 0 .. MaxTaps /\ faults \in 0 .. MaxFaults

\* Nothing about the order is on its way any more.
Quiet(o) ==
  /\ \A m \in news \cup OnWire : m.order # o
  /\ \A c \in Call : calls[c] # Idle =>
       calls[c].pc \notin {"list", "rows", "listLost"} /\ calls[c].order # o

\* A ticket in the wrong column is explained: once nothing about its order
\* is on the way, it stands where the order is, unless an announcement later
\* than anything the screen has heard of the order was lost, or the row was
\* last written by a late answer, by a fetch that failed, or by a rollback
\* over something newer (the live board of kitchen-client.tsx and the
\* announcements of orders.service.ts).
WrongTicketsAreExplained ==
  \A o \in Order :
    loaded /\ Quiet(o) /\ o \notin astray
    /\ (\A m \in lost : m.order = o => m.at <= told[o])
      => LET s == IF history[o] = <<>> THEN None ELSE history[o][Len(history[o])]
         IN  \A b \in {"PLACED", "COMPLETED"} : board[o] = b <=> s = b

\* A ticket shows a status its order never had only while a tapped move of
\* that order is out (the optimistic update and its rollback), or after two
\* of its moves have been out at once.
TicketsHaveHappened ==
  \A o \in Order \ doubled :
    board[o] # None /\ (\A i \in 1 .. Len(history[o]) : history[o][i] # board[o])
      => \E c \in Call : calls[c].pc \in {"move", "undo"} /\ calls[c].order = o

\* The board agrees with the orders.
Agrees ==
  /\ loaded
  /\ \A o \in Order :
       LET s == IF history[o] = <<>> THEN None ELSE history[o][Len(history[o])]
       IN  \A b \in {"PLACED", "COMPLETED"} : board[o] = b <=> s = b

\* A screen that keeps reconnecting shows, once the orders have come to
\* rest, the orders as they are, whatever was missed, late, refused or rolled
\* back before: "Reconnect resyncs the whole list" (kitchen-client.tsx).
ReconnectsReconcile == []<>(link = "down") => <>[]Agrees
=============================================================================
