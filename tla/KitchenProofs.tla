---------------------------- MODULE KitchenProofs ----------------------------
(***************************************************************************)
(* Theorems about Kitchen, for every set of orders, every number of calls  *)
(* the screen can have in flight, every lifecycle and every bound.         *)
(***************************************************************************)
EXTENDS Kitchen, SequenceTheorems, TLAPS

\* An answer names no place its order has not reached.
CallsReached ==
  \A c \in Call :
    /\ calls[c].pc = "rows" => \A o \in Order : calls[c].at[o] <= Len(history[o])
    /\ calls[c].pc = "row" => calls[c].at <= Len(history[calls[c].order])

Typed == TypeOK /\ CallsReached

MovePC == {"move", "moved", "undo"}
FetchPC == {"get", "row", "getLost"}

\* What a call carries.
LEMMA CallShapes ==
  ASSUME NEW r \in CallState
  PROVE  /\ r.pc \in MovePC => r.order \in Order /\ r.to \in Status /\ r.prev \in Row
         /\ r.pc = "moved" => r.at \in Nat
         /\ r.pc \in FetchPC => r.order \in Order
         /\ r.pc = "row" => r.at \in Nat
         /\ r.pc = "rows" => r.at \in [Order -> Nat]
         /\ r.pc = "idle" <=> r = Idle
         /\ r.pc = "list" <=> r = ListCall
         /\ r.pc \in {"idle", "list", "listLost", "rows"} \cup MovePC \cup FetchPC
  BY DEF CallState, Idle, ListCall, MovePC, FetchPC

\* The records the screen and the API make of a call.
LEMMA CallsAreMade ==
  /\ Idle \in CallState /\ ListCall \in CallState /\ [pc |-> "listLost"] \in CallState
  /\ \A o \in Order :
       /\ GetCall(o) \in CallState
       /\ [pc |-> "getLost", order |-> o] \in CallState
       /\ \A p \in Nat : [pc |-> "row", order |-> o, at |-> p] \in CallState
       /\ \A s \in Status, v \in Row :
            /\ [pc |-> "move", order |-> o, to |-> s, prev |-> v] \in CallState
            /\ [pc |-> "undo", order |-> o, to |-> s, prev |-> v] \in CallState
            /\ \A p \in Nat : [pc |-> "moved", order |-> o, to |-> s,
                               prev |-> v, at |-> p] \in CallState
  /\ \A f \in [Order -> Nat] : [pc |-> "rows", at |-> f] \in CallState
  BY DEF CallState, Idle, ListCall, GetCall

\* What FailCall and Crash make of a call.
LEMMA FailedShape ==
  ASSUME NEW r \in CallState
  PROVE  /\ Failed(r) \in CallState
         /\ r.pc \in {"list", "rows", "listLost"} => Failed(r) = [pc |-> "listLost"]
         /\ r.pc \in FetchPC => Failed(r) = [pc |-> "getLost", order |-> r.order]
         /\ r.pc \in MovePC => /\ Failed(r).pc = "undo" /\ Failed(r).order = r.order
                               /\ Failed(r).to = r.to /\ Failed(r).prev = r.prev
         /\ r.pc = "idle" => Failed(r) = r
  <1>1. CASE r.pc \in {"list", "rows"}
    <2>1. Failed(r) = [pc |-> "listLost"]
      BY <1>1 DEF Failed
    <2> QED BY <1>1, <2>1, CallsAreMade DEF FetchPC, MovePC
  <1>2. CASE r.pc \in {"get", "row"}
    <2>1. Failed(r) = [pc |-> "getLost", order |-> r.order] /\ r.order \in Order
      BY <1>2, CallShapes DEF Failed, FetchPC
    <2> QED BY <1>2, <2>1, CallsAreMade DEF FetchPC, MovePC
  <1>3. CASE r.pc \in {"move", "moved"}
    <2>1. /\ Failed(r) = [pc |-> "undo", order |-> r.order, to |-> r.to, prev |-> r.prev]
          /\ r.order \in Order /\ r.to \in Status /\ r.prev \in Row
      BY <1>3, CallShapes DEF Failed, Undo, MovePC
    <2>2. Failed(r) \in CallState
      BY <2>1, CallsAreMade
    <2>3. /\ Failed(r).pc = "undo" /\ Failed(r).order = r.order
          /\ Failed(r).to = r.to /\ Failed(r).prev = r.prev
      BY <2>1
    <2> QED BY <1>3, <2>2, <2>3 DEF FetchPC, MovePC
  <1>4. CASE r.pc \in {"idle", "listLost", "getLost", "undo"}
    <2>1. Failed(r) = r
      BY <1>4 DEF Failed
    <2>2. /\ r.pc = "listLost" => r = [pc |-> "listLost"]
          /\ r.pc = "getLost" => r = [pc |-> "getLost", order |-> r.order]
      BY <1>4 DEF CallState, Idle, ListCall
    <2> QED BY <1>4, <2>1, <2>2 DEF FetchPC, MovePC
  <1>5. r.pc \in {"idle", "list", "listLost", "rows", "move", "moved", "undo",
                  "get", "row", "getLost"}
    BY CallShapes DEF FetchPC, MovePC
  <1> QED BY <1>1, <1>2, <1>3, <1>4, <1>5

\* A call that is not answered yet, or whose change nobody will announce.
Doomed(r) == r.pc \in {"list", "get", "move"} \/ Unannounced(r)

\* What is on the wire when a message is taken off it or put on it.
LEMMA WireSteps ==
  ASSUME NEW w \in Seq(Message)
  PROVE  /\ w # <<>> => /\ Head(w) \in Message /\ Tail(w) \in Seq(Message)
                        /\ Head(w) \in {w[i] : i \in 1 .. Len(w)}
                        /\ {w[i] : i \in 1 .. Len(w)}
                             = {Head(w)} \cup {Tail(w)[i] : i \in 1 .. Len(Tail(w))}
         /\ \A m \in Message :
              /\ Append(w, m) \in Seq(Message)
              /\ {Append(w, m)[i] : i \in 1 .. Len(Append(w, m))}
                   = {w[i] : i \in 1 .. Len(w)} \cup {m}
         /\ {w[i] : i \in 1 .. Len(w)} \subseteq Message
  <1> DEFINE Of(s) == {s[i] : i \in 1 .. Len(s)}
  <1>1. Len(w) \in Nat /\ DOMAIN w = 1 .. Len(w) /\ \A i \in 1 .. Len(w) : w[i] \in Message
    BY LenProperties, ElementOfSeq
  <1>2. ASSUME w # <<>>
        PROVE  /\ Head(w) \in Message /\ Tail(w) \in Seq(Message) /\ Head(w) = w[1]
               /\ Of(w) = {Head(w)} \cup Of(Tail(w)) /\ 1 \in 1 .. Len(w)
    <2>1. /\ Len(w) > 0 /\ Head(w) = w[1] /\ Tail(w) \in Seq(Message)
          /\ Len(Tail(w)) = Len(w) - 1
          /\ \A i \in 1 .. Len(Tail(w)) : Tail(w)[i] = w[i + 1]
      BY <1>1, <1>2, EmptySeq, HeadTailProperties
    <2>2. \A i \in 1 .. Len(w) : w[i] \in {Head(w)} \cup Of(Tail(w))
      <3>1. TAKE i \in 1 .. Len(w)
      <3>2. CASE i = 1
        BY <2>1, <3>2
      <3>3. CASE i # 1
        <4>1. i - 1 \in 1 .. Len(Tail(w)) /\ Tail(w)[i - 1] = w[i]
          BY <1>1, <2>1, <3>3
        <4> QED BY <4>1
      <3> QED BY <3>2, <3>3
    <2>3. \A i \in 1 .. Len(Tail(w)) : i + 1 \in 1 .. Len(w) /\ Tail(w)[i] = w[i + 1]
      BY <1>1, <2>1
    <2>4. 1 \in 1 .. Len(w) /\ Head(w) \in Message
      BY <1>1, <2>1
    <2>5. Of(w) \subseteq {Head(w)} \cup Of(Tail(w))
      BY <2>2
    <2>6. {Head(w)} \cup Of(Tail(w)) \subseteq Of(w)
      BY <2>1, <2>3, <2>4
    <2> QED BY <2>1, <2>4, <2>5, <2>6
  <1>3. ASSUME NEW m \in Message
        PROVE  Append(w, m) \in Seq(Message) /\ Of(Append(w, m)) = Of(w) \cup {m}
    <2>1. /\ Append(w, m) \in Seq(Message) /\ Len(Append(w, m)) = Len(w) + 1
          /\ \A i \in 1 .. Len(w) : Append(w, m)[i] = w[i]
          /\ Append(w, m)[Len(w) + 1] = m
      BY <1>1, AppendProperties
    <2>2. /\ \A i \in 1 .. Len(w) + 1 : Append(w, m)[i] \in Of(w) \cup {m}
          /\ \A i \in 1 .. Len(w) : w[i] = Append(w, m)[i] /\ i \in 1 .. Len(w) + 1
          /\ Len(w) + 1 \in 1 .. Len(w) + 1
      BY <1>1, <2>1
    <2> QED BY <2>1, <2>2
  <1> QED BY <1>1, <1>2, <1>3
\* What an order has been through stays, and only grows at the end.
Grows ==
  /\ history' \in [Order -> Seq(Status)]
  /\ \A q \in Order :
       /\ Len(history[q]) \in Nat /\ Len(history'[q]) \in Nat
       /\ Len(history[q]) <= Len(history'[q])
       /\ \A i \in 1 .. Len(history[q]) : history'[q][i] = history[q][i]

\* One order goes on to one more status.
LEMMA OneMoreStatus ==
  ASSUME history \in [Order -> Seq(Status)], NEW o \in Order, NEW s \in Status,
         history' = [history EXCEPT ![o] = Append(@, s)]
  PROVE  /\ Grows
         /\ Len(history'[o]) = Len(history[o]) + 1
         /\ history'[o][Len(history[o]) + 1] = s
         /\ \A q \in Order \ {o} : history'[q] = history[q]
  <1>1. \A q \in Order : history[q] \in Seq(Status) /\ Len(history[q]) \in Nat
    BY LenProperties
  <1>2. /\ history'[o] = Append(history[o], s)
        /\ \A q \in Order \ {o} : history'[q] = history[q]
    OBVIOUS
  <1>3. /\ Append(history[o], s) \in Seq(Status)
        /\ Len(Append(history[o], s)) = Len(history[o]) + 1
        /\ \A i \in 1 .. Len(history[o]) : Append(history[o], s)[i] = history[o][i]
        /\ Append(history[o], s)[Len(history[o]) + 1] = s
    BY <1>1, AppendProperties
  <1>4. history' \in [Order -> Seq(Status)]
    BY <1>1, <1>3
  <1>5. \A q \in Order :
          /\ Len(history'[q]) \in Nat /\ Len(history[q]) <= Len(history'[q])
          /\ \A i \in 1 .. Len(history[q]) : history'[q][i] = history[q][i]
    <2>1. TAKE q \in Order
    <2>2. CASE q = o
      BY <1>1, <1>2, <1>3, <2>2
    <2>3. CASE q # o
      BY <1>1, <1>2, <2>3
    <2> QED BY <2>2, <2>3
  <1> QED BY <1>1, <1>2, <1>3, <1>4, <1>5 DEF Grows

\* ... or none does.
LEMMA NoMoreStatus ==
  ASSUME history \in [Order -> Seq(Status)], UNCHANGED history
  PROVE  Grows
  <1>1. \A q \in Order : history[q] \in Seq(Status) /\ Len(history[q]) \in Nat
    BY LenProperties
  <1> QED BY <1>1 DEF Grows

\* The statuses of the code that the actions name.
LEMMA Statuses ==
  /\ {"DRAFT", "PLACED", "COMPLETED"} \subseteq Status
  /\ \A q \in Status : Lifecycle[q] \subseteq Status
  /\ None \notin Status /\ None \notin Order
  BY KitchenAssumption

\* The status of a place.
LEMMA Places ==
  ASSUME history \in [Order -> Seq(Status)], NEW o \in Order, NEW p \in Nat,
         p <= Len(history[o])
  PROVE  At(o, p) \in Row /\ (p # 0 => At(o, p) \in Status /\ At(o, p) = history[o][p])
  <1>1. history[o] \in Seq(Status) /\ Len(history[o]) \in Nat
    BY LenProperties
  <1>2. p # 0 => history[o][p] \in Status
    BY <1>1, ElementOfSeq
  <1> QED BY <1>2 DEF At, Row

\* Calls that name no place but those their order has reached still do.
CallReached(r, past) ==
  /\ r.pc = "rows" => \A o \in Order : r.at[o] <= Len(past[o])
  /\ r.pc = "row" => r.at <= Len(past[r.order])

\* One call is made, answered or taken.
LEMMA OneCall ==
  ASSUME Typed, Grows, NEW c \in Call, NEW r \in CallState,
         calls' = [calls EXCEPT ![c] = r], CallReached(r, history')
  PROVE  calls' \in [Call -> CallState] /\ CallsReached'
  <1>1. calls' \in [Call -> CallState]
    BY DEF Typed, TypeOK
  <1>2. ASSUME NEW d \in Call
        PROVE  /\ calls'[d].pc = "rows" => \A o \in Order : calls'[d].at[o] <= Len(history'[o])
               /\ calls'[d].pc = "row" => calls'[d].at <= Len(history'[calls'[d].order])
    <2>1. CASE d = c
      BY <2>1 DEF CallReached, Typed, TypeOK
    <2>2. CASE d # c
      <3>1. calls'[d] = calls[d] /\ calls[d] \in CallState
        BY <2>2 DEF Typed, TypeOK
      <3>2. /\ calls[d].pc = "rows" => calls[d].at \in [Order -> Nat]
            /\ calls[d].pc = "row" => calls[d].order \in Order /\ calls[d].at \in Nat
        BY <3>1, CallShapes DEF FetchPC
      <3>3. calls[d].pc = "rows" => \A o \in Order : calls[d].at[o] <= Len(history'[o])
        BY <3>2 DEF Typed, CallsReached, Grows
      <3>4. calls[d].pc = "row" => calls[d].at <= Len(history'[calls[d].order])
        BY <3>2 DEF Typed, CallsReached, Grows
      <3> QED BY <3>1, <3>3, <3>4
    <2> QED BY <2>1, <2>2
  <1> QED BY <1>1, <1>2 DEF CallsReached

\* A step that touches no call leaves the calls well formed, because histories only grow.
LEMMA NoCall ==
  ASSUME Typed, Grows, UNCHANGED calls
  PROVE  calls' \in [Call -> CallState] /\ CallsReached'
  <1>1. ASSUME NEW d \in Call
        PROVE  /\ calls[d].pc = "rows" => \A o \in Order : calls[d].at[o] <= Len(history'[o])
               /\ calls[d].pc = "row" => calls[d].at <= Len(history'[calls[d].order])
    <2>1. calls[d] \in CallState
      BY DEF Typed, TypeOK
    <2>2. /\ calls[d].pc = "rows" => calls[d].at \in [Order -> Nat]
          /\ calls[d].pc = "row" => calls[d].order \in Order /\ calls[d].at \in Nat
      BY <2>1, CallShapes DEF FetchPC
    <2> QED BY <2>2 DEF Typed, CallsReached, Grows
  <1> QED BY <1>1 DEF Typed, TypeOK, CallsReached

\* Messages that were committed are still committed.
Committed(ms) == \A m \in ms : m.at <= Len(history[m.order])

\* A change that was committed stays committed.
LEMMA StillCommitted ==
  ASSUME Grows, NEW ms \in SUBSET Message, Committed(ms)
  PROVE  Committed(ms)'
  BY DEF Grows, Committed, Message
\* The messages of a state are messages about changes that were committed.
MessagesOK ==
  /\ news \subseteq Message /\ lost \subseteq Message /\ wire \in Seq(Message)
  /\ Committed(news \cup OnWire \cup lost)

\* The rest of the state.
ScreenOK ==
  /\ link \in {"down", "joining", "joined", "closed"}
  /\ loaded \in BOOLEAN
  /\ board \in [Order -> Row]
  /\ busy \in Order \cup {None}
  /\ told \in [Order -> Nat]
  /\ \A o \in Order : told[o] <= Len(history[o])
  /\ astray \subseteq Order /\ doubled \subseteq Order
  /\ taps \in 0 .. MaxTaps /\ faults \in 0 .. MaxFaults

\* Well-formedness, part by part.
LEMMA TypedParts ==
  Typed <=> /\ history \in [Order -> Seq(Status)]
            /\ calls \in [Call -> CallState]
            /\ CallsReached
            /\ MessagesOK
            /\ ScreenOK
  BY DEF Typed, TypeOK, MessagesOK, Committed, ScreenOK

\* ... and so after a step.
LEMMA TypedPartsNext ==
  ASSUME history' \in [Order -> Seq(Status)], calls' \in [Call -> CallState], CallsReached',
         MessagesOK', ScreenOK'
  PROVE  Typed'
  BY DEF Typed, TypeOK, MessagesOK, Committed, ScreenOK

\* No message is made of nothing.
LEMMA NoNewMessage ==
  ASSUME Typed, Grows, wire' \in Seq(Message), news' \subseteq Message, lost' \subseteq Message,
         (news \cup OnWire \cup lost)' \subseteq news \cup OnWire \cup lost
  PROVE  MessagesOK'
  <1>1. MessagesOK
    BY TypedParts
  <1>2. news \cup OnWire \cup lost \in SUBSET Message
    BY <1>1, WireSteps DEF MessagesOK, OnWire
  <1>3. Committed(news \cup OnWire \cup lost)'
    <2> DEFINE ms == news \cup OnWire \cup lost
               all == (news \cup OnWire \cup lost)'
    <2>1. \A x \in ms : x.at <= Len(history'[x.order])
      BY <1>1, <1>2 DEF Grows, Committed, Message, MessagesOK
    <2>2. \A x \in all : x.at <= Len(history'[x.order])
      BY <2>1
    <2> QED BY <2>2 DEF Committed
  <1> QED BY <1>3 DEF MessagesOK

\* The message of a change is committed with it.
LEMMA CommitMakesNews ==
  ASSUME Typed, NEW o \in Order, NEW s \in Status, Commit(o, s), UNCHANGED <<wire, lost>>
  PROVE  /\ Grows /\ MessagesOK'
         /\ Len(history'[o]) = Len(history[o]) + 1
         /\ history'[o][Len(history[o]) + 1] = s
         /\ \A q \in Order \ {o} : history'[q] = history[q]
  <1>1. history \in [Order -> Seq(Status)] /\ MessagesOK
    BY TypedParts
  <1>2. /\ Grows
        /\ Len(history'[o]) = Len(history[o]) + 1
        /\ history'[o][Len(history[o]) + 1] = s
        /\ \A q \in Order \ {o} : history'[q] = history[q]
    BY <1>1, OneMoreStatus DEF Commit
  <1> DEFINE m == [order |-> o, at |-> Len(history[o]) + 1]
  <1>3. m \in Message /\ news' = news \cup {m} /\ Len(history[o]) \in Nat
    BY <1>2 DEF Commit, Latest, Message, Grows
  <1>4. news \cup OnWire \cup lost \in SUBSET Message
    BY <1>1, WireSteps DEF MessagesOK, OnWire
  <1>5. \A x \in news \cup OnWire \cup lost : x.at <= Len(history'[x.order])
    BY <1>1, <1>2, <1>4 DEF Grows, Committed, Message, MessagesOK
  <1>6. m.at <= Len(history'[m.order])
    BY <1>2, <1>3
  <1>7. (news \cup OnWire \cup lost)' = news \cup OnWire \cup lost \cup {m}
    BY <1>3 DEF OnWire
  <1>8. \A x \in (news \cup OnWire \cup lost)' : x.at <= Len(history'[x.order])
    BY <1>5, <1>6, <1>7
  <1>9. Committed(news \cup OnWire \cup lost)'
    BY <1>8 DEF Committed
  <1> QED BY <1>1, <1>2, <1>3, <1>9 DEF MessagesOK

\* A board that has just been opened is well formed.
LEMMA TypedInit == Init => Typed
  <1> SUFFICES ASSUME Init PROVE Typed
    OBVIOUS
  <1>1. history \in [Order -> Seq(Status)] /\ \A o \in Order : Len(history[o]) = 0
    BY DEF Init
  <1>2. PICK c \in Call : calls = [d \in Call |-> IF d = c THEN ListCall ELSE Idle]
    BY DEF Init
  <1>3. calls \in [Call -> CallState]
    BY <1>2, CallsAreMade
  <1>4. CallsReached
    BY <1>2 DEF CallsReached, ListCall, Idle
  <1>5. wire = <<>> /\ OnWire = {} /\ news = {} /\ lost = {}
    BY DEF Init, OnWire
  <1>6. MessagesOK
    BY <1>5 DEF MessagesOK, Committed
  <1>7. ScreenOK
    <2>1. board \in [Order -> Row] /\ told \in [Order -> Nat]
      BY DEF Init, Row
    <2>2. \A o \in Order : told[o] <= Len(history[o])
      <3>1. TAKE o \in Order
      <3>2. told[o] = 0 /\ Len(history[o]) = 0
        BY <1>1 DEF Init
      <3> QED BY <3>2
    <2>3. taps \in 0 .. MaxTaps /\ faults \in 0 .. MaxFaults
      BY KitchenAssumption DEF Init
    <2> QED BY <2>1, <2>2, <2>3 DEF Init, ScreenOK
  <1> QED BY <1>1, <1>3, <1>4, <1>6, <1>7, TypedParts
\* What the screen has heard of stays behind its order.
LEMMA ToldBehind ==
  ASSUME ScreenOK, Grows
  PROVE  \A o \in Order : told[o] \in Nat /\ told[o] <= Len(history'[o])
  BY DEF ScreenOK, Grows

\* A place that is heard of, within what the order has been through.
LEMMA HeardPlace ==
  ASSUME ScreenOK, Grows, NEW o \in Order, NEW p \in Nat, p <= Len(history'[o])
  PROVE  /\ Maximum(told[o], p) \in Nat /\ Maximum(told[o], p) <= Len(history'[o])
         /\ told[o] <= Maximum(told[o], p) /\ p <= Maximum(told[o], p)
         /\ p < told[o] => Maximum(told[o], p) = told[o]
         /\ ~(p < told[o]) => Maximum(told[o], p) = p
         /\ Maximum(told[o], p) \in {told[o], p}
  BY ToldBehind DEF Maximum, Grows

\* ... by one order.
LEMMA HeardOne ==
  ASSUME ScreenOK, Grows, NEW o \in Order, NEW p \in Nat, p <= Len(history'[o]),
         told' = [told EXCEPT ![o] = Maximum(@, p)]
  PROVE  told' \in [Order -> Nat] /\ \A q \in Order : told'[q] <= Len(history'[q])
  <1>1. told'[o] = Maximum(told[o], p) /\ \A q \in Order \ {o} : told'[q] = told[q]
    BY DEF ScreenOK
  <1>2. told' \in [Order -> Nat]
    BY HeardPlace DEF ScreenOK
  <1>3. ASSUME NEW q \in Order PROVE told'[q] <= Len(history'[q])
    <2>1. CASE q = o
      BY <1>1, <2>1, HeardPlace
    <2>2. CASE q # o
      BY <1>1, <2>2, ToldBehind
    <2> QED BY <2>1, <2>2
  <1> QED BY <1>2, <1>3

\* The message that comes off the wire.
LEMMA NextMessage ==
  ASSUME Typed, wire # <<>>
  PROVE  /\ Head(wire) \in Message /\ Head(wire) \in OnWire
         /\ Head(wire).order \in Order /\ Head(wire).at \in Nat \ {0}
         /\ Head(wire).at <= Len(history[Head(wire).order])
         /\ Tail(wire) \in Seq(Message)
  <1>1. MessagesOK
    BY TypedParts
  <1>2. Head(wire) \in Message /\ Head(wire) \in OnWire /\ Tail(wire) \in Seq(Message)
    BY <1>1, WireSteps DEF MessagesOK, OnWire
  <1>3. Head(wire).at <= Len(history[Head(wire).order])
    BY <1>1, <1>2 DEF MessagesOK, Committed
  <1> QED BY <1>2, <1>3 DEF Message

\* Taking it off makes no message.
LEMMA MessageTaken ==
  ASSUME Typed, Grows, wire # <<>>, wire' = Tail(wire), UNCHANGED <<news, lost>>
  PROVE  MessagesOK' /\ OnWire = OnWire' \cup {Head(wire)}
  <1>1. MessagesOK
    BY TypedParts
  <1>2. OnWire = {Head(wire)} \cup OnWire' /\ Tail(wire) \in Seq(Message)
    <2>1. wire \in Seq(Message)
      BY <1>1 DEF MessagesOK
    <2>2. /\ {wire[i] : i \in 1 .. Len(wire)}
              = {Head(wire)} \cup {Tail(wire)[i] : i \in 1 .. Len(Tail(wire))}
          /\ Tail(wire) \in Seq(Message)
      BY <2>1, WireSteps
    <2>3. OnWire' = {Tail(wire)[i] : i \in 1 .. Len(Tail(wire))}
      BY DEF OnWire
    <2> QED BY <2>2, <2>3 DEF OnWire
  <1> QED BY <1>1, <1>2, NoNewMessage DEF MessagesOK

\* A step that announces, delivers and loses nothing keeps the messages well formed.
LEMMA MessagesKept ==
  ASSUME Typed, Grows, UNCHANGED <<news, wire, lost>>
  PROVE  MessagesOK'
  <1>1. (news \cup OnWire \cup lost)' = news \cup OnWire \cup lost
    BY DEF OnWire
  <1> QED BY <1>1, NoNewMessage, TypedParts DEF MessagesOK

\* What is on the wire and what is announced may get lost.
LEMMA MessagesLost ==
  ASSUME Typed, Grows, wire' = <<>>, news' \in {news, {}},
         lost' \in {lost \cup OnWire, lost \cup news \cup OnWire}
  PROVE  MessagesOK'
  <1>1. MessagesOK /\ OnWire \subseteq Message
    BY TypedParts, WireSteps DEF MessagesOK, OnWire
  <1>2. OnWire' = {} /\ wire' \in Seq(Message)
    BY DEF OnWire
  <1>3. (news \cup OnWire \cup lost)' \subseteq news \cup OnWire \cup lost
    BY <1>2
  <1>4. news' \subseteq Message /\ lost' \subseteq Message
    BY <1>1 DEF MessagesOK
  <1> QED BY <1>2, <1>3, <1>4, NoNewMessage

\* The API's own steps.
LEMMA TypedApi ==
  ASSUME Typed, ApiStep
  PROVE  Typed'
  <1>1. /\ history \in [Order -> Seq(Status)] /\ calls \in [Call -> CallState]
        /\ CallsReached /\ MessagesOK /\ ScreenOK
    BY TypedParts
  <1>2. ASSUME Grows, MessagesOK', UNCHANGED <<link, screen, calls, heard, bounds>>
        PROVE  Typed'
    <2>1. calls' \in [Call -> CallState] /\ CallsReached'
      BY <1>2, NoCall
    <2>2. ScreenOK'
      BY <1>1, <1>2, ToldBehind DEF ScreenOK, screen, heard, bounds
    <2>3. history' \in [Order -> Seq(Status)]
      BY <1>2 DEF Grows
    <2> QED BY <1>2, <2>1, <2>2, <2>3, TypedPartsNext
  <1>3. ASSUME NEW o \in Order, CreateHeld(o) PROVE Typed'
    <2>1. Grows
      BY <1>1, <1>3, Statuses, OneMoreStatus DEF CreateHeld
    <2>2. MessagesOK'
      BY <1>3, <2>1, MessagesKept DEF CreateHeld, channel
    <2> QED BY <1>2, <1>3, <2>1, <2>2 DEF CreateHeld, channel
  <1>4. ASSUME NEW o \in Order, CreatePlaced(o) PROVE Typed'
    <2>1. "PLACED" \in Status /\ Commit(o, "PLACED") /\ UNCHANGED <<wire, lost>>
      BY <1>4, Statuses DEF CreatePlaced, channel
    <2>2. Grows /\ MessagesOK'
      BY <2>1, CommitMakesNews
    <2> QED BY <1>2, <1>4, <2>2 DEF CreatePlaced, channel
  <1>5. ASSUME NEW o \in Order, NEW s \in Status, MoveElsewhere(o, s) PROVE Typed'
    <2>1. Commit(o, s) /\ UNCHANGED <<wire, lost>>
      BY <1>5 DEF MoveElsewhere, channel
    <2>2. Grows /\ MessagesOK'
      BY <2>1, CommitMakesNews
    <2> QED BY <1>2, <1>5, <2>2 DEF MoveElsewhere, channel
  <1>6. ASSUME NEW m \in news, Announce(m) PROVE Typed'
    <2>1. Grows
      BY <1>1, <1>6, NoMoreStatus DEF Announce
    <2>2. m \in Message
      BY <1>1 DEF MessagesOK
    <2>3. CASE link = "joined"
      <3>1. wire' = Append(wire, m) /\ news' = news \ {m} /\ lost' = lost
        BY <1>6, <2>3 DEF Announce
      <3>2. wire' \in Seq(Message) /\ OnWire' = OnWire \cup {m}
        BY <1>1, <2>2, <3>1, WireSteps DEF MessagesOK, OnWire
      <3>3. (news \cup OnWire \cup lost)' \subseteq news \cup OnWire \cup lost
        BY <3>1, <3>2
      <3> QED BY <1>1, <1>2, <1>6, <2>1, <3>1, <3>2, <3>3, NoNewMessage DEF Announce, MessagesOK
    <2>4. CASE link # "joined"
      <3>1. wire' = wire /\ news' = news \ {m} /\ lost' = lost \cup {m} /\ OnWire' = OnWire
        BY <1>6, <2>4 DEF Announce, OnWire
      <3>2. (news \cup OnWire \cup lost)' \subseteq news \cup OnWire \cup lost
        BY <3>1
      <3> QED BY <1>1, <1>2, <1>6, <2>1, <2>2, <3>1, <3>2, NoNewMessage DEF Announce, MessagesOK
    <2> QED BY <2>3, <2>4
  <1> QED BY <1>3, <1>4, <1>5, <1>6 DEF ApiStep

\* The socket's steps.
LEMMA TypedSocket ==
  ASSUME Typed, SocketStep
  PROVE  Typed'
  <1>1. /\ history \in [Order -> Seq(Status)] /\ calls \in [Call -> CallState]
        /\ CallsReached /\ MessagesOK /\ ScreenOK
    BY TypedParts
  <1>2. Grows
    BY <1>1, NoMoreStatus DEF SocketStep, Drop, NewToken, Join, Refuse, Connect, server
  <1>3. history' \in [Order -> Seq(Status)]
    BY <1>2 DEF Grows
  <1>4. ASSUME Drop \/ NewToken PROVE Typed'
    <2>1. /\ wire' = <<>> /\ news' = news /\ lost' = lost \cup OnWire /\ link' = "down"
          /\ UNCHANGED <<screen, calls, heard, bounds>>
      BY <1>4 DEF Drop, NewToken, Severed, server
    <2>2. MessagesOK'
      BY <1>2, <2>1, MessagesLost
    <2>3. calls' \in [Call -> CallState] /\ CallsReached'
      BY <1>2, <2>1, NoCall
    <2>4. ScreenOK'
      BY <1>1, <1>2, <2>1, ToldBehind DEF ScreenOK, screen, heard, bounds
    <2> QED BY <1>3, <2>2, <2>3, <2>4, TypedPartsNext
  <1>5. ASSUME Join \/ Refuse PROVE Typed'
    <2>1. /\ UNCHANGED <<news, wire, lost, screen, calls, heard, taps>>
          /\ link' \in {"joined", "closed"}
          /\ faults' \in {faults, faults + 1} /\ (faults' = faults \/ faults < MaxFaults)
      BY <1>5 DEF Join, Refuse, server, bounds
    <2>2. MessagesOK'
      BY <1>2, <2>1, MessagesKept
    <2>3. calls' \in [Call -> CallState] /\ CallsReached'
      BY <1>2, <2>1, NoCall
    <2>4. faults' \in 0 .. MaxFaults
      BY <1>1, <2>1, KitchenAssumption DEF ScreenOK
    <2>5. ScreenOK'
      BY <1>1, <1>2, <2>1, <2>4, ToldBehind DEF ScreenOK, screen, heard
    <2> QED BY <1>3, <2>2, <2>3, <2>5, TypedPartsNext
  <1>6. ASSUME NEW c \in Call, Connect(c) PROVE Typed'
    <2>1. /\ UNCHANGED <<news, wire, lost, screen, heard, bounds>>
          /\ link' = "joining" /\ calls' = [calls EXCEPT ![c] = ListCall]
      BY <1>6 DEF Connect, server
    <2>2. MessagesOK'
      BY <1>2, <2>1, MessagesKept
    <2>3. CallReached(ListCall, history')
      BY DEF CallReached, ListCall
    <2>4. calls' \in [Call -> CallState] /\ CallsReached'
      BY <1>2, <2>1, <2>3, CallsAreMade, OneCall
    <2>5. ScreenOK'
      BY <1>1, <1>2, <2>1, ToldBehind DEF ScreenOK, screen, heard, bounds
    <2> QED BY <1>3, <2>2, <2>4, <2>5, TypedPartsNext
  <1> QED BY <1>4, <1>5, <1>6 DEF SocketStep
\* The API answers a call, or the call fails.
LEMMA TypedCall ==
  ASSUME Typed, CallStep
  PROVE  Typed'
  <1>1. /\ history \in [Order -> Seq(Status)] /\ calls \in [Call -> CallState]
        /\ CallsReached /\ MessagesOK /\ ScreenOK
    BY TypedParts
  <1>2. ASSUME Grows, MessagesOK', calls' \in [Call -> CallState], CallsReached',
               link' \in {link, "down"}, UNCHANGED <<screen, heard, taps>>,
               faults' = faults \/ (faults < MaxFaults /\ faults' = faults + 1)
        PROVE  Typed'
    <2>1. faults' \in 0 .. MaxFaults
      BY <1>1, <1>2, KitchenAssumption DEF ScreenOK
    <2>2. ScreenOK'
      BY <1>1, <1>2, <2>1, ToldBehind DEF ScreenOK, screen, heard
    <2>3. history' \in [Order -> Seq(Status)]
      BY <1>2 DEF Grows
    <2> QED BY <1>2, <2>2, <2>3, TypedPartsNext
  <1>3. ASSUME NEW c \in Call, NEW r \in CallState, Grows, MessagesOK', CallReached(r, history'), Respond(c, r)
        PROVE  Typed'
    <2>1. /\ calls' = [calls EXCEPT ![c] = r]
          /\ UNCHANGED <<link, screen, heard, taps, faults>>
      BY <1>3 DEF Respond, channel, bounds
    <2>2. calls' \in [Call -> CallState] /\ CallsReached'
      BY <1>3, <2>1, OneCall
    <2> QED BY <1>2, <1>3, <2>1, <2>2
  <1>4. ASSUME UNCHANGED <<server, wire, lost>> PROVE Grows /\ MessagesOK'
    <2>1. Grows
      BY <1>1, <1>4, NoMoreStatus DEF server
    <2> QED BY <1>4, <2>1, MessagesKept DEF server
  <1>5. ASSUME NEW c \in Call, ServeList(c) PROVE Typed'
    <2> DEFINE r == [pc |-> "rows", at |-> [o \in Order |-> Latest(o)]]
    <2>1. Respond(c, r) /\ UNCHANGED <<server, wire, lost>>
      BY <1>5 DEF ServeList, Respond, channel
    <2>2. \A o \in Order : Latest(o) \in Nat
      BY <1>1, LenProperties DEF Latest
    <2>3. r \in CallState
      BY <2>2, CallsAreMade
    <2>4. CallReached(r, history')
      <3>1. history' = history
        BY <2>1 DEF server
      <3>2. \A o \in Order : r.at[o] <= Len(history'[o])
        BY <2>2, <3>1 DEF Latest
      <3> QED BY <3>2 DEF CallReached
    <2> HIDE DEF r
    <2> QED BY <1>3, <1>4, <2>1, <2>3, <2>4
  <1>6. ASSUME NEW c \in Call, ServeGet(c) PROVE Typed'
    <2> DEFINE o == calls[c].order
               r == [pc |-> "row", order |-> o, at |-> Latest(o)]
    <2>1. Respond(c, r) /\ UNCHANGED <<server, wire, lost>> /\ calls[c].pc = "get"
      BY <1>6 DEF ServeGet, Respond, channel
    <2>2. o \in Order /\ Latest(o) \in Nat
      BY <1>1, <2>1, CallShapes, LenProperties DEF Latest, FetchPC
    <2>3. r \in CallState
      BY <2>2, CallsAreMade
    <2>4. CallReached(r, history')
      <3>1. history' = history
        BY <2>1 DEF server
      <3>2. r.at <= Len(history'[r.order])
        BY <2>2, <3>1 DEF Latest
      <3> QED BY <3>2 DEF CallReached
    <2> HIDE DEF r
    <2> QED BY <1>3, <1>4, <2>1, <2>3, <2>4
  <1>7. ASSUME NEW c \in Call, ServeMove(c) PROVE Typed'
    <2> DEFINE o == calls[c].order
               g(x) == [pc |-> "moved", order |-> o, to |-> calls[c].to,
                        prev |-> calls[c].prev, at |-> x]
    <2>1. calls[c].pc = "move" /\ o \in Order /\ calls[c].to \in Status /\ calls[c].prev \in Row
      BY <1>1, <1>7, CallShapes DEF ServeMove, MovePC
    <2>2. Latest(o) \in Nat
      BY <1>1, <2>1, LenProperties DEF Latest
    <2>3. \/ Respond(c, g(0)) /\ UNCHANGED server
          \/ Respond(c, g(Latest(o) + 1)) /\ Commit(o, calls[c].to)
      BY <1>7 DEF ServeMove
    <2>4. PICK x \in {0, Latest(o) + 1} :
            Respond(c, g(x)) /\ (UNCHANGED server \/ Commit(o, calls[c].to))
      BY <2>3
    <2>5. UNCHANGED <<wire, lost>>
      BY <2>4 DEF Respond, channel
    <2>6. Grows /\ MessagesOK'
      BY <1>4, <2>1, <2>4, <2>5, CommitMakesNews
    <2>7. g(x) \in CallState
      <3>1. x \in Nat
        BY <2>2, <2>4
      <3> QED BY <2>1, <3>1, CallsAreMade
    <2>8. CallReached(g(x), history')
      BY DEF CallReached
    <2> HIDE DEF g
    <2> QED BY <1>3, <2>4, <2>6, <2>7, <2>8
  <1>8. ASSUME NEW c \in Call, RefuseMove(c) PROVE Typed'
    <2> DEFINE r == Undo(calls[c])
    <2>1. /\ calls[c].order \in Order /\ calls[c].to \in Status /\ calls[c].prev \in Row
          /\ Respond(c, r) /\ UNCHANGED server
      BY <1>1, <1>8, CallShapes DEF RefuseMove, MovePC
    <2>2. UNCHANGED <<wire, lost>>
      BY <2>1 DEF Respond, channel
    <2>3. r \in CallState
      BY <2>1, CallsAreMade DEF Undo
    <2>4. CallReached(r, history')
      BY DEF CallReached, Undo
    <2> HIDE DEF r
    <2> QED BY <1>3, <1>4, <2>1, <2>2, <2>3, <2>4
  <1>9. ASSUME NEW d \in Call PROVE /\ Failed(calls[d]) \in CallState
                                    /\ Failed(calls[d]).pc \notin {"rows", "row"}
    <2>1. calls[d] \in CallState
      BY <1>1
    <2> QED BY <2>1, FailedShape, CallShapes DEF MovePC, FetchPC
  <1>10. ASSUME NEW c \in Call, FailCall(c) PROVE Typed'
    <2> DEFINE r == Failed(calls[c])
    <2>1. /\ calls' = [calls EXCEPT ![c] = r]
          /\ UNCHANGED <<server, link, wire, lost, screen, heard, taps>>
          /\ faults < MaxFaults /\ faults' = faults + 1
      BY <1>10 DEF FailCall, channel
    <2>2. Grows /\ MessagesOK'
      BY <1>4, <2>1
    <2>3. r \in CallState /\ CallReached(r, history')
      <3>1. Failed(calls[c]).pc \notin {"rows", "row"} /\ Failed(calls[c]) \in CallState
        BY <1>9
      <3> QED BY <3>1 DEF CallReached
    <2>4. calls' \in [Call -> CallState] /\ CallsReached'
      BY <2>1, <2>2, <2>3, OneCall
    <2> QED BY <1>2, <2>1, <2>2, <2>4
  <1>11. ASSUME Crash PROVE Typed'
    <2>1. /\ wire' = <<>> /\ news' = {} /\ lost' = lost \cup news \cup OnWire
          /\ link' \in {link, "down"} /\ history' = history
          /\ UNCHANGED <<screen, heard, taps>>
          /\ faults < MaxFaults /\ faults' = faults + 1
          /\ calls' = [c \in Call |-> IF Doomed(calls[c]) THEN Failed(calls[c]) ELSE calls[c]]
      BY <1>11 DEF Crash, Doomed
    <2>2. Grows
      BY <1>1, <2>1, NoMoreStatus
    <2>3. MessagesOK'
      BY <2>1, <2>2, MessagesLost
    <2>4. calls' \in [Call -> CallState]
      BY <1>1, <1>9, <2>1
    <2>5. CallsReached'
      <3>1. ASSUME NEW d \in Call
            PROVE  /\ calls'[d].pc = "rows" => \A o \in Order : calls'[d].at[o] <= Len(history[o])
                   /\ calls'[d].pc = "row" => calls'[d].at <= Len(history[calls'[d].order])
        <4>1. calls'[d] \in {Failed(calls[d]), calls[d]}
          BY <2>1
        <4>2. CASE calls'[d] = Failed(calls[d])
          BY <1>9, <4>2
        <4>3. CASE calls'[d] = calls[d]
          BY <1>1, <4>3 DEF CallsReached
        <4> QED BY <4>1, <4>2, <4>3
      <3> QED BY <2>1, <3>1 DEF CallsReached
    <2> QED BY <1>2, <2>1, <2>2, <2>3, <2>4, <2>5
  <1> QED BY <1>5, <1>6, <1>7, <1>8, <1>10, <1>11 DEF CallStep
\* The screen hears a message, takes an answer, or is tapped.
LEMMA TypedScreen ==
  ASSUME Typed, ScreenStep
  PROVE  Typed'
  <1>1. /\ history \in [Order -> Seq(Status)] /\ calls \in [Call -> CallState]
        /\ CallsReached /\ MessagesOK /\ ScreenOK
    BY TypedParts
  <1>2. ASSUME UNCHANGED history PROVE Grows /\ history' \in [Order -> Seq(Status)]
    BY <1>1, <1>2, NoMoreStatus
  <1> DEFINE m == Head(wire)
  <1>3. ASSUME wire # <<>>, wire' = Tail(wire), UNCHANGED <<server, lost>>,
               calls' \in [Call -> CallState], CallsReached',
               told' = [told EXCEPT ![m.order] = Maximum(@, m.at)],
               board' \in [Order -> Row], astray' \subseteq Order,
               UNCHANGED <<link, loaded, busy, doubled, bounds>>
        PROVE  Typed'
    <2>1. Grows /\ history' = history /\ history' \in [Order -> Seq(Status)]
      BY <1>2, <1>3 DEF server
    <2>2. MessagesOK'
      BY <1>3, <2>1, MessageTaken DEF server
    <2>3. m.order \in Order /\ m.at \in Nat /\ m.at <= Len(history'[m.order])
      BY <1>3, <2>1, NextMessage
    <2>4. told' \in [Order -> Nat] /\ \A q \in Order : told'[q] <= Len(history'[q])
      BY <1>1, <1>3, <2>1, <2>3, HeardOne
    <2>5. ScreenOK'
      BY <1>1, <1>3, <2>4 DEF ScreenOK, bounds
    <2> QED BY <1>3, <2>1, <2>2, <2>5, TypedPartsNext
  <1>4. ASSUME NEW c \in Call, wire # <<>>, calls' = [calls EXCEPT ![c] = GetCall(m.order)],
               UNCHANGED history
        PROVE  calls' \in [Call -> CallState] /\ CallsReached'
    <2>1. m.order \in Order
      BY <1>4, NextMessage
    <2>2. GetCall(m.order) \in CallState /\ CallReached(GetCall(m.order), history')
      BY <2>1, CallsAreMade DEF CallReached, GetCall
    <2> QED BY <1>2, <1>4, <2>2, OneCall
  <1>5. ASSUME NEW c \in Call, HearCreated(c) PROVE Typed'
    <2>1. /\ wire # <<>> /\ wire' = Tail(wire) /\ m.at = 1
          /\ calls' = [calls EXCEPT ![c] = GetCall(m.order)]
          /\ told' = [told EXCEPT ![m.order] = Maximum(@, m.at)]
          /\ UNCHANGED <<server, link, loaded, board, busy, lost, astray, doubled, bounds>>
      BY <1>5 DEF HearCreated, screen
    <2>2. calls' \in [Call -> CallState] /\ CallsReached'
      BY <1>4, <2>1 DEF server
    <2> QED BY <1>1, <1>3, <2>1, <2>2 DEF ScreenOK
  <1>6. ASSUME NEW c \in Call, HearUnknown(c) PROVE Typed'
    <2>1. /\ wire # <<>> /\ wire' = Tail(wire)
          /\ calls' = [calls EXCEPT ![c] = GetCall(m.order)]
          /\ told' = [told EXCEPT ![m.order] = Maximum(@, m.at)]
          /\ UNCHANGED <<server, link, loaded, board, busy, lost, astray, doubled, bounds>>
      BY <1>6 DEF HearUnknown, screen
    <2>2. calls' \in [Call -> CallState] /\ CallsReached'
      BY <1>4, <2>1 DEF server
    <2> QED BY <1>1, <1>3, <2>1, <2>2 DEF ScreenOK
  <1>7. ASSUME HearNothing PROVE Typed'
    <2>1. /\ wire # <<>> /\ wire' = Tail(wire) /\ calls' = calls
          /\ told' = [told EXCEPT ![m.order] = Maximum(@, m.at)]
          /\ UNCHANGED <<server, link, loaded, board, busy, lost, astray, doubled, bounds>>
      BY <1>7 DEF HearNothing, screen
    <2>2. calls' \in [Call -> CallState] /\ CallsReached'
      BY <1>2, <2>1, NoCall DEF server
    <2> QED BY <1>1, <1>3, <2>1, <2>2 DEF ScreenOK
  <1>8. ASSUME HearChanged PROVE Typed'
    <2>1. /\ wire # <<>> /\ wire' = Tail(wire) /\ calls' = calls
          /\ told' = [told EXCEPT ![m.order] = Maximum(@, m.at)]
          /\ board' = [board EXCEPT ![m.order] = At(m.order, m.at)]
          /\ astray' \in {astray \cup {m.order}, astray \ {m.order}}
          /\ UNCHANGED <<server, link, loaded, busy, lost, doubled, bounds>>
      BY <1>8 DEF HearChanged, Hear
    <2>2. calls' \in [Call -> CallState] /\ CallsReached'
      BY <1>2, <2>1, NoCall DEF server
    <2>3. m.order \in Order /\ At(m.order, m.at) \in Row
      BY <1>1, <2>1, NextMessage, Places
    <2>4. board' \in [Order -> Row] /\ astray' \subseteq Order
      BY <1>1, <2>1, <2>3 DEF ScreenOK
    <2> QED BY <1>3, <2>1, <2>2, <2>4
  <1>9. ASSUME UNCHANGED <<history, news, wire, lost, link>>,
               calls' \in [Call -> CallState], CallsReached',
               loaded' \in BOOLEAN, board' \in [Order -> Row],
               busy' \in Order \cup {None},
               told' \in [Order -> Nat], \A q \in Order : told'[q] <= Len(history[q]),
               astray' \subseteq Order, doubled' \subseteq Order,
               taps' \in 0 .. MaxTaps, UNCHANGED faults
        PROVE  Typed'
    <2>1. Grows /\ history' \in [Order -> Seq(Status)]
      BY <1>2, <1>9
    <2>2. MessagesOK'
      BY <1>9, <2>1, MessagesKept
    <2>3. ScreenOK'
      BY <1>1, <1>9 DEF ScreenOK
    <2> QED BY <1>9, <2>1, <2>2, <2>3, TypedPartsNext
  <1>10. ASSUME NEW c \in Call, Answered(c), UNCHANGED history
         PROVE  calls' \in [Call -> CallState] /\ CallsReached'
    <2>1. CallReached(Idle, history')
      BY DEF CallReached, Idle
    <2> QED BY <1>2, <1>10, <2>1, CallsAreMade, OneCall DEF Answered
  <1>11. ASSUME NEW c \in Call, TakeList(c) PROVE Typed'
    <2> DEFINE at == calls[c].at
    <2>1. /\ calls[c].pc = "rows" /\ Answered(c) /\ loaded' = TRUE
          /\ board' = [o \in Order |-> At(o, at[o])]
          /\ told' = [o \in Order |-> Maximum(told[o], at[o])]
          /\ astray' = {o \in Order : at[o] < told[o]}
          /\ UNCHANGED <<history, news, wire, lost, link, busy, doubled, taps, faults>>
      BY <1>11 DEF TakeList, server, channel, bounds
    <2>2. \A o \in Order : at[o] \in Nat /\ at[o] <= Len(history[o])
      BY <1>1, <2>1, CallShapes DEF CallsReached
    <2>3. board' \in [Order -> Row]
      BY <1>1, <2>1, <2>2, Places
    <2>4. Grows
      BY <1>2, <2>1
    <2>5. told' \in [Order -> Nat] /\ \A q \in Order : told'[q] <= Len(history[q])
      BY <1>1, <2>1, <2>2, <2>4, HeardPlace
    <2>6. calls' \in [Call -> CallState] /\ CallsReached'
      BY <1>10, <2>1
    <2> QED BY <1>1, <1>9, <2>1, <2>3, <2>5, <2>6 DEF ScreenOK
  <1>12. ASSUME NEW c \in Call, TakeRow(c) PROVE Typed'
    <2> DEFINE o == calls[c].order
               p == calls[c].at
    <2>1. /\ calls[c].pc = "row" /\ Answered(c)
          /\ UNCHANGED <<history, news, wire, lost, link, loaded, busy, doubled, taps, faults>>
          /\ \/ /\ board' = [board EXCEPT ![o] = At(o, p)]
                /\ told' = [told EXCEPT ![o] = Maximum(@, p)]
                /\ astray' \in {astray \cup {o}, astray \ {o}}
             \/ UNCHANGED <<board, told, astray>>
      BY <1>12 DEF TakeRow, Hear, heard, server, channel, bounds
    <2>2. calls' \in [Call -> CallState] /\ CallsReached'
      BY <1>10, <2>1
    <2>3. o \in Order /\ p \in Nat /\ p <= Len(history[o]) /\ At(o, p) \in Row
      BY <1>1, <2>1, CallShapes, Places DEF CallsReached, FetchPC
    <2>4. Grows
      BY <1>2, <2>1
    <2>5. told' \in [Order -> Nat] /\ \A q \in Order : told'[q] <= Len(history[q])
      <3>1. CASE told' = [told EXCEPT ![o] = Maximum(@, p)]
        BY <1>1, <2>1, <2>3, <2>4, <3>1, HeardOne
      <3>2. CASE told' = told
        BY <1>1, <2>1, <3>2 DEF ScreenOK
      <3> QED BY <2>1, <3>1, <3>2
    <2>6. board' \in [Order -> Row] /\ astray' \subseteq Order
      BY <1>1, <2>1, <2>3 DEF ScreenOK
    <2> QED BY <1>1, <1>9, <2>1, <2>2, <2>5, <2>6 DEF ScreenOK
  <1>13. ASSUME NEW c \in Call, TakeLoss(c) PROVE Typed'
    <2>1. /\ calls[c].pc \in {"listLost", "getLost"} /\ Answered(c)
          /\ astray' = IF calls[c].pc = "getLost" THEN astray \cup {calls[c].order} ELSE astray
          /\ UNCHANGED <<history, news, wire, lost, link, loaded, board, busy, told, doubled, taps, faults>>
      BY <1>13 DEF TakeLoss, screen, server, channel, bounds
    <2>2. calls' \in [Call -> CallState] /\ CallsReached'
      BY <1>10, <2>1
    <2>3. calls[c].pc = "getLost" => calls[c].order \in Order
      BY <1>1, CallShapes DEF FetchPC
    <2> QED BY <1>1, <1>9, <2>1, <2>2, <2>3 DEF ScreenOK
  <1>14. ASSUME NEW c \in Call, Granted(c) PROVE Typed'
    <2>1. /\ Answered(c) /\ busy' = None
          /\ UNCHANGED <<history, news, wire, lost, link, loaded, board, told, astray, doubled, taps, faults>>
      BY <1>14 DEF Granted, heard, server, channel, bounds
    <2>2. calls' \in [Call -> CallState] /\ CallsReached'
      BY <1>10, <2>1
    <2> QED BY <1>1, <1>9, <2>1, <2>2 DEF ScreenOK
  <1>15. ASSUME NEW c \in Call, RollBack(c) PROVE Typed'
    <2> DEFINE o == calls[c].order
    <2>1. /\ calls[c].pc = "undo" /\ Answered(c) /\ busy' = None
          /\ UNCHANGED <<history, news, wire, lost, link, loaded, told, doubled, taps, faults>>
          /\ \/ /\ board' = [board EXCEPT ![o] = calls[c].prev]
                /\ astray' \in {astray \cup {o}, astray \ {o}}
             \/ UNCHANGED <<board, astray>>
      BY <1>15 DEF RollBack, Restored, server, channel, bounds
    <2>2. calls' \in [Call -> CallState] /\ CallsReached'
      BY <1>10, <2>1
    <2>3. o \in Order /\ calls[c].prev \in Row
      BY <1>1, <2>1, CallShapes DEF MovePC
    <2>4. board' \in [Order -> Row] /\ astray' \subseteq Order
      BY <1>1, <2>1, <2>3 DEF ScreenOK
    <2> QED BY <1>1, <1>9, <2>1, <2>2, <2>4 DEF ScreenOK
  <1>16. ASSUME NEW c \in Call, NEW o \in Order, NEW x \in Status, Advance(c, o, x) PROVE Typed'
    <2> DEFINE r == [pc |-> "move", order |-> o, to |-> x, prev |-> board[o]]
    <2>1. /\ calls' = [calls EXCEPT ![c] = r]
          /\ board' = IF board[o] = None THEN board ELSE [board EXCEPT ![o] = x]
          /\ busy' = o
          /\ taps < MaxTaps /\ taps' = taps + 1
          /\ doubled' \in {doubled \cup {o}, doubled}
          /\ UNCHANGED <<history, news, wire, lost, link, loaded, told, astray, faults>>
      BY <1>16 DEF Advance, server, channel
    <2>2. r \in CallState /\ CallReached(r, history')
      BY <1>1, CallsAreMade DEF ScreenOK, CallReached
    <2>3. calls' \in [Call -> CallState] /\ CallsReached'
      BY <1>2, <2>1, <2>2, OneCall
    <2>4. taps' \in 0 .. MaxTaps
      BY <1>1, <2>1, KitchenAssumption DEF ScreenOK
    <2>5. board' \in [Order -> Row]
      BY <1>1, <2>1 DEF ScreenOK, Row
    <2> HIDE DEF r
    <2> QED BY <1>1, <1>9, <2>1, <2>3, <2>4, <2>5 DEF ScreenOK
  <1>17. ASSUME NEW c \in Call, NEW o \in Order, HandOver(c, o) PROVE Typed'
    BY <1>16, <1>17, Statuses DEF HandOver
  <1>18. ASSUME NEW c \in Call, NEW o \in Order, NEW x \in Status, PickMove(c, o, x) PROVE Typed'
    BY <1>16, <1>18 DEF PickMove
  <1> QED BY <1>5, <1>6, <1>7, <1>8, <1>11, <1>12, <1>13, <1>14, <1>15, <1>17, <1>18 DEF ScreenStep

\* Every step of the API, the socket, a call and the screen keeps the state well formed.
LEMMA TypedStep ==
  ASSUME Typed, [Next]_vars
  PROVE  Typed'
  <1>1. CASE Next
    BY <1>1, TypedApi, TypedSocket, TypedCall, TypedScreen DEF Next
  <1>2. CASE UNCHANGED vars
    BY <1>2 DEF vars, Typed, TypeOK, CallsReached, OnWire
  <1> QED BY <1>1, <1>2

\* Every variable of the kitchen screen and of the API it is fed by has its
\* type, and nothing is announced, heard or lost that was not committed
\* (orders.service.ts, realtime.gateway.ts, kitchen-client.tsx).
THEOREM Typing == Spec => []TypeOK
  <1>1. Typed => TypeOK
    BY DEF Typed
  <1> QED BY <1>1, TypedInit, TypedStep, PTL DEF Spec
-----------------------------------------------------------------------------
(* Tickets have happened.                                                  *)

\* No row, or a status the order has been through.
Reached(past, s) == s = None \/ \E i \in 1 .. Len(past) : past[i] = s

Out(r, o) == r.pc \in MovePC /\ r.order = o

\* The row shows what a tapped move that is out will make of it.
Showing(r, o) ==
  /\ r.pc \in {"move", "undo"} /\ r.order = o /\ r.prev # None /\ board[o] = r.to

Happened ==
  /\ ~loaded => \A o \in Order : board[o] = None
  /\ \A o \in Order \ doubled :
       /\ \A c, d \in Call : Out(calls[c], o) /\ Out(calls[d], o) => c = d
       /\ \A c \in Call : Out(calls[c], o) => Reached(history[o], calls[c].prev)
       /\ Reached(history[o], board[o]) \/ \E c \in Call : Showing(calls[c], o)

\* A status an order has had is a status it has had for ever.
LEMMA StillReached ==
  ASSUME Grows, NEW o \in Order, NEW s, Reached(history[o], s)
  PROVE  Reached(history'[o], s)
  BY DEF Grows, Reached

\* The status at any place of a history is one the order has had.
LEMMA PlacesAreReached ==
  ASSUME history \in [Order -> Seq(Status)], NEW o \in Order, NEW p \in Nat,
         p <= Len(history[o])
  PROVE  Reached(history[o], At(o, p))
  <1>1. Len(history[o]) \in Nat
    BY LenProperties
  <1> QED BY <1>1 DEF Reached, At

\* The move that is out is still the same move; another call is still none.
SameMove(r, now) ==
  \/ r.pc \notin MovePC /\ now.pc \notin MovePC
  \/ /\ r.pc \in MovePC /\ now.pc \in MovePC
     /\ now.order = r.order /\ now.to = r.to /\ now.prev = r.prev
     /\ r.pc \in {"move", "undo"} => now.pc \in {"move", "undo"}

\* A step that neither begins nor ends a move, and writes rows only with
\* what their orders have been through, keeps Happened.
LEMMA HappenedKept ==
  ASSUME Happened, Grows, doubled' = doubled,
         \A c \in Call : SameMove(calls[c], calls'[c]),
         loaded' = TRUE \/ (loaded' = loaded /\ board' = board),
         \A o \in Order : board'[o] = board[o] \/ Reached(history'[o], board'[o])
  PROVE  Happened'
  <1>1. ~loaded' => \A o \in Order : board'[o] = None
    BY DEF Happened
  <1>2. ASSUME NEW o \in Order \ doubled'
        PROVE  /\ \A c, d \in Call : Out(calls'[c], o) /\ Out(calls'[d], o) => c = d
               /\ \A c \in Call : Out(calls'[c], o) => Reached(history'[o], calls'[c].prev)
               /\ Reached(history'[o], board'[o]) \/ \E c \in Call : Showing(calls[c], o)'
    <2>1. o \in Order \ doubled
      BY <1>2
    <2>2. \A c \in Call : Out(calls'[c], o) => Out(calls[c], o) /\ calls'[c].prev = calls[c].prev
      BY DEF SameMove, Out
    <2>3. \A c, d \in Call : Out(calls'[c], o) /\ Out(calls'[d], o) => c = d
      BY <2>1, <2>2 DEF Happened
    <2>4. \A c \in Call : Out(calls'[c], o) => Reached(history'[o], calls'[c].prev)
      BY <2>1, <2>2, StillReached DEF Happened
    <2>5. CASE board'[o] = board[o]
      <3>1. ASSUME Reached(history[o], board[o]) PROVE Reached(history'[o], board'[o])
        BY <2>1, <2>5, <3>1, StillReached
      <3>2. ASSUME NEW c \in Call, Showing(calls[c], o) PROVE Showing(calls[c], o)'
        BY <2>5, <3>2 DEF Showing, SameMove, MovePC
      <3>3. Reached(history[o], board[o]) \/ \E c \in Call : Showing(calls[c], o)
        BY <2>1 DEF Happened
      <3>4. Reached(history'[o], board'[o]) \/ \E c \in Call : Showing(calls[c], o)'
        BY <3>1, <3>2, <3>3
      <3> QED BY <2>3, <2>4, <3>4
    <2>6. CASE board'[o] # board[o]
      <3>1. Reached(history'[o], board'[o])
        BY <2>1, <2>6
      <3> QED BY <2>3, <2>4, <3>1
    <2> QED BY <2>5, <2>6
  <1> QED BY <1>1, <1>2 DEF Happened

\* Only the call a step names is another one.
LEMMA OtherMoves ==
  ASSUME Typed, NEW c \in Call, NEW r, calls' = [calls EXCEPT ![c] = r]
  PROVE  /\ calls'[c] = r /\ \A d \in Call \ {c} : calls'[d] = calls[d]
         /\ \A d \in Call \ {c} : SameMove(calls[d], calls'[d])
         /\ SameMove(calls[c], r) => \A d \in Call : SameMove(calls[d], calls'[d])
  <1>1. calls'[c] = r /\ \A d \in Call \ {c} : calls'[d] = calls[d]
    BY DEF Typed, TypeOK
  <1>2. \A d \in Call \ {c} : SameMove(calls[d], calls'[d])
    BY <1>1 DEF SameMove
  <1> QED BY <1>1, <1>2

\* With no call changed, no move changed.
LEMMA SameMoves ==
  ASSUME UNCHANGED calls
  PROVE  \A c \in Call : SameMove(calls[c], calls'[c])
  BY DEF SameMove

\* What the API commits or announces shows no ticket that has not happened.
LEMMA HappenedApi ==
  ASSUME Typed, Happened, ApiStep \/ SocketStep
  PROVE  Happened'
  <1>1. history \in [Order -> Seq(Status)] /\ {"DRAFT", "PLACED"} \subseteq Status
    BY TypedParts, Statuses
  <1>2. Grows
    <2>1. CASE \E o \in Order : CreateHeld(o)
      BY <1>1, <2>1, OneMoreStatus DEF CreateHeld
    <2>2. CASE \E o \in Order : CreatePlaced(o)
      BY <1>1, <2>2, OneMoreStatus DEF CreatePlaced, Commit
    <2>3. CASE \E o \in Order, s \in Status : MoveElsewhere(o, s)
      BY <1>1, <2>3, OneMoreStatus DEF MoveElsewhere, Commit
    <2>4. CASE (\E m \in news : Announce(m)) \/ SocketStep
      BY <1>1, <2>4, NoMoreStatus
         DEF Announce, SocketStep, Drop, NewToken, Join, Refuse, Connect, server
    <2> QED BY <2>1, <2>2, <2>3, <2>4 DEF ApiStep
  <1>3. UNCHANGED <<loaded, board, doubled>>
    BY DEF ApiStep, SocketStep, CreateHeld, CreatePlaced, MoveElsewhere, Announce,
           Drop, NewToken, Join, Refuse, Connect, screen, heard
  <1>4. \A c \in Call : SameMove(calls[c], calls'[c])
    <2>1. CASE \E c \in Call : Connect(c)
      <3>1. PICK c \in Call : calls[c] = Idle /\ calls' = [calls EXCEPT ![c] = ListCall]
        BY <2>1 DEF Connect
      <3>2. SameMove(calls[c], ListCall)
        BY <3>1 DEF SameMove, Idle, ListCall, MovePC
      <3> QED BY <3>1, <3>2, OtherMoves
    <2>2. CASE ~ \E c \in Call : Connect(c)
      <3>1. UNCHANGED calls
        BY <2>2 DEF ApiStep, SocketStep, CreateHeld, CreatePlaced, MoveElsewhere,
                    Announce, Drop, NewToken, Join, Refuse
      <3> QED BY <3>1, SameMoves
    <2> QED BY <2>1, <2>2
  <1> QED BY <1>2, <1>3, <1>4, HappenedKept
\* A call that is answered or fails leaves its move what it is, until the
\* screen takes the answer.
LEMMA HappenedCall ==
  ASSUME Typed, Happened, CallStep
  PROVE  Happened'
  <1>1. history \in [Order -> Seq(Status)] /\ calls \in [Call -> CallState]
    BY TypedParts
  <1>2. UNCHANGED <<loaded, board, doubled>>
    BY DEF CallStep, ServeList, ServeGet, ServeMove, RefuseMove, FailCall, Crash,
           Respond, screen, heard
  <1>3. ASSUME NEW d \in Call PROVE SameMove(calls[d], Failed(calls[d]))
    <2>1. calls[d] \in CallState
      BY <1>1
    <2> QED BY <2>1, FailedShape, CallShapes DEF SameMove, MovePC, FetchPC
  <1>4. CASE Crash \/ \E c \in Call : ServeList(c) \/ ServeGet(c) \/ RefuseMove(c) \/ FailCall(c)
    <2>1. Grows
      BY <1>1, <1>4, NoMoreStatus
         DEF ServeList, ServeGet, RefuseMove, FailCall, Crash, server
    <2>2. \A c \in Call : SameMove(calls[c], calls'[c])
      <3>1. CASE Crash
        <4>1. ASSUME NEW c \in Call PROVE SameMove(calls[c], calls'[c])
          <5>1. calls'[c] \in {calls[c], Failed(calls[c])}
            BY <3>1 DEF Crash
          <5>2. SameMove(calls[c], calls[c])
            BY DEF SameMove
          <5> QED BY <1>3, <5>1, <5>2
        <4> QED BY <4>1
      <3>2. ASSUME NEW c \in Call, FailCall(c) PROVE \A d \in Call : SameMove(calls[d], calls'[d])
        BY <1>3, <3>2, OtherMoves DEF FailCall
      <3>3. ASSUME NEW c \in Call, ServeList(c) PROVE \A d \in Call : SameMove(calls[d], calls'[d])
        <4> DEFINE r == [pc |-> "rows", at |-> [o \in Order |-> Latest(o)]]
        <4>1. calls' = [calls EXCEPT ![c] = r] /\ SameMove(calls[c], r)
          BY <3>3 DEF ServeList, Respond, ListCall, SameMove, MovePC
        <4> HIDE DEF r
        <4> QED BY <4>1, OtherMoves
      <3>4. ASSUME NEW c \in Call, ServeGet(c) PROVE \A d \in Call : SameMove(calls[d], calls'[d])
        <4> DEFINE o == calls[c].order
                   r == [pc |-> "row", order |-> o, at |-> Latest(o)]
        <4>1. calls' = [calls EXCEPT ![c] = r] /\ SameMove(calls[c], r)
          BY <3>4 DEF ServeGet, Respond, SameMove, MovePC
        <4> HIDE DEF r
        <4> QED BY <4>1, OtherMoves
      <3>5. ASSUME NEW c \in Call, RefuseMove(c) PROVE \A d \in Call : SameMove(calls[d], calls'[d])
        <4>1. calls' = [calls EXCEPT ![c] = Undo(calls[c])] /\ SameMove(calls[c], Undo(calls[c]))
          BY <3>5 DEF RefuseMove, Respond, Undo, SameMove, MovePC
        <4> QED BY <4>1, OtherMoves
      <3> QED BY <1>4, <3>1, <3>2, <3>3, <3>4, <3>5
    <2> QED BY <1>2, <2>1, <2>2, HappenedKept
  <1>5. ASSUME NEW c \in Call, ServeMove(c) PROVE Happened'
    <2> DEFINE o == calls[c].order
               s == calls[c].to
               g(x) == [pc |-> "moved", order |-> o, to |-> s,
                        prev |-> calls[c].prev, at |-> x]
    <2>1. calls[c].pc = "move" /\ o \in Order /\ s \in Status
      BY <1>1, <1>5, CallShapes DEF ServeMove, MovePC
    <2>2. PICK x \in {0, Latest(o) + 1} :
            /\ calls' = [calls EXCEPT ![c] = g(x)]
            /\ (Current(o) = s /\ UNCHANGED history) \/ Commit(o, s)
      BY <1>5 DEF ServeMove, Respond, server
    <2>3. Grows /\ Reached(history'[o], s)
      <3>1. CASE Commit(o, s)
        <4>1. /\ Grows /\ Len(history'[o]) = Len(history[o]) + 1
              /\ history'[o][Len(history[o]) + 1] = s
          BY <1>1, <2>1, <3>1, OneMoreStatus DEF Commit
        <4>2. Len(history[o]) + 1 \in 1 .. Len(history'[o])
          BY <2>1, <4>1 DEF Grows
        <4> QED BY <4>1, <4>2 DEF Reached
      <3>2. CASE Current(o) = s /\ UNCHANGED history
        <4>1. Grows
          BY <1>1, <3>2, NoMoreStatus
        <4>2. Latest(o) \in Nat /\ Latest(o) <= Len(history[o])
          BY <2>1, <4>1 DEF Grows, Latest
        <4>3. Reached(history[o], s)
          BY <1>1, <2>1, <3>2, <4>2, PlacesAreReached DEF Current
        <4> QED BY <3>2, <4>1, <4>3
      <3> QED BY <2>2, <3>1, <3>2
    <2>4. calls'[c] = g(x) /\ \A d \in Call \ {c} : calls'[d] = calls[d]
      BY <2>2, OtherMoves
    <2>5. ASSUME NEW q \in Order \ doubled'
          PROVE  /\ \A d, e \in Call : Out(calls'[d], q) /\ Out(calls'[e], q) => d = e
                 /\ \A d \in Call : Out(calls'[d], q) => Reached(history'[q], calls'[d].prev)
                 /\ Reached(history'[q], board'[q]) \/ \E d \in Call : Showing(calls[d], q)'
      <3>1. q \in Order \ doubled /\ board' = board
        BY <1>2, <2>5
      <3>2. \A d \in Call : Out(calls'[d], q) => Out(calls[d], q) /\ calls'[d].prev = calls[d].prev
        BY <2>1, <2>4 DEF Out, MovePC
      <3>3. \A d, e \in Call : Out(calls'[d], q) /\ Out(calls'[e], q) => d = e
        BY <3>1, <3>2 DEF Happened
      <3>4. \A d \in Call : Out(calls'[d], q) => Reached(history'[q], calls'[d].prev)
        BY <2>3, <3>1, <3>2, StillReached DEF Happened
      <3>5. ASSUME Reached(history[q], board[q]) PROVE Reached(history'[q], board'[q])
        BY <2>3, <3>1, <3>5, StillReached
      <3>6. ASSUME Showing(calls[c], q) PROVE Reached(history'[q], board'[q])
        BY <2>3, <3>1, <3>6 DEF Showing
      <3>7. ASSUME NEW d \in Call \ {c}, Showing(calls[d], q) PROVE Showing(calls[d], q)'
        BY <2>4, <3>1, <3>7 DEF Showing
      <3>8. Reached(history[q], board[q]) \/ \E d \in Call : Showing(calls[d], q)
        BY <3>1 DEF Happened
      <3>9. Reached(history'[q], board'[q]) \/ \E d \in Call : Showing(calls[d], q)'
        BY <3>5, <3>6, <3>7, <3>8
      <3> QED BY <3>3, <3>4, <3>9
    <2>6. ~loaded' => \A q \in Order : board'[q] = None
      BY <1>2 DEF Happened
    <2> QED BY <2>5, <2>6 DEF Happened
  <1> QED BY <1>4, <1>5 DEF CallStep
\* A move that is over is no move that is out.
LEMMA HappenedOver ==
  ASSUME Typed, Happened, NEW c \in Call, Granted(c) \/ RollBack(c)
  PROVE  Happened'
  <1> DEFINE o == calls[c].order
  <1>1. /\ history \in [Order -> Seq(Status)] /\ calls \in [Call -> CallState]
        /\ board \in [Order -> Row]
    BY TypedParts DEF ScreenOK
  <1>2. /\ calls' = [calls EXCEPT ![c] = Idle] /\ calls[c].pc \in {"moved", "undo"}
        /\ UNCHANGED <<history, loaded, doubled>>
    BY DEF Granted, RollBack, Answered, server, heard
  <1>3. o \in Order /\ Out(calls[c], o)
    BY <1>1, <1>2, CallShapes DEF MovePC, Out
  <1>4. Grows
    BY <1>1, <1>2, NoMoreStatus
  <1>5. calls'[c] = Idle /\ \A d \in Call \ {c} : calls'[d] = calls[d]
    BY <1>2, OtherMoves
  <1>6. \/ board' = board
        \/ loaded /\ calls[c].pc = "undo" /\ board' = [board EXCEPT ![o] = calls[c].prev]
    BY DEF Granted, RollBack, Restored
  <1>7. calls[c].pc = "undo" /\ board' = board
          => ~loaded \/ calls[c].prev = None \/ board[o] = None \/ board[o] = calls[c].prev
    <2>1. SUFFICES ASSUME calls[c].pc = "undo", board' = board, loaded,
                          calls[c].prev # None, board[o] # None
                   PROVE  board[o] = calls[c].prev
      OBVIOUS
    <2>2. board' = [board EXCEPT ![o] = calls[c].prev]
      BY <2>1 DEF Granted, RollBack, Restored
    <2> QED BY <1>1, <1>3, <2>1, <2>2
  <1>8. ASSUME NEW q \in Order \ doubled'
        PROVE  /\ \A d, e \in Call : Out(calls'[d], q) /\ Out(calls'[e], q) => d = e
               /\ \A d \in Call : Out(calls'[d], q) => Reached(history'[q], calls'[d].prev)
               /\ Reached(history'[q], board'[q]) \/ \E d \in Call : Showing(calls[d], q)'
    <2>1. q \in Order \ doubled /\ history' = history
      BY <1>2
    <2>2. \A d \in Call : Out(calls'[d], q) => d # c /\ calls'[d] = calls[d]
      BY <1>5 DEF Out, Idle, MovePC
    <2>3. /\ \A d, e \in Call : Out(calls'[d], q) /\ Out(calls'[e], q) => d = e
          /\ \A d \in Call : Out(calls'[d], q) => Reached(history'[q], calls'[d].prev)
      BY <2>1, <2>2 DEF Happened
    <2>4. Reached(history[q], board[q]) \/ \E d \in Call : Showing(calls[d], q)
      BY <2>1 DEF Happened
    <2>5. ASSUME board'[q] = board[q], NEW d \in Call \ {c}, Showing(calls[d], q)
          PROVE  Showing(calls[d], q)'
      BY <1>5, <2>5 DEF Showing
    <2>6. ASSUME board'[q] = board[q], Showing(calls[c], q)
          PROVE  Reached(history[q], board[q])
      <3>1. q = o /\ calls[c].pc = "undo" /\ calls[c].prev # None /\ board[o] = calls[c].to
        BY <1>2, <2>6 DEF Showing
      <3>2. Reached(history[q], calls[c].prev) /\ Reached(history[q], None)
        BY <1>3, <2>1, <3>1 DEF Happened, Reached
      <3>3. board' = board
        BY <1>1, <1>3, <1>6, <2>6, <3>1
      <3>4. ~loaded => board[q] = None
        BY <2>1 DEF Happened
      <3> QED BY <1>7, <3>1, <3>2, <3>3, <3>4
    <2>7. CASE board'[q] = board[q]
      BY <2>1, <2>3, <2>4, <2>5, <2>6, <2>7
    <2>8. CASE board'[q] # board[q]
      <3>1. q = o /\ board'[q] = calls[c].prev
        BY <1>1, <1>3, <1>6, <2>8
      <3>2. Reached(history'[q], board'[q])
        BY <1>3, <2>1, <3>1 DEF Happened
      <3> QED BY <2>3, <3>2
    <2> QED BY <2>7, <2>8
  <1>9. ~loaded' => \A q \in Order : board'[q] = None
    BY <1>2, <1>6 DEF Happened
  <1> QED BY <1>8, <1>9 DEF Happened

\* A move begins.
LEMMA HappenedAdvance ==
  ASSUME Typed, Happened, NEW c \in Call, NEW o \in Order, NEW x \in Status,
         loaded, Advance(c, o, x)
  PROVE  Happened'
  <1> DEFINE r == [pc |-> "move", order |-> o, to |-> x, prev |-> board[o]]
  <1>1. board \in [Order -> Row]
    BY TypedParts DEF ScreenOK
  <1>2. /\ calls' = [calls EXCEPT ![c] = r] /\ calls[c] = Idle
        /\ board' = IF board[o] = None THEN board ELSE [board EXCEPT ![o] = x]
        /\ doubled' = IF MoveOut(o) THEN doubled \cup {o} ELSE doubled
        /\ UNCHANGED <<history, loaded>>
    BY DEF Advance, server
  <1>3. r.pc = "move" /\ r.order = o /\ r.to = x /\ r.prev = board[o]
    OBVIOUS
  <1> HIDE DEF r
  <1>4. calls'[c] = r /\ \A d \in Call \ {c} : calls'[d] = calls[d]
    <2>1. calls \in [Call -> CallState]
      BY TypedParts
    <2> QED BY <1>2, <2>1, OtherMoves
  <1>5. ASSUME NEW q \in Order \ doubled', q # o
        PROVE  /\ \A d, e \in Call : Out(calls'[d], q) /\ Out(calls'[e], q) => d = e
               /\ \A d \in Call : Out(calls'[d], q) => Reached(history'[q], calls'[d].prev)
               /\ Reached(history'[q], board'[q]) \/ \E d \in Call : Showing(calls[d], q)'
    <2>1. q \in Order \ doubled /\ board'[q] = board[q] /\ history' = history
      BY <1>1, <1>2, <1>5
    <2>2. \A d \in Call : Out(calls'[d], q) => calls'[d] = calls[d]
      BY <1>4, <1>3, <1>5 DEF Out
    <2>3. /\ \A d, e \in Call : Out(calls'[d], q) /\ Out(calls'[e], q) => d = e
          /\ \A d \in Call : Out(calls'[d], q) => Reached(history'[q], calls'[d].prev)
      BY <2>1, <2>2 DEF Happened
    <2>4. \A d \in Call : Showing(calls[d], q) => Showing(calls[d], q)'
      <3>1. \A d \in Call : Showing(calls[d], q) => d # c
        BY <1>2 DEF Showing, Idle
      <3> QED BY <1>4, <2>1, <3>1 DEF Showing
    <2> QED BY <2>1, <2>3, <2>4 DEF Happened
  <1>6. ASSUME o \notin doubled'
        PROVE  /\ \A d, e \in Call : Out(calls'[d], o) /\ Out(calls'[e], o) => d = e
               /\ \A d \in Call : Out(calls'[d], o) => Reached(history'[o], calls'[d].prev)
               /\ Reached(history'[o], board'[o]) \/ \E d \in Call : Showing(calls[d], o)'
    <2>1. o \notin doubled /\ ~MoveOut(o)
      BY <1>2, <1>6
    <2>2. \A d \in Call : ~Out(calls[d], o)
      BY <2>1 DEF MoveOut, Out, MovePC
    <2>3. \A d \in Call : ~Showing(calls[d], o)
      BY <2>2 DEF Showing, Out, MovePC
    <2>4. Reached(history[o], board[o])
      BY <2>1, <2>3 DEF Happened
    <2>5. \A d \in Call : Out(calls'[d], o) => d = c
      BY <1>4, <2>2
    <2>6. \A d \in Call : Out(calls'[d], o) => Reached(history'[o], calls'[d].prev)
      BY <1>2, <1>4, <1>3, <2>4, <2>5
    <2>7. Reached(history'[o], board'[o]) \/ \E d \in Call : Showing(calls[d], o)'
      <3>1. CASE board[o] = None
        BY <1>2, <2>4, <3>1
      <3>2. CASE board[o] # None
        <4>1. board'[o] = x
          BY <1>1, <1>2, <3>2
        <4> QED BY <1>4, <1>3, <3>2, <4>1 DEF Showing
      <3> QED BY <3>1, <3>2
    <2> QED BY <2>5, <2>6, <2>7
  <1> QED BY <1>2, <1>5, <1>6 DEF Happened

\* Nor does what the screen shows by itself: a tap shows the move it asked for.
LEMMA HappenedScreen ==
  ASSUME Typed, Happened, ScreenStep
  PROVE  Happened'
  <1>1. /\ history \in [Order -> Seq(Status)] /\ calls \in [Call -> CallState]
        /\ CallsReached /\ board \in [Order -> Row]
    BY TypedParts DEF ScreenOK
  <1>2. ASSUME NEW c \in Call, NEW r, calls' = [calls EXCEPT ![c] = r],
               calls[c].pc \notin MovePC, r.pc \notin MovePC
        PROVE  \A d \in Call : SameMove(calls[d], calls'[d])
    BY <1>2, OtherMoves DEF SameMove
  <1>3. ASSUME NEW c \in Call, HearCreated(c) \/ HearUnknown(c) PROVE Happened'
    <2> DEFINE r == GetCall(Head(wire).order)
    <2>1. /\ calls' = [calls EXCEPT ![c] = r] /\ calls[c] = Idle
          /\ UNCHANGED <<history, loaded, board, doubled>>
      BY <1>3 DEF HearCreated, HearUnknown, server, screen
    <2>2. calls[c].pc \notin MovePC /\ r.pc \notin MovePC
      BY <2>1 DEF Idle, GetCall, MovePC
    <2> HIDE DEF r
    <2> QED BY <1>1, <1>2, <2>1, <2>2, NoMoreStatus, HappenedKept
  <1>4. ASSUME HearNothing PROVE Happened'
    <2>1. UNCHANGED <<history, loaded, board, doubled, calls>>
      BY <1>4 DEF HearNothing, server, screen
    <2> QED BY <1>1, <2>1, NoMoreStatus, SameMoves, HappenedKept
  <1>5. ASSUME HearChanged PROVE Happened'
    <2> DEFINE o == Head(wire).order
               p == Head(wire).at
    <2>1. /\ wire # <<>> /\ loaded /\ board' = [board EXCEPT ![o] = At(o, p)]
          /\ UNCHANGED <<history, loaded, doubled, calls>>
      BY <1>5 DEF HearChanged, Hear, server
    <2>2. loaded' = TRUE
      BY <2>1, TypedParts DEF ScreenOK
    <2>3. o \in Order /\ p \in Nat /\ p <= Len(history[o])
      BY <2>1, NextMessage
    <2>4. Reached(history[o], At(o, p))
      BY <1>1, <2>3, PlacesAreReached
    <2>5. \A q \in Order : board'[q] = board[q] \/ Reached(history'[q], board'[q])
      BY <1>1, <2>1, <2>3, <2>4
    <2> QED BY <1>1, <2>1, <2>2, <2>5, NoMoreStatus, SameMoves, HappenedKept
  <1>6. ASSUME NEW c \in Call, TakeList(c) PROVE Happened'
    <2> DEFINE at == calls[c].at
    <2>1. /\ calls' = [calls EXCEPT ![c] = Idle] /\ calls[c].pc = "rows"
          /\ loaded' = TRUE /\ board' = [o \in Order |-> At(o, at[o])]
          /\ UNCHANGED <<history, doubled>>
      BY <1>6 DEF TakeList, Answered, server
    <2>2. \A d \in Call : SameMove(calls[d], calls'[d])
      BY <1>2, <2>1 DEF Idle, MovePC
    <2>3. ASSUME NEW q \in Order PROVE Reached(history'[q], board'[q])
      <3>1. at[q] \in Nat /\ at[q] <= Len(history[q])
        BY <1>1, <2>1, CallShapes DEF CallsReached
      <3> QED BY <1>1, <2>1, <3>1, PlacesAreReached
    <2> QED BY <1>1, <2>1, <2>2, <2>3, NoMoreStatus, HappenedKept
  <1>7. ASSUME NEW c \in Call, TakeRow(c) PROVE Happened'
    <2> DEFINE o == calls[c].order
               p == calls[c].at
    <2>1. /\ calls' = [calls EXCEPT ![c] = Idle] /\ calls[c].pc = "row"
          /\ board' = IF loaded THEN [board EXCEPT ![o] = At(o, p)] ELSE board
          /\ UNCHANGED <<history, loaded, doubled>>
      BY <1>7 DEF TakeRow, Hear, heard, Answered, server
    <2>2. \A d \in Call : SameMove(calls[d], calls'[d])
      BY <1>2, <2>1 DEF Idle, MovePC
    <2>3. o \in Order /\ p \in Nat /\ p <= Len(history[o])
      BY <1>1, <2>1, CallShapes DEF CallsReached, FetchPC
    <2>4. Reached(history[o], At(o, p))
      BY <1>1, <2>3, PlacesAreReached
    <2>5. \A q \in Order : board'[q] = board[q] \/ Reached(history'[q], board'[q])
      BY <1>1, <2>1, <2>3, <2>4
    <2>6. loaded' = TRUE \/ (loaded' = loaded /\ board' = board)
      BY <2>1, TypedParts DEF ScreenOK
    <2> QED BY <1>1, <2>1, <2>2, <2>5, <2>6, NoMoreStatus, HappenedKept
  <1>8. ASSUME NEW c \in Call, TakeLoss(c) PROVE Happened'
    <2>1. /\ calls' = [calls EXCEPT ![c] = Idle] /\ calls[c].pc \in {"listLost", "getLost"}
          /\ UNCHANGED <<history, loaded, board, doubled>>
      BY <1>8 DEF TakeLoss, Answered, server, screen
    <2>2. \A d \in Call : SameMove(calls[d], calls'[d])
      BY <1>2, <2>1 DEF Idle, MovePC
    <2> QED BY <1>1, <2>1, <2>2, NoMoreStatus, HappenedKept
  <1>9. ASSUME NEW c \in Call, NEW o \in Order, HandOver(c, o) PROVE Happened'
    BY <1>9, Statuses, HappenedAdvance DEF HandOver
  <1>10. ASSUME NEW c \in Call, NEW o \in Order, NEW x \in Status, PickMove(c, o, x)
         PROVE  Happened'
    BY <1>10, HappenedAdvance DEF PickMove
  <1> QED BY <1>3, <1>4, <1>5, <1>6, <1>7, <1>8, <1>9, <1>10, HappenedOver DEF ScreenStep

\* A ticket shows a status its order never had only while a tapped move of
\* that order is out, or after two of its moves have been out at once (the
\* optimistic update and the rollback of kitchen-client.tsx).
THEOREM NoPhantoms == Spec => []TicketsHaveHappened
  <1>1. Init => Happened
    <2> SUFFICES ASSUME Init PROVE Happened
      OBVIOUS
    <2>1. PICK c \in Call : calls = [d \in Call |-> IF d = c THEN ListCall ELSE Idle]
      BY DEF Init
    <2>2. \A d \in Call : calls[d].pc \notin MovePC
      BY <2>1 DEF ListCall, Idle, MovePC
    <2>3. \A o \in Order : board[o] = None
      BY DEF Init
    <2> QED BY <2>2, <2>3 DEF Happened, Out, Reached
  <1>2. Typed /\ Happened /\ [Next]_vars => Happened'
    <2> SUFFICES ASSUME Typed, Happened, [Next]_vars PROVE Happened'
      OBVIOUS
    <2>1. CASE UNCHANGED vars
      BY <2>1 DEF vars, Happened, Showing
    <2>2. CASE Next
      BY <2>2, HappenedApi, HappenedCall, HappenedScreen DEF Next
    <2> QED BY <2>1, <2>2
  <1>3. Happened => TicketsHaveHappened
    BY DEF Happened, TicketsHaveHappened, Reached, Showing
  <1> QED BY <1>1, <1>2, <1>3, TypedInit, TypedStep, PTL DEF Spec
-----------------------------------------------------------------------------
(* Tickets in the wrong column are explained.                              *)

\* What the screen may still hear of, or has missed.
Untold == news \cup OnWire \cup lost

\* Every place of an order's history past what was heard of it has its
\* message in ms.  The first place of a held order is never announced.
Accounted(o, past, heardOf, ms) ==
  \A p \in 1 .. Len(past) :
    p > heardOf => [order |-> o, at |-> p] \in ms \/ (p = 1 /\ past[1] = "DRAFT")

UnheardIsOnTheWay == \A o \in Order : Accounted(o, history[o], told[o], Untold)

\* Nothing is on the way or lost that is later than what was heard.
Caught(o) == \A m \in Untold : m.order = o => m.at <= told[o]

\* The order is being fetched.
Fetched(o) == \E c \in Call : calls[c].pc \in FetchPC /\ calls[c].order = o

\* A row that is not astray and has heard everything stands where its order
\* is, or where a tapped move that is out has put it.
RowIsCurrent(o) ==
  loaded /\ o \notin astray /\ Caught(o) /\ ~Fetched(o)
    => Column(board[o]) = Column(Current(o)) \/ \E c \in Call : Showing(calls[c], o)

RowsAreCurrent == \A o \in Order : RowIsCurrent(o)

\* Who has heard of everything has heard of the column the order is in.
LEMMA CaughtUp ==
  ASSUME NEW o, NEW past \in Seq(Status), NEW t \in Nat, t <= Len(past), NEW ms,
         Accounted(o, past, t, ms), \A m \in ms : m.order = o => m.at <= t
  PROVE  Column(IF t = 0 THEN None ELSE past[t])
           = Column(IF Len(past) = 0 THEN None ELSE past[Len(past)])
  <1>1. Len(past) \in Nat
    BY LenProperties
  <1>2. CASE t = Len(past)
    BY <1>2
  <1>3. CASE t # Len(past)
    <2>1. Len(past) \in 1 .. Len(past) /\ Len(past) > t /\ t + 1 \in 1 .. Len(past) /\ t + 1 > t
      BY <1>1, <1>3
    <2>2. ASSUME NEW p \in 1 .. Len(past), p > t PROVE p = 1 /\ past[1] = "DRAFT"
      <3>1. [order |-> o, at |-> p] \in ms => p <= t
        OBVIOUS
      <3>2. [order |-> o, at |-> p] \notin ms
        BY <2>2, <3>1
      <3> QED BY <2>2, <3>2 DEF Accounted
    <2>3. Len(past) = 1 /\ past[1] = "DRAFT" /\ t = 0
      <3>1. Len(past) = 1 /\ past[1] = "DRAFT"
        BY <2>1, <2>2
      <3>2. t = 0
        BY <1>3, <3>1
      <3> QED BY <3>1, <3>2
    <2> QED BY <2>3 DEF Column, BoardStatuses
  <1> QED BY <1>2, <1>3

\* ... in a state the screen has reached, and in the next.
LEMMA HeardColumn ==
  ASSUME Typed, UnheardIsOnTheWay, NEW o \in Order, Caught(o)
  PROVE  Column(At(o, told[o])) = Column(Current(o))
  <1>1. /\ history[o] \in Seq(Status) /\ told[o] \in Nat /\ told[o] <= Len(history[o])
        /\ Accounted(o, history[o], told[o], Untold)
    BY TypedParts DEF ScreenOK, UnheardIsOnTheWay
  <1>2. \A m \in Untold : m.order = o => m.at <= told[o]
    BY DEF Caught
  <1> QED BY <1>1, <1>2, CaughtUp DEF At, Current, Latest

\* The same of the state after a step.
LEMMA HeardColumnNext ==
  ASSUME Typed', UnheardIsOnTheWay', NEW o \in Order, Caught(o)'
  PROVE  Column(At(o, told[o])') = Column(Current(o)')
  <1>1. /\ history'[o] \in Seq(Status) /\ told'[o] \in Nat /\ told'[o] <= Len(history'[o])
        /\ Accounted(o, history'[o], told'[o], Untold')
    BY DEF Typed, TypeOK, UnheardIsOnTheWay
  <1>2. \A m \in Untold' : m.order = o => m.at <= told'[o]
    BY DEF Caught
  <1> QED BY <1>1, <1>2, CaughtUp DEF At, Current, Latest

\* Announcing, breaking a connection and crashing make no message and
\* forget none.
LEMMA SameMessages ==
  ASSUME Typed, (\E m \in news : Announce(m)) \/ SocketStep \/ Crash
  PROVE  Untold' = Untold
  <1>1. wire \in Seq(Message) /\ news \subseteq Message
    BY TypedParts DEF MessagesOK
  <1>2. ASSUME wire' = <<>> PROVE OnWire' = {}
    BY <1>2 DEF OnWire
  <1>3. ASSUME wire' = wire PROVE OnWire' = OnWire
    BY <1>3 DEF OnWire
  <1>4. ASSUME NEW m \in news, Announce(m) PROVE Untold' = Untold
    <2>1. CASE link = "joined"
      <3>1. OnWire' = OnWire \cup {m}
        BY <1>1, <1>4, <2>1, WireSteps DEF Announce, OnWire
      <3> QED BY <1>4, <2>1, <3>1 DEF Announce, Untold
    <2>2. CASE link # "joined"
      BY <1>3, <1>4, <2>2 DEF Announce, Untold
    <2> QED BY <2>1, <2>2
  <1>5. CASE Drop \/ NewToken
    BY <1>2, <1>5 DEF Drop, NewToken, Severed, server, Untold
  <1>6. CASE Join \/ Refuse \/ \E c \in Call : Connect(c)
    BY <1>3, <1>6 DEF Join, Refuse, Connect, server, Untold
  <1>7. CASE Crash
    BY <1>2, <1>7 DEF Crash, Untold
  <1> QED BY <1>4, <1>5, <1>6, <1>7 DEF SocketStep

\* A commit adds its own message.
LEMMA OneMoreMessage ==
  ASSUME NEW o \in Order, NEW s \in Status, Commit(o, s), UNCHANGED <<wire, lost>>
  PROVE  Untold' = Untold \cup {[order |-> o, at |-> Len(history[o]) + 1]}
  BY DEF Commit, Latest, Untold, OnWire

\* A message that is heard comes off the wire.
LEMMA OneLessMessage ==
  ASSUME Typed, wire # <<>>, wire' = Tail(wire), UNCHANGED <<history, news, lost>>
  PROVE  Untold = Untold' \cup {Head(wire)}
  <1>1. Grows
    BY TypedParts, NoMoreStatus
  <1>2. OnWire = OnWire' \cup {Head(wire)}
    BY <1>1, MessageTaken
  <1> QED BY <1>2 DEF Untold

\* Who hears more and forgets only what was heard misses nothing.
LEMMA AccountedKept ==
  ASSUME Typed, Typed', UnheardIsOnTheWay, UNCHANGED history,
         \A o \in Order : told[o] <= told'[o],
         \A m \in Untold \ Untold' : m.at <= told'[m.order]
  PROVE  UnheardIsOnTheWay'
  <1>1. ASSUME NEW o \in Order, NEW p \in 1 .. Len(history[o]), p > told'[o]
        PROVE  [order |-> o, at |-> p] \in Untold' \/ (p = 1 /\ history[o][1] = "DRAFT")
    <2>1. told[o] \in Nat /\ told'[o] \in Nat /\ told[o] <= told'[o]
      BY DEF Typed, TypeOK
    <2>2. Len(history[o]) \in Nat
      BY TypedParts, LenProperties
    <2>3. [order |-> o, at |-> p] \in Untold \/ (p = 1 /\ history[o][1] = "DRAFT")
      BY <1>1, <2>1, <2>2 DEF UnheardIsOnTheWay, Accounted
    <2>4. [order |-> o, at |-> p] \in Untold \ Untold' => p <= told'[o]
      <3> DEFINE m == [order |-> o, at |-> p]
      <3>1. m.order = o /\ m.at = p
        OBVIOUS
      <3> HIDE DEF m
      <3>2. m \in Untold \ Untold' => p <= told'[o]
        BY <3>1
      <3> QED BY <3>2 DEF m
    <2> QED BY <1>1, <2>1, <2>2, <2>3, <2>4
  <1> QED BY <1>1 DEF UnheardIsOnTheWay, Accounted

\* A commit is accounted for by its own message, a held order by its name.
LEMMA AccountedCommit ==
  ASSUME Typed, UnheardIsOnTheWay, NEW o \in Order, NEW s \in Status,
         history' = [history EXCEPT ![o] = Append(@, s)],
         Untold \subseteq Untold', UNCHANGED told,
         \/ [order |-> o, at |-> Len(history[o]) + 1] \in Untold'
         \/ history[o] = <<>> /\ s = "DRAFT"
  PROVE  UnheardIsOnTheWay'
  <1>1. history \in [Order -> Seq(Status)]
    BY TypedParts
  <1>2. /\ Grows /\ Len(history'[o]) = Len(history[o]) + 1
        /\ history'[o][Len(history[o]) + 1] = s
        /\ \A q \in Order \ {o} : history'[q] = history[q]
    BY <1>1, OneMoreStatus
  <1>3. ASSUME NEW q \in Order, NEW p \in 1 .. Len(history'[q]), p > told[q]
        PROVE  [order |-> q, at |-> p] \in Untold' \/ (p = 1 /\ history'[q][1] = "DRAFT")
    <2>1. Len(history[q]) \in Nat /\ Len(history'[q]) \in Nat
      BY <1>2 DEF Grows
    <2>2. CASE p \in 1 .. Len(history[q])
      <3>1. [order |-> q, at |-> p] \in Untold \/ (p = 1 /\ history[q][1] = "DRAFT")
        BY <1>3, <2>2 DEF UnheardIsOnTheWay, Accounted
      <3>2. history'[q][p] = history[q][p]
        BY <1>2, <2>2 DEF Grows
      <3> QED BY <3>1, <3>2
    <2>3. CASE p \notin 1 .. Len(history[q])
      <3>1. q = o /\ p = Len(history[o]) + 1
        BY <1>2, <2>1, <2>3
      <3>2. history[o] = <<>> /\ s = "DRAFT" => p = 1 /\ history'[o][1] = "DRAFT"
        BY <1>2, <3>1, EmptySeq
      <3> QED BY <3>1, <3>2
    <2> QED BY <2>2, <2>3
  <1> QED BY <1>3 DEF UnheardIsOnTheWay, Accounted

\* What the API commits is announced, on the wire or lost until it is heard.
LEMMA UnheardApi ==
  ASSUME Typed, Typed', UnheardIsOnTheWay, ApiStep \/ SocketStep \/ CallStep
  PROVE  UnheardIsOnTheWay'
  <1>1. told' = told
    BY DEF ApiStep, SocketStep, CallStep, CreateHeld, CreatePlaced, MoveElsewhere, Announce,
           Drop, NewToken, Join, Refuse, Connect, ServeList, ServeGet, ServeMove, RefuseMove,
           FailCall, Crash, Respond, heard
  <1>2. ASSUME UNCHANGED history, Untold' = Untold PROVE UnheardIsOnTheWay'
    <2>1. \A o \in Order : told[o] <= told'[o]
      BY <1>1 DEF Typed, TypeOK
    <2> QED BY <1>2, <2>1, AccountedKept
  <1>3. ASSUME NEW o \in Order, NEW s \in Status, Commit(o, s), UNCHANGED <<wire, lost>>
        PROVE  UnheardIsOnTheWay'
    <2>1. Untold' = Untold \cup {[order |-> o, at |-> Len(history[o]) + 1]}
      BY <1>3, OneMoreMessage
    <2> QED BY <1>1, <1>3, <2>1, AccountedCommit DEF Commit
  <1>4. ASSUME NEW o \in Order, CreateHeld(o) PROVE UnheardIsOnTheWay'
    <2>1. Untold' = Untold
      BY <1>4 DEF CreateHeld, channel, Untold, OnWire
    <2> QED BY <1>1, <1>4, <2>1, Statuses, AccountedCommit DEF CreateHeld
  <1>5. ASSUME NEW o \in Order, CreatePlaced(o) PROVE UnheardIsOnTheWay'
    BY <1>3, <1>5, Statuses DEF CreatePlaced, channel
  <1>6. ASSUME NEW o \in Order, NEW s \in Status, MoveElsewhere(o, s) PROVE UnheardIsOnTheWay'
    BY <1>3, <1>6 DEF MoveElsewhere, channel
  <1>7. CASE (\E m \in news : Announce(m)) \/ SocketStep \/ Crash
    <2>1. UNCHANGED history
      BY <1>7 DEF Announce, SocketStep, Drop, NewToken, Join, Refuse, Connect, Crash, server
    <2> QED BY <1>2, <1>7, <2>1, SameMessages
  <1>8. ASSUME NEW c \in Call, ServeList(c) \/ ServeGet(c) \/ RefuseMove(c) \/ FailCall(c)
        PROVE  UnheardIsOnTheWay'
    <2>1. UNCHANGED <<history, news, wire, lost>>
      BY <1>8 DEF ServeList, ServeGet, RefuseMove, FailCall, Respond, server, channel
    <2>2. Untold' = Untold
      BY <2>1 DEF Untold, OnWire
    <2> QED BY <1>2, <2>1, <2>2
  <1>9. ASSUME NEW c \in Call, ServeMove(c) PROVE UnheardIsOnTheWay'
    <2>1. UNCHANGED <<wire, lost>>
      BY <1>9 DEF ServeMove, Respond, channel
    <2>2. calls[c].order \in Order /\ calls[c].to \in Status
      BY <1>9, TypedParts, CallShapes DEF ServeMove, MovePC
    <2>3. CASE Commit(calls[c].order, calls[c].to)
      BY <1>3, <2>1, <2>2, <2>3
    <2>4. CASE UNCHANGED server
      <3>1. Untold' = Untold /\ UNCHANGED history
        BY <2>1, <2>4 DEF server, Untold, OnWire
      <3> QED BY <1>2, <3>1
    <2> QED BY <1>9, <2>3, <2>4 DEF ServeMove
  <1> QED BY <1>4, <1>5, <1>6, <1>7, <1>8, <1>9 DEF ApiStep, CallStep

\* What hearing a message does to what the screen has heard.
LEMMA HeardMore ==
  ASSUME Typed, wire # <<>>, UNCHANGED history,
         told' = [told EXCEPT ![Head(wire).order] = Maximum(@, Head(wire).at)]
  PROVE  /\ \A o \in Order : told[o] <= told'[o]
         /\ Head(wire).at <= told'[Head(wire).order]
         /\ \A o \in Order \ {Head(wire).order} : told'[o] = told[o]
         /\ ~(Head(wire).at < told[Head(wire).order])
              => told'[Head(wire).order] = Head(wire).at
         /\ Head(wire).at < told[Head(wire).order] => told' = told
  <1> DEFINE o == Head(wire).order
             p == Head(wire).at
  <1>1. o \in Order /\ p \in Nat /\ p <= Len(history[o])
    BY NextMessage
  <1>2. told \in [Order -> Nat]
    BY DEF Typed, TypeOK
  <1>3. told'[o] = Maximum(told[o], p) /\ \A q \in Order \ {o} : told'[q] = told[q]
    BY <1>1, <1>2
  <1>4. /\ told[o] <= Maximum(told[o], p) /\ p <= Maximum(told[o], p)
        /\ p < told[o] => Maximum(told[o], p) = told[o]
        /\ ~(p < told[o]) => Maximum(told[o], p) = p
    BY <1>1, <1>2 DEF Maximum
  <1>5. \A q \in Order : told[q] <= told'[q]
    <2>1. TAKE q \in Order
    <2> QED BY <1>2, <1>3, <1>4
  <1>6. p < told[o] => told' = told
    <2>1. p < told[o] => [told EXCEPT ![o] = Maximum(@, p)] = told
      BY <1>1, <1>2, <1>4
    <2> QED BY <2>1
  <1> QED BY <1>3, <1>4, <1>5, <1>6

\* What a message that is heard leaves on the way.
LEMMA UnheardHear ==
  ASSUME Typed, Typed', UnheardIsOnTheWay, wire # <<>>, wire' = Tail(wire),
         UNCHANGED <<history, news, lost>>, NEW o \in Order, Head(wire).order = o,
         told' = [told EXCEPT ![Head(wire).order] = Maximum(@, Head(wire).at)]
  PROVE  /\ UnheardIsOnTheWay'
         /\ \A q \in Order \ {o} : Caught(q)' => Caught(q)
         /\ told' = told /\ Caught(o)' => Caught(o)
  <1>1. Untold = Untold' \cup {Head(wire)}
    BY OneLessMessage
  <1>2. /\ \A q \in Order : told[q] <= told'[q]
        /\ Head(wire).at <= told'[o]
        /\ \A q \in Order \ {o} : told'[q] = told[q]
    BY HeardMore
  <1>3. \A m \in Untold \ Untold' : m.at <= told'[m.order]
    BY <1>1, <1>2
  <1>4. UnheardIsOnTheWay'
    BY <1>2, <1>3, AccountedKept
  <1>5. ASSUME NEW q \in Order \ {o}, Caught(q)' PROVE Caught(q)
    <2>1. \A m \in Untold' : m.order = q => m.at <= told'[q]
      BY <1>5 DEF Caught
    <2> QED BY <1>1, <1>2, <2>1 DEF Caught
  <1>6. ASSUME told' = told, Caught(o)' PROVE Caught(o)
    <2>1. \A m \in Untold' : m.order = o => m.at <= told[o]
      BY <1>6 DEF Caught
    <2> QED BY <1>1, <1>2, <1>6, <2>1 DEF Caught
  <1> QED BY <1>4, <1>5, <1>6

\* A call that ends or begins forgets no message.
LEMMA UnheardScreen ==
  ASSUME Typed, Typed', UnheardIsOnTheWay, ScreenStep
  PROVE  UnheardIsOnTheWay'
  <1>1. ASSUME wire # <<>>, wire' = Tail(wire), UNCHANGED <<history, news, lost>>,
               told' = [told EXCEPT ![Head(wire).order] = Maximum(@, Head(wire).at)]
        PROVE  UnheardIsOnTheWay'
    BY <1>1, NextMessage, UnheardHear
  <1>2. ASSUME UNCHANGED <<history, news, wire, lost>>, \A o \in Order : told[o] <= told'[o]
        PROVE  UnheardIsOnTheWay'
    <2>1. Untold' = Untold
      BY <1>2 DEF Untold, OnWire
    <2> QED BY <1>2, <2>1, AccountedKept
  <1>3. told \in [Order -> Nat] /\ calls \in [Call -> CallState]
    BY DEF Typed, TypeOK
  <1>4. CASE HearChanged \/ HearNothing \/ \E c \in Call : HearUnknown(c)
    BY <1>1, <1>4 DEF HearChanged, HearNothing, HearUnknown, Hear, server
  <1>5. ASSUME NEW c \in Call, HearCreated(c) PROVE UnheardIsOnTheWay'
    BY <1>1, <1>5 DEF HearCreated, server
  <1>6. ASSUME NEW c \in Call, TakeList(c) PROVE UnheardIsOnTheWay'
    <2>1. calls[c].at \in [Order -> Nat] /\ told' = [o \in Order |-> Maximum(told[o], calls[c].at[o])]
      BY <1>3, <1>6, CallShapes DEF TakeList
    <2>2. \A o \in Order : told[o] <= told'[o]
      BY <1>3, <2>1 DEF Maximum
    <2> QED BY <1>2, <1>6, <2>2 DEF TakeList, server, channel
  <1>7. ASSUME NEW c \in Call, TakeRow(c) PROVE UnheardIsOnTheWay'
    <2>1. calls[c].at \in Nat /\ calls[c].order \in Order
      BY <1>3, <1>7, CallShapes DEF TakeRow, FetchPC
    <2>2. told' \in {told, [told EXCEPT ![calls[c].order] = Maximum(@, calls[c].at)]}
      BY <1>7 DEF TakeRow, Hear, heard
    <2>3. \A o \in Order : told[o] <= told'[o]
      BY <1>3, <2>1, <2>2 DEF Maximum
    <2> QED BY <1>2, <1>7, <2>3 DEF TakeRow, server, channel
  <1>8. CASE told' = told /\ UNCHANGED <<history, news, wire, lost>>
    BY <1>2, <1>3, <1>8
  <1>9. ASSUME NEW c \in Call, NEW o \in Order, NEW x, Advance(c, o, x)
        PROVE  told' = told /\ UNCHANGED <<history, news, wire, lost>>
    BY <1>9 DEF Advance, server, channel
  <1>10. CASE \E c \in Call : \/ TakeLoss(c) \/ Granted(c) \/ RollBack(c)
                              \/ \E o \in Order : HandOver(c, o)
                              \/ \E o \in Order, x \in Status : PickMove(c, o, x)
    BY <1>8, <1>9, <1>10 DEF TakeLoss, Granted, RollBack, HandOver, PickMove,
                             heard, server, channel
  <1> QED BY <1>4, <1>5, <1>6, <1>7, <1>10 DEF ScreenStep

\* A call still fetches the order it fetched, and is still the move of it
\* that it was.
SameFor(o, r, now) ==
  /\ r.pc \in FetchPC /\ r.order = o => now.pc \in FetchPC /\ now.order = o
  /\ r.pc \in {"move", "undo"} /\ r.order = o
       => now.pc \in {"move", "undo"} /\ now.order = o /\ now.to = r.to /\ now.prev = r.prev

\* Does a step leave the row of an order, and what is known of it, alone?
LeavesAlone(o) ==
  /\ loaded' = loaded /\ board'[o] = board[o]
  /\ Column(Current(o))' = Column(Current(o))
  /\ o \in astray => o \in astray'
  /\ Caught(o)' => Caught(o)

\* Then the row is as current as it was.
LEMMA RowKept ==
  ASSUME NEW o \in Order, RowIsCurrent(o), LeavesAlone(o),
         \A c \in Call : SameFor(o, calls[c], calls'[c])
  PROVE  RowIsCurrent(o)'
  <1>1. SUFFICES ASSUME loaded', o \notin astray', Caught(o)', ~Fetched(o)'
                 PROVE  Column(board'[o]) = Column(Current(o))'
                          \/ \E c \in Call : Showing(calls[c], o)'
    BY DEF RowIsCurrent
  <1>2. ~Fetched(o)
    BY <1>1 DEF Fetched, SameFor
  <1>3. Column(board[o]) = Column(Current(o)) \/ \E c \in Call : Showing(calls[c], o)
    BY <1>1, <1>2 DEF RowIsCurrent, LeavesAlone
  <1>4. ASSUME NEW c \in Call, Showing(calls[c], o) PROVE Showing(calls[c], o)'
    BY <1>4 DEF Showing, SameFor, LeavesAlone
  <1> QED BY <1>3, <1>4 DEF LeavesAlone

\* One call changes, and is about another order or still about this one.
LEMMA OtherCalls ==
  ASSUME Typed, NEW c \in Call, NEW r, calls' = [calls EXCEPT ![c] = r], NEW o \in Order,
         SameFor(o, calls[c], r)
  PROVE  \A d \in Call : SameFor(o, calls[d], calls'[d])
  <1>1. \A d \in Call : calls'[d] = IF d = c THEN r ELSE calls[d]
    BY DEF Typed, TypeOK
  <1>2. \A d \in Call : SameFor(o, calls[d], calls[d])
    BY DEF SameFor
  <1> QED BY <1>1, <1>2

\* A commit: its order has something to be heard of, the others are left alone.
LEMMA RowsCommit ==
  ASSUME Typed, RowsAreCurrent, NEW o \in Order, NEW s \in Status, Commit(o, s),
         UNCHANGED <<wire, lost, loaded, board, astray, told>>,
         \A q \in Order \ {o} : \A c \in Call : SameFor(q, calls[c], calls'[c])
  PROVE  RowsAreCurrent'
  <1> DEFINE m == [order |-> o, at |-> Len(history[o]) + 1]
  <1>1. Untold' = Untold \cup {m}
    BY OneMoreMessage
  <1>2. told[o] <= Len(history[o]) /\ told[o] \in Nat /\ Len(history[o]) \in Nat
    BY TypedParts, LenProperties DEF ScreenOK
  <1>3. m \in Untold' /\ m.order = o /\ ~(m.at <= told'[o])
    BY <1>1, <1>2
  <1> HIDE DEF m
  <1>4. ~Caught(o)'
    BY <1>3 DEF Caught
  <1>5. ASSUME NEW q \in Order \ {o} PROVE RowIsCurrent(q)'
    <2>1. history'[q] = history[q]
      <3>1. history \in [Order -> Seq(Status)]
        BY TypedParts
      <3> QED BY <3>1 DEF Commit
    <2>2. Caught(q)' => Caught(q)
      BY <1>1 DEF Caught
    <2>3. LeavesAlone(q)
      BY <2>1, <2>2 DEF LeavesAlone, Current, Latest, At
    <2> QED BY <2>3, RowKept DEF RowsAreCurrent
  <1> QED BY <1>4, <1>5 DEF RowsAreCurrent, RowIsCurrent

\* A step that writes no row, and after which nothing more is heard, leaves
\* all rows alone.
LEMMA RowsLeft ==
  ASSUME RowsAreCurrent, UNCHANGED <<history, loaded, board, astray, told>>, Untold' = Untold,
         \A o \in Order, c \in Call : SameFor(o, calls[c], calls'[c])
  PROVE  RowsAreCurrent'
  <1>1. ASSUME NEW o \in Order PROVE RowIsCurrent(o)'
    <2>1. LeavesAlone(o)
      BY DEF LeavesAlone, Current, Latest, At, Caught
    <2> QED BY <2>1, RowKept DEF RowsAreCurrent
  <1> QED BY <1>1 DEF RowsAreCurrent

\* The API and the socket write no row.
LEMMA RowsApi ==
  ASSUME Typed, RowsAreCurrent, ApiStep \/ SocketStep
  PROVE  RowsAreCurrent'
  <1>2. ASSUME UNCHANGED calls PROVE \A o \in Order, c \in Call : SameFor(o, calls[c], calls'[c])
    BY <1>2 DEF SameFor
  <1>3. ASSUME NEW o \in Order, CreateHeld(o) PROVE RowsAreCurrent'
    <2>1. /\ UNCHANGED <<loaded, board, astray, told, calls>> /\ Untold' = Untold
          /\ history[o] = <<>> /\ history' = [history EXCEPT ![o] = Append(@, "DRAFT")]
      BY <1>3 DEF CreateHeld, screen, heard, channel, Untold, OnWire
    <2>2. /\ Len(history'[o]) = Len(history[o]) + 1
          /\ history'[o][Len(history[o]) + 1] = "DRAFT"
          /\ \A q \in Order \ {o} : history'[q] = history[q]
      BY <2>1, TypedParts, Statuses, OneMoreStatus
    <2>3. Column(Current(o))' = Column(Current(o))
      <3>1. Len(history[o]) = 0 /\ Len(history'[o]) = 1 /\ history'[o][1] = "DRAFT"
        BY <2>1, <2>2, EmptySeq
      <3>2. Current(o) = None /\ Current(o)' = "DRAFT"
        BY <3>1 DEF Current, Latest, At
      <3> QED BY <3>2, Statuses DEF Column, BoardStatuses
    <2>4. ASSUME NEW q \in Order PROVE RowIsCurrent(q)'
      <3>1. Column(Current(q))' = Column(Current(q))
        <4>1. CASE q = o
          BY <2>3, <4>1
        <4>2. CASE q # o
          BY <2>2, <4>2 DEF Current, Latest, At
        <4> QED BY <4>1, <4>2
      <3>2. LeavesAlone(q)
        BY <2>1, <3>1 DEF LeavesAlone, Caught
      <3> QED BY <1>2, <2>1, <3>2, RowKept DEF RowsAreCurrent
    <2> QED BY <2>4 DEF RowsAreCurrent
  <1>4. ASSUME NEW o \in Order, NEW s \in Status, Commit(o, s),
               UNCHANGED <<channel, screen, calls, heard, lost>>
        PROVE  RowsAreCurrent'
    <2>1. UNCHANGED <<wire, lost, loaded, board, astray, told, calls>>
      BY <1>4 DEF channel, screen, heard
    <2> QED BY <1>2, <1>4, <2>1, RowsCommit
  <1>5. ASSUME NEW o \in Order, CreatePlaced(o) PROVE RowsAreCurrent'
    BY <1>4, <1>5, Statuses DEF CreatePlaced
  <1>6. ASSUME NEW o \in Order, NEW s \in Status, MoveElsewhere(o, s) PROVE RowsAreCurrent'
    BY <1>4, <1>6 DEF MoveElsewhere
  <1>7. CASE (\E m \in news : Announce(m)) \/ SocketStep
    <2>1. UNCHANGED <<history, loaded, board, astray, told>>
      BY <1>7 DEF Announce, SocketStep, Drop, NewToken, Join, Refuse, Connect,
                  server, screen, heard
    <2>2. Untold' = Untold
      BY <1>7, SameMessages
    <2>3. \A o \in Order, c \in Call : SameFor(o, calls[c], calls'[c])
      <3>1. ASSUME NEW c \in Call, Connect(c), NEW o \in Order
            PROVE  \A d \in Call : SameFor(o, calls[d], calls'[d])
        <4>1. SameFor(o, calls[c], ListCall)
          BY <3>1 DEF Connect, SameFor, Idle, FetchPC
        <4> QED BY <3>1, <4>1, OtherCalls DEF Connect
      <3>2. CASE UNCHANGED calls
        BY <1>2, <3>2
      <3>3. UNCHANGED calls \/ \E c \in Call : Connect(c)
        BY <1>7 DEF Announce, SocketStep, Drop, NewToken, Join, Refuse
      <3> QED BY <3>1, <3>2, <3>3
    <2> QED BY <2>1, <2>2, <2>3, RowsLeft
  <1> QED BY <1>3, <1>5, <1>6, <1>7 DEF ApiStep

\* Serving a call, refusing it and losing it write no row; a move that is
\* granted because its order is there already is no move any more, and its
\* row stands where the order is.
LEMMA RowsCall ==
  ASSUME Typed, RowsAreCurrent, CallStep
  PROVE  RowsAreCurrent'
  <1>1. /\ history \in [Order -> Seq(Status)] /\ calls \in [Call -> CallState]
        /\ board \in [Order -> Row]
    BY TypedParts DEF ScreenOK
  <1>2. UNCHANGED <<loaded, board, astray, told>>
    BY DEF CallStep, ServeList, ServeGet, ServeMove, RefuseMove, FailCall, Crash,
           Respond, screen, heard
  <1>3. ASSUME NEW o \in Order, NEW d \in Call PROVE SameFor(o, calls[d], Failed(calls[d]))
    <2>1. calls[d] \in CallState
      BY <1>1
    <2> QED BY <2>1, FailedShape DEF SameFor, MovePC, FetchPC
  <1>4. CASE Crash
    <2>1. ASSUME NEW o \in Order, NEW d \in Call PROVE SameFor(o, calls[d], calls'[d])
      <3>1. calls'[d] \in {calls[d], Failed(calls[d])}
        BY <1>4 DEF Crash
      <3>2. SameFor(o, calls[d], calls[d])
        BY DEF SameFor
      <3> QED BY <1>3, <3>1, <3>2
    <2>2. UNCHANGED history
      BY <1>4 DEF Crash
    <2> QED BY <1>2, <1>4, <2>1, <2>2, SameMessages, RowsLeft
  <1>5. ASSUME NEW c \in Call, NEW r, calls' = [calls EXCEPT ![c] = r],
               UNCHANGED <<history, news, wire, lost>>,
               \A o \in Order : SameFor(o, calls[c], r)
        PROVE  RowsAreCurrent'
    <2>1. Untold' = Untold
      BY <1>5 DEF Untold, OnWire
    <2>2. \A o \in Order, d \in Call : SameFor(o, calls[d], calls'[d])
      BY <1>5, OtherCalls
    <2> QED BY <1>2, <1>5, <2>1, <2>2, RowsLeft
  <1>6. ASSUME NEW c \in Call, ServeList(c) PROVE RowsAreCurrent'
    <2> DEFINE r == [pc |-> "rows", at |-> [o \in Order |-> Latest(o)]]
    <2>1. /\ calls' = [calls EXCEPT ![c] = r] /\ \A o \in Order : SameFor(o, calls[c], r)
          /\ UNCHANGED <<history, news, wire, lost>>
      BY <1>6 DEF ServeList, Respond, ListCall, SameFor, FetchPC, server, channel
    <2> HIDE DEF r
    <2> QED BY <1>5, <2>1
  <1>7. ASSUME NEW c \in Call, ServeGet(c) PROVE RowsAreCurrent'
    <2> DEFINE r == [pc |-> "row", order |-> calls[c].order, at |-> Latest(calls[c].order)]
    <2>1. /\ calls' = [calls EXCEPT ![c] = r] /\ \A o \in Order : SameFor(o, calls[c], r)
          /\ UNCHANGED <<history, news, wire, lost>>
      BY <1>7 DEF ServeGet, Respond, SameFor, FetchPC, server, channel
    <2> HIDE DEF r
    <2> QED BY <1>5, <2>1
  <1>8. ASSUME NEW c \in Call, RefuseMove(c) PROVE RowsAreCurrent'
    <2>1. /\ calls' = [calls EXCEPT ![c] = Undo(calls[c])]
          /\ \A o \in Order : SameFor(o, calls[c], Undo(calls[c]))
          /\ UNCHANGED <<history, news, wire, lost>>
      BY <1>8 DEF RefuseMove, Respond, Undo, SameFor, FetchPC, server, channel
    <2> QED BY <1>5, <2>1
  <1>9. ASSUME NEW c \in Call, FailCall(c) PROVE RowsAreCurrent'
    <2>1. /\ calls' = [calls EXCEPT ![c] = Failed(calls[c])]
          /\ UNCHANGED <<history, news, wire, lost>>
      BY <1>1, <1>9 DEF FailCall, server, channel
    <2> QED BY <1>3, <1>5, <2>1
  <1>10. ASSUME NEW c \in Call, ServeMove(c) PROVE RowsAreCurrent'
    <2>1. PICK o \in Order, s \in Status :
            calls[c].pc = "move" /\ calls[c].order = o /\ calls[c].to = s
      BY <1>1, <1>10, CallShapes DEF ServeMove, MovePC
    <2> DEFINE g(x) == [pc |-> "moved", order |-> o, to |-> s,
                        prev |-> calls[c].prev, at |-> x]
    <2>2. PICK x \in {0, Latest(o) + 1} :
            /\ calls' = [calls EXCEPT ![c] = g(x)] /\ UNCHANGED <<wire, lost>>
            /\ (Current(o) = s /\ UNCHANGED <<history, news>>) \/ Commit(o, s)
      BY <1>10, <2>1 DEF ServeMove, Respond, server, channel
    <2>3. ASSUME NEW q \in Order \ {o} PROVE \A d \in Call : SameFor(q, calls[d], calls'[d])
      <3>1. SameFor(q, calls[c], g(x))
        BY <2>1 DEF SameFor, FetchPC
      <3> HIDE DEF g
      <3> QED BY <2>2, <2>3, <3>1, OtherCalls
    <2>4. CASE Commit(o, s)
      BY <1>2, <2>1, <2>2, <2>3, <2>4, RowsCommit
    <2>5. CASE Current(o) = s /\ UNCHANGED <<history, news>>
      <3>1. Untold' = Untold
        BY <2>2, <2>5 DEF Untold, OnWire
      <3>2. \A q \in Order : LeavesAlone(q)
        BY <1>2, <2>5, <3>1 DEF LeavesAlone, Current, Latest, At, Caught
      <3>3. ASSUME NEW q \in Order \ {o} PROVE RowIsCurrent(q)'
        BY <2>3, <3>2, RowKept DEF RowsAreCurrent
      <3>4. ASSUME loaded', o \notin astray', Caught(o)', ~Fetched(o)'
            PROVE  Column(board'[o]) = Column(Current(o)')
                     \/ \E d \in Call : Showing(calls[d], o)'
        <4>1. \A d \in Call \ {c} : calls'[d] = calls[d]
          BY <1>1, <2>2
        <4>2. ~Fetched(o)
          BY <2>1, <3>4, <4>1 DEF Fetched, FetchPC
        <4>3. loaded /\ o \notin astray /\ Caught(o) /\ board' = board
              /\ Column(Current(o))' = Column(Current(o))
          BY <1>2, <2>1, <3>2, <3>4 DEF LeavesAlone
        <4>4. Column(board[o]) = Column(Current(o)) \/ \E d \in Call : Showing(calls[d], o)
          BY <2>1, <4>2, <4>3 DEF RowsAreCurrent, RowIsCurrent
        <4>5. Showing(calls[c], o) => board[o] = Current(o)
          BY <2>1, <2>5 DEF Showing
        <4>6. \A d \in Call \ {c} : Showing(calls[d], o) => Showing(calls[d], o)'
          BY <4>1, <4>3 DEF Showing
        <4> QED BY <4>3, <4>4, <4>5, <4>6
      <3> QED BY <3>3, <3>4 DEF RowsAreCurrent, RowIsCurrent
    <2> QED BY <2>2, <2>4, <2>5
  <1> QED BY <1>4, <1>6, <1>7, <1>8, <1>9, <1>10 DEF CallStep

\* A message about one order leaves the rows of the others alone.
LEMMA RowsOfOthers ==
  ASSUME Typed, RowsAreCurrent, NEW o \in Order,
         UNCHANGED <<history, loaded>>,
         \A q \in Order \ {o} : /\ board'[q] = board[q]
                                /\ q \in astray => q \in astray'
                                /\ Caught(q)' => Caught(q)
                                /\ \A c \in Call : SameFor(q, calls[c], calls'[c]),
         RowIsCurrent(o)'
  PROVE  RowsAreCurrent'
  <1>1. ASSUME NEW q \in Order \ {o} PROVE RowIsCurrent(q)'
    <2>1. LeavesAlone(q)
      BY DEF LeavesAlone, Current, Latest, At
    <2> QED BY <2>1, RowKept DEF RowsAreCurrent
  <1> QED BY <1>1 DEF RowsAreCurrent

\* A message off the wire: it writes the row, sends for it, or tells of a
\* status the board has no column for.
LEMMA RowsHear ==
  ASSUME Typed, Typed', UnheardIsOnTheWay, RowsAreCurrent,
         HearChanged \/ HearNothing \/ \E c \in Call : HearCreated(c) \/ HearUnknown(c)
  PROVE  RowsAreCurrent'
  <1>1. /\ wire # <<>> /\ wire' = Tail(wire) /\ UNCHANGED <<history, news, lost, loaded>>
        /\ told' = [told EXCEPT ![Head(wire).order] = Maximum(@, Head(wire).at)]
    BY DEF HearChanged, HearNothing, HearCreated, HearUnknown, Hear, server, screen
  <1>2. PICK o \in Order, p \in Nat : Head(wire).order = o /\ Head(wire).at = p
    BY <1>1, NextMessage
  <1>3. /\ UnheardIsOnTheWay'
        /\ \A q \in Order \ {o} : Caught(q)' => Caught(q)
        /\ told' = told /\ Caught(o)' => Caught(o)
    BY <1>1, <1>2, UnheardHear
  <1>4. /\ ~(p < told[o]) => told'[o] = p
        /\ p < told[o] => told' = told
    BY <1>1, <1>2, HeardMore
  <1>5. board \in [Order -> Row] /\ calls \in [Call -> CallState] /\ astray \subseteq Order
    BY TypedParts DEF ScreenOK
  <1>6. ASSUME UNCHANGED calls PROVE \A q \in Order, c \in Call : SameFor(q, calls[c], calls'[c])
    BY <1>6 DEF SameFor
  <1>7. ASSUME NEW c \in Call, HearCreated(c) \/ HearUnknown(c) PROVE RowsAreCurrent'
    <2>1. /\ calls[c] = Idle /\ calls' = [calls EXCEPT ![c] = GetCall(o)]
          /\ UNCHANGED <<board, astray>>
      BY <1>2, <1>7 DEF HearCreated, HearUnknown, screen
    <2>2. \A q \in Order : SameFor(q, calls[c], GetCall(o))
      BY <2>1 DEF SameFor, Idle, FetchPC
    <2>3. \A q \in Order, d \in Call : SameFor(q, calls[d], calls'[d])
      BY <2>1, <2>2, OtherCalls
    <2>4. Fetched(o)'
      <3>1. calls'[c] = GetCall(o)
        BY <1>5, <2>1
      <3> QED BY <3>1 DEF Fetched, GetCall, FetchPC
    <2>5. RowIsCurrent(o)'
      BY <2>4 DEF RowIsCurrent
    <2> QED BY <1>1, <1>3, <2>1, <2>3, <2>5, RowsOfOthers
  <1>8. CASE HearNothing
    <2>1. /\ UNCHANGED <<calls, board, astray>>
          /\ loaded => board[o] = None /\ ~Wanted(At(o, p))
      BY <1>2, <1>8 DEF HearNothing, screen
    <2>2. CASE p < told[o]
      <3>1. LeavesAlone(o)
        BY <1>1, <1>3, <1>4, <2>1, <2>2 DEF LeavesAlone, Current, Latest, At
      <3>2. RowIsCurrent(o)'
        BY <1>6, <2>1, <3>1, RowKept DEF RowsAreCurrent
      <3> QED BY <1>1, <1>3, <1>6, <2>1, <3>2, RowsOfOthers
    <2>3. CASE ~(p < told[o])
      <3>1. ASSUME loaded', Caught(o)' PROVE Column(board'[o]) = Column(Current(o)')
        <4>1. Column(At(o, told[o])') = Column(Current(o)')
          BY <1>3, <3>1, HeardColumnNext
        <4>2. At(o, told[o])' = At(o, p)
          BY <1>1, <1>4, <2>3 DEF At
        <4>3. board'[o] = None /\ Column(At(o, p)) = None
          BY <1>1, <2>1, <3>1 DEF Wanted, Column
        <4>4. Column(None) = None
          BY DEF Column
        <4> QED BY <4>1, <4>2, <4>3, <4>4
      <3>2. RowIsCurrent(o)'
        BY <3>1 DEF RowIsCurrent
      <3> QED BY <1>1, <1>3, <1>6, <2>1, <3>2, RowsOfOthers
    <2> QED BY <2>2, <2>3
  <1>9. CASE HearChanged
    <2>1. /\ UNCHANGED calls /\ board' = [board EXCEPT ![o] = At(o, p)]
          /\ astray' = IF p < told[o] THEN astray \cup {o} ELSE astray \ {o}
      BY <1>2, <1>9 DEF HearChanged, Hear
    <2>2. ASSUME o \notin astray', Caught(o)' PROVE Column(board'[o]) = Column(Current(o)')
      <3>1. told'[o] = p
        BY <1>4, <2>1, <2>2
      <3>2. Column(At(o, told[o])') = Column(Current(o)')
        BY <1>3, <2>2, HeardColumnNext
      <3>3. At(o, told[o])' = At(o, p) /\ board'[o] = At(o, p)
        BY <1>1, <1>5, <2>1, <3>1 DEF At
      <3> QED BY <3>2, <3>3
    <2>3. RowIsCurrent(o)'
      BY <2>2 DEF RowIsCurrent
    <2>4. \A q \in Order \ {o} : board'[q] = board[q] /\ (q \in astray => q \in astray')
      BY <1>5, <2>1
    <2> QED BY <1>1, <1>3, <1>6, <2>1, <2>3, <2>4, RowsOfOthers
  <1> QED BY <1>7, <1>8, <1>9

\* An answer: a list or a row is written from a place of the order's history,
\* and is astray when the screen has heard of a later one.
LEMMA RowsAnswered ==
  ASSUME Typed, Typed', UnheardIsOnTheWay, UnheardIsOnTheWay', RowsAreCurrent, NEW c \in Call,
         TakeList(c) \/ TakeRow(c) \/ TakeLoss(c) \/ Granted(c)
  PROVE  RowsAreCurrent'
  <1>1. /\ board \in [Order -> Row] /\ calls \in [Call -> CallState]
        /\ told \in [Order -> Nat] /\ astray \subseteq Order
    BY TypedParts DEF ScreenOK
  <1>2. /\ UNCHANGED <<history, news, wire, lost>> /\ calls' = [calls EXCEPT ![c] = Idle]
    BY DEF TakeList, TakeRow, TakeLoss, Granted, Answered, server, channel
  <1>3. Untold' = Untold
    BY <1>2 DEF Untold, OnWire
  <1>4. ASSUME NEW q \in Order, told'[q] = told[q], Caught(q)' PROVE Caught(q)
    BY <1>3, <1>4 DEF Caught
  <1>5. ASSUME NEW q \in Order, calls[c].pc \notin FetchPC \cup {"move", "undo"}
                                  \/ calls[c].order # q
        PROVE  \A d \in Call : SameFor(q, calls[d], calls'[d])
    <2>1. SameFor(q, calls[c], Idle)
      BY <1>5 DEF SameFor
    <2> QED BY <1>2, <2>1, OtherCalls
  <1>6. ASSUME NEW q \in Order, NEW p \in Nat, Caught(q)',
               board'[q] = At(q, p), told'[q] = Maximum(told[q], p), ~(p < told[q])
        PROVE  Column(board'[q]) = Column(Current(q)')
    <2>1. told'[q] = p
      BY <1>1, <1>6 DEF Maximum
    <2>2. Column(At(q, told[q])') = Column(Current(q)')
      BY <1>6, HeardColumnNext
    <2>3. At(q, told[q])' = At(q, p)
      BY <1>2, <2>1 DEF At
    <2> QED BY <1>6, <2>2, <2>3
  <1>7. CASE TakeList(c)
    <2>1. calls[c].at \in [Order -> Nat]
      BY <1>1, <1>7, CallShapes DEF TakeList
    <2>2. ASSUME NEW q \in Order, q \notin astray', Caught(q)'
          PROVE  Column(board'[q]) = Column(Current(q)')
      <3>1. /\ board'[q] = At(q, calls[c].at[q])
            /\ told'[q] = Maximum(told[q], calls[c].at[q]) /\ ~(calls[c].at[q] < told[q])
        BY <1>7, <2>2 DEF TakeList
      <3> QED BY <1>6, <2>1, <2>2, <3>1
    <2> QED BY <2>2 DEF RowsAreCurrent, RowIsCurrent
  <1>8. CASE TakeRow(c)
    <2>1. PICK o \in Order, p \in Nat : calls[c].pc = "row" /\ calls[c].order = o /\ calls[c].at = p
      BY <1>1, <1>8, CallShapes DEF TakeRow, FetchPC
    <2>2. CASE ~loaded
      BY <1>8, <2>2 DEF TakeRow, RowsAreCurrent, RowIsCurrent
    <2>3. CASE loaded
      <3>1. /\ board' = [board EXCEPT ![o] = At(o, p)]
            /\ told' = [told EXCEPT ![o] = Maximum(@, p)]
            /\ astray' = IF p < told[o] THEN astray \cup {o} ELSE astray \ {o}
            /\ loaded' = loaded
        BY <1>8, <2>1, <2>3 DEF TakeRow, Hear
      <3>2. ASSUME o \notin astray', Caught(o)' PROVE Column(board'[o]) = Column(Current(o)')
        <4>1. /\ board'[o] = At(o, p) /\ told'[o] = Maximum(told[o], p) /\ ~(p < told[o])
          BY <1>1, <3>1, <3>2
        <4> QED BY <1>6, <3>2, <4>1
      <3>3. RowIsCurrent(o)'
        BY <3>2 DEF RowIsCurrent
      <3>4. ASSUME NEW q \in Order \ {o}
            PROVE  /\ board'[q] = board[q] /\ told'[q] = told[q]
                   /\ q \in astray => q \in astray'
                   /\ Caught(q)' => Caught(q)
                   /\ \A d \in Call : SameFor(q, calls[d], calls'[d])
        BY <1>1, <1>4, <1>5, <2>1, <3>1
      <3> QED BY <1>2, <3>1, <3>3, <3>4, RowsOfOthers
    <2> QED BY <2>2, <2>3
  <1>9. CASE calls[c].pc = "getLost" /\ TakeLoss(c)
    <2>1. PICK o \in Order : calls[c].order = o
      BY <1>1, <1>9, CallShapes DEF FetchPC
    <2>2. UNCHANGED <<loaded, board, told>> /\ astray' = astray \cup {o}
      BY <1>9, <2>1 DEF TakeLoss, screen
    <2>3. RowIsCurrent(o)'
      BY <2>2 DEF RowIsCurrent
    <2> QED BY <1>2, <1>4, <1>5, <2>1, <2>2, <2>3, RowsOfOthers
  <1>10. CASE Granted(c) \/ (calls[c].pc # "getLost" /\ TakeLoss(c))
    <2>1. /\ UNCHANGED <<loaded, board, told, astray>>
          /\ calls[c].pc \notin FetchPC \cup {"move", "undo"}
      BY <1>10 DEF Granted, TakeLoss, screen, heard, FetchPC
    <2> QED BY <1>2, <1>3, <1>5, <2>1, RowsLeft
  <1> QED BY <1>7, <1>8, <1>9, <1>10

\* A rollback: the row goes back to where it was, which is where the order
\* is or astray.
LEMMA RowsRolledBack ==
  ASSUME Typed, UnheardIsOnTheWay, RowsAreCurrent, NEW c \in Call, RollBack(c)
  PROVE  RowsAreCurrent'
  <1>1. /\ board \in [Order -> Row] /\ calls \in [Call -> CallState] /\ astray \subseteq Order
    BY TypedParts DEF ScreenOK
  <1>2. PICK o \in Order, v \in Row :
          /\ calls[c].pc = "undo" /\ calls[c].order = o /\ calls[c].prev = v
          /\ calls[c].to \in Status
    BY <1>1, CallShapes DEF RollBack, MovePC
  <1>3. UNCHANGED <<history, news, wire, lost, loaded, told>> /\ calls' = [calls EXCEPT ![c] = Idle]
    BY DEF RollBack, Answered, server, channel
  <1>4. \A q \in Order : Caught(q)' => Caught(q)
    BY <1>3 DEF Caught, Untold, OnWire
  <1>5. ASSUME NEW q \in Order \ {o} PROVE \A d \in Call : SameFor(q, calls[d], calls'[d])
    <2>1. SameFor(q, calls[c], Idle)
      BY <1>2 DEF SameFor, FetchPC
    <2> QED BY <1>3, <2>1, OtherCalls
  <1>6. \A d \in Call \ {c} : calls'[d] = calls[d]
    BY <1>1, <1>3
  <1>7. CASE loaded /\ v # None /\ board[o] # None
    <2>1. /\ board' = [board EXCEPT ![o] = v]
          /\ astray' = IF v = At(o, told[o]) THEN astray \ {o} ELSE astray \cup {o}
      BY <1>2, <1>7 DEF RollBack, Restored
    <2>2. ASSUME o \notin astray', Caught(o)' PROVE Column(board'[o]) = Column(Current(o)')
      <3>1. board'[o] = At(o, told[o])
        BY <1>1, <2>1, <2>2
      <3>2. Column(At(o, told[o])) = Column(Current(o))
        BY <1>4, <2>2, HeardColumn
      <3> QED BY <1>3, <3>1, <3>2 DEF Current, Latest, At
    <2>3. RowIsCurrent(o)'
      BY <2>2 DEF RowIsCurrent
    <2>4. \A q \in Order \ {o} : board'[q] = board[q] /\ (q \in astray => q \in astray')
      BY <1>1, <2>1
    <2> QED BY <1>3, <1>4, <1>5, <2>3, <2>4, RowsOfOthers
  <1>8. CASE ~(loaded /\ v # None /\ board[o] # None)
    <2>1. UNCHANGED <<board, astray>>
      BY <1>2, <1>8 DEF RollBack
    <2>2. ASSUME loaded', o \notin astray', Caught(o)', ~Fetched(o)'
          PROVE  Column(board'[o]) = Column(Current(o)')
                   \/ \E d \in Call : Showing(calls[d], o)'
      <3>1. ~Fetched(o)
        BY <1>2, <1>6, <2>2 DEF Fetched, FetchPC
      <3>2. Column(board[o]) = Column(Current(o)) \/ \E d \in Call : Showing(calls[d], o)
        BY <1>3, <1>4, <2>1, <2>2, <3>1 DEF RowsAreCurrent, RowIsCurrent
      <3>3. ~Showing(calls[c], o)
        BY <1>2, <1>3, <1>8, <2>2, Statuses DEF Showing
      <3>4. \A d \in Call \ {c} : Showing(calls[d], o) => Showing(calls[d], o)'
        BY <1>6, <2>1 DEF Showing
      <3> QED BY <1>3, <2>1, <3>2, <3>3, <3>4 DEF Current, Latest, At
    <2>3. RowIsCurrent(o)'
      BY <2>2 DEF RowIsCurrent
    <2> QED BY <1>3, <1>4, <1>5, <2>1, <2>3, RowsOfOthers
  <1> QED BY <1>7, <1>8

\* A tap: the row stands where the move that is out has put it.
LEMMA RowsTapped ==
  ASSUME Typed, RowsAreCurrent, NEW c \in Call, NEW o \in Order, NEW x \in Status,
         Advance(c, o, x)
  PROVE  RowsAreCurrent'
  <1> DEFINE r == [pc |-> "move", order |-> o, to |-> x, prev |-> board[o]]
  <1>1. board \in [Order -> Row] /\ calls \in [Call -> CallState]
    BY TypedParts DEF ScreenOK
  <1>2. /\ calls[c] = Idle /\ calls' = [calls EXCEPT ![c] = r]
        /\ board' = IF board[o] = None THEN board ELSE [board EXCEPT ![o] = x]
        /\ UNCHANGED <<history, news, wire, lost, loaded, told, astray>>
    BY DEF Advance, server, channel
  <1>3. r.pc = "move" /\ r.order = o /\ r.to = x /\ r.prev = board[o]
    OBVIOUS
  <1> HIDE DEF r
  <1>4. \A q \in Order, d \in Call : SameFor(q, calls[d], calls'[d])
    <2>1. \A q \in Order : SameFor(q, calls[c], r)
      BY <1>2 DEF SameFor, Idle, FetchPC
    <2> QED BY <1>2, <2>1, OtherCalls
  <1>5. \A q \in Order : Caught(q)' => Caught(q)
    BY <1>2 DEF Caught, Untold, OnWire
  <1>6. RowIsCurrent(o)'
    <2>1. CASE board[o] = None
      <3>1. LeavesAlone(o)
        BY <1>2, <1>5, <2>1 DEF LeavesAlone, Current, Latest, At
      <3> QED BY <1>4, <3>1, RowKept DEF RowsAreCurrent
    <2>2. CASE board[o] # None
      <3>1. calls'[c] = r /\ board'[o] = x
        BY <1>1, <1>2, <2>2
      <3>2. Showing(calls[c], o)'
        BY <1>3, <2>2, <3>1 DEF Showing
      <3> QED BY <3>2 DEF RowIsCurrent
    <2> QED BY <2>1, <2>2
  <1>7. \A q \in Order \ {o} : board'[q] = board[q]
    BY <1>1, <1>2
  <1> QED BY <1>2, <1>4, <1>5, <1>6, <1>7, RowsOfOthers

\* All that the screen does keeps the rows current.
LEMMA RowsScreen ==
  ASSUME Typed, Typed', UnheardIsOnTheWay, UnheardIsOnTheWay', RowsAreCurrent, ScreenStep
  PROVE  RowsAreCurrent'
  <1>1. ASSUME NEW c \in Call, NEW o \in Order, HandOver(c, o) PROVE RowsAreCurrent'
    BY <1>1, Statuses, RowsTapped DEF HandOver
  <1>2. ASSUME NEW c \in Call, NEW o \in Order, NEW x \in Status, PickMove(c, o, x)
        PROVE  RowsAreCurrent'
    BY <1>2, RowsTapped DEF PickMove
  <1> QED BY <1>1, <1>2, RowsHear, RowsAnswered, RowsRolledBack DEF ScreenStep

\* A ticket in the wrong column is explained: once nothing about its order is
\* on the way, it stands where the order is, unless an announcement later than
\* all the screen has heard was lost, or its row was last written by a late
\* answer, a failed fetch or a rollback over something newer (the live board
\* of kitchen-client.tsx and the announcements of orders.service.ts).
THEOREM TicketsAreExplained == Spec => []WrongTicketsAreExplained
  <1>1. Init => UnheardIsOnTheWay /\ RowsAreCurrent
    <2> SUFFICES ASSUME Init PROVE UnheardIsOnTheWay /\ RowsAreCurrent
      OBVIOUS
    <2>1. ASSUME NEW o \in Order PROVE 1 .. Len(history[o]) = {}
      <3>1. history[o] = <<>>
        BY DEF Init
      <3>2. Len(history[o]) = 0
        BY <3>1
      <3> QED BY <3>2
    <2> QED BY <2>1 DEF Init, UnheardIsOnTheWay, Accounted, RowsAreCurrent, RowIsCurrent
  <1>2. Typed /\ UnheardIsOnTheWay /\ RowsAreCurrent /\ [Next]_vars
          => UnheardIsOnTheWay' /\ RowsAreCurrent'
    <2> SUFFICES ASSUME Typed, UnheardIsOnTheWay, RowsAreCurrent, [Next]_vars
                 PROVE  UnheardIsOnTheWay' /\ RowsAreCurrent'
      OBVIOUS
    <2>1. Typed'
      BY TypedStep
    <2>2. CASE UNCHANGED vars
      <3>1. Untold' = Untold
        BY <2>2 DEF vars, Untold, OnWire
      <3>2. UnheardIsOnTheWay'
        BY <2>2, <3>1 DEF vars, UnheardIsOnTheWay
      <3>3. \A o \in Order, c \in Call : SameFor(o, calls[c], calls'[c])
        BY <2>2 DEF vars, SameFor
      <3> QED BY <2>2, <3>1, <3>2, <3>3, RowsLeft DEF vars
    <2>3. CASE ApiStep \/ SocketStep \/ CallStep
      BY <2>1, <2>3, UnheardApi, RowsApi, RowsCall
    <2>4. CASE ScreenStep
      BY <2>1, <2>4, UnheardScreen, RowsScreen
    <2> QED BY <2>2, <2>3, <2>4 DEF Next
  <1>3. Typed /\ RowsAreCurrent => WrongTicketsAreExplained
    <2> SUFFICES ASSUME Typed, RowsAreCurrent, NEW o \in Order,
                        loaded, Quiet(o), o \notin astray,
                        \A m \in lost : m.order = o => m.at <= told[o]
                 PROVE  LET s == IF history[o] = <<>> THEN None ELSE history[o][Len(history[o])]
                        IN  \A b \in {"PLACED", "COMPLETED"} : board[o] = b <=> s = b
      BY DEF WrongTicketsAreExplained
    <2> DEFINE s == IF history[o] = <<>> THEN None ELSE history[o][Len(history[o])]
    <2>1. Caught(o)
      BY DEF Quiet, Caught, Untold
    <2>2. calls \in [Call -> CallState] /\ history[o] \in Seq(Status)
      BY TypedParts
    <2>3. ASSUME NEW c \in Call, calls[c].pc \in FetchPC \cup {"move", "undo"}
          PROVE  calls[c].order # o
      BY <2>3 DEF Quiet, Idle, FetchPC
    <2>4. Column(board[o]) = Column(Current(o))
      BY <2>1, <2>3 DEF RowsAreCurrent, RowIsCurrent, Fetched, Showing
    <2>5. Current(o) = s
      BY <2>2, EmptySeq DEF Current, Latest, At
    <2>6. \A b \in {"PLACED", "COMPLETED"} : board[o] = b <=> s = b
      BY <2>4, <2>5, Statuses DEF Column, BoardStatuses
    <2> QED BY <2>6
  <1> QED BY <1>1, <1>2, <1>3, TypedInit, TypedStep, PTL DEF Spec
=============================================================================
